# NullOS in TLA+

TLA+ models of the kernel of NullOS, a 32-bit x86 operating system in C. The
modules model the parts of the kernel where steps of processes, interrupts and
devices interleave, where a crash, a failed write or a full table comes between
two steps, or where long sequences of calls work on one data structure. TLC
checks them on small instances; TLAPS proves the safety properties of all parts
but the file system for every size.

## The system

NullOS runs on one CPU. `kmain` initialises the hardware, decides between a
normal boot and Safe Mode, starts the shell and enters the scheduler loop
(`main.c:266-269`). Three facts shape every model:

- The system call gate is a trap gate (`idt.c:210-212`), so a system call runs
  with interrupts on and the timer can take the CPU away between any two of its
  steps. Only `cli`/`sti` sections are atomic.
- The interrupt gates turn interrupts off, so a handler is one step.
- `timer_callback` preempts only a process whose state is `PROCESS_RUNNING`. A
  process that has set itself `BLOCKED` runs on until it switches away.

| Part | Source (`src/kernel/`) | State | Operations | Hard behaviours | Module |
|---|---|---|---|---|---|
| Process table | `process.c`, calls in `syscall.c` | slots, pids, `waiting_for_pid`, `next_pid`, `g_syscall_frame` | fork, exec, exec_pipe, wait, exit, kill | preemption in half-done claims and exits, kills, memory running out | `Process` |
| Scheduler, timer | `scheduler.c`, `timer.c` | states, `current_index`, `ticks`, `ticks_run`, saved stack pointers | dispatch, yield, sleep, block, tick | ticks inside the dispatch, wrap of the tick counter, starvation | `Scheduler` |
| Pipes | `pipe.c`, `pipe.h` | ring, counts, waiters | create, read, write, add and release of references | blocking races, wrap of the ring, end of file | `Pipe`, `PipeSpec` |
| Descriptor table | `syscall.c`, `fs/vfs.c` | `fd_table` rows, pipe pool | pipe, open, close, fork, exec, exec_pipe, exit, kill | copies and counts taken in separate steps | `FdTable` |
| ATA driver | `drivers/ata.c` | gate and its waiters, completion flag, drive | sector read and write, interrupt | lost and stale completions, errors, timeouts, killed callers | `Ata` |
| FAT16 and the calls on files | `fs/fat16.c`, `fs/vfs.c`, `syscall.c` | disk, cached FAT, descriptors, current directory | mount, open, create, read, write, write_file, mkdir, chdir, getcwd, readdir | failed writes, power loss between two sectors, full disk and full directory, stale descriptors | `Fat16` |
| Memory and program loader | `memory/*.c`, `exec.c`, `elf.c`, `process.c`, `syscall.c` | page bitmap, heap list, address spaces | exec, fork, write_file's buffer, exit, kill, copies to and from user memory | interleaved allocations, running out at any page, growth of the heap, kills of half-built processes | `Memory` |
| Boot decision, crash record | `main.c`, `bootcfg.c`, `crashdump.c`, `idt.c` | configuration sector and its copy in memory | boot, first keyboard read, exception, acknowledge, reboot | power loss and failed accesses anywhere | `Boot` |
| Keyboard and its readers | `keyboard.c`, `safemode.c`, `safeshell.c`, `user/shell.c`, `user/edit.c` | two rings, who reads, Safe Mode's screen and second tier | key interrupt, line and raw reads, flush, screens | keys between the stores of a flush, full rings, failed initialisation steps | `Console` (extends `Boot`) |

`PROJECT.json` lists every component, the source lines each definition stands
for, and the hazards with the properties that cover them.

## The modules

**Process.** `state`, `pid` and `waiting_for_pid` are the fields of
`process_table`. Each slot has a kernel stack and so a thread of control: `pc`,
`obj`, `arg` and `frame` are its local variables. An action is a `cli`/`sti`
section or a stretch of code that touches the table once; `Preempt` may come
between any two. `process_exit` is three steps (state, pid, wake scan) and a
failed fork two, as in the code. The slot that runs next is left open, which
covers every scheduling policy. `Ops` selects the calls programs make and the
failures that happen.

**Scheduler.** `scheduler_run_once` is split where a tick makes a difference:
scan, `current_process`, `PROCESS_RUNNING`, `ticks_run` and switch, return.
`scheduler_sleep_current` is split between its read of the tick counter
(`SleepRead`) and the store of the deadline in `process_sleep` (`SleepStore`).
`esp` records whose stack a saved pointer names. `ticks` counts modulo `TickMod`
(2^32 in the code) and may start anywhere. `held`, `bypassed` and `late` (the
sleepers whose deadline was over when they stored it) only observe.

**Pipe and PipeSpec.** `Pipe` has the ring with `head`, `tail` and `count`, both
reference counts, both waiters and the callers' progress. Bytes are numbered in
the order they are written. `PipeSpec` is what `pipe.h` promises: a bounded
queue, end of file, broken pipe, and calls that go on when they can. The
refinement mapping takes `queue` to the ring's contents and `open` to `used`.

**FdTable.** Rows of descriptors and the pool of pipes. `sys_fork` copies and
counts entry by entry, `sys_pipe` scans and then fills, `sys_exec_pipe` seeds a
blocked child. `Windows` says which of these sequences a tick may split.

**Ata.** Callers (processes, and the boot thread that polls), the gate, the flag
`g_irq_fired` and a drive that finishes or fails a command and raises the
interrupt. The drive is external: it is modelled from how the driver uses it.
`orphaned` and `left_out` are history.

**Fat16.** `disk` has the FAT copies, the root directory and the data clusters;
`g_fat` is the kernel's cached FAT. A call is a record with its own `pc`, and
one action writes one sector: `WriteSector`, `WriteCluster`, `UpdateEntry`,
`FlushSector`. `IOError` fails the write that is due and takes the code's error
path; `PowerLoss` mounts the disk again. A cluster is one sector of `Bpc` units,
and a unit is a byte or a directory entry. Names are abstract, with `To83` for
the conversion to 8.3 form, so that two spellings can name one file, and `Shown`
for `dirent_display_name`, which ends at the first space. `behind` holds the
entries whose chain a failed flush has kept off the disk, `torn` says that a
replacement or a mkdir was cut short.

**Memory.** `used` is the page bitmap, `blocks` the heap's list, `data` what each
page holds. `Procs` have an address space (directory, page tables, mapping) and
a call in progress, which goes page by page, so that the calls of several
processes interleave and run out of memory at every possible page. A new process
takes two steps more, as in the code: `Claim` reserves the slot (for a fork, the
step `Fork` does, before it copies anything), `Publish` fills it. `Exit` is also
`sys_kill`, which ends any slot that is not unused, a claimed one too. The builder
does not notice: it completes or undoes the slot it claimed whatever has become of
it, and if another process has taken the slot since, that one is overwritten and
all it holds is abandoned (`Replace`). A failed call undoes what the code undoes;
what is not given back goes to `leaked` or `lost`. exec_pipe builds its process
with the same `exec`; that it starts blocked is in `Process` and `FdTable`.

**Boot and Console.** `Boot` has the sector on `disk` and its copy `g_cfg`, with
the fields the code tells apart: magic line, failure count, pending flag, record.
Each sector access may fail, and a failed write may or may not have landed.
`Reset` is a power loss or reboot at any point. `tried`, `unseen` and `seen` are
the history. `Console` extends it with the keyboard rings, the shell's line loop,
the editor and Safe Mode's screens, and shares the steps that belong to both: the
first keyboard read completes a boot, and keys lead out of Safe Mode. A key is
the number it was accepted under; what it means is chosen when it is read.
`keyboard_flush` is four stores, in the order the compiler chooses. `tier2_init` is
one step per part (PMM, VMM, heap, FAT16); `ready` has the parts that came up.

**ProcessProofs, SchedulerProofs, PipeProofs, FdTableProofs, AtaProofs,
MemoryProofs, HeapProofs, BootProofs** hold the theorems. The `MC` modules give
the constants their values.

Names ending in what a plausible mistake would do (`ForkClaimSamePid`,
`WokenLate`, ...) are mutated forms of the definition below them: no
specification uses them, and every property is violated by one of them.

## What TLC checks

| Run | Instance | Distinct states | What it shows |
|---|---|---|---|
| `processes` | 3 slots, 4 pids, fork/exec/exec_pipe/wait/exit | 26,492 | only finished slots run, every half-built slot has one builder, no wakeup of `sys_wait` is lost or given to the wrong waiter, `sys_wait` returns, claimed slots run |
| `processes_abort` | 3 slots, 3 pids, also kills and failures | 398,349 | pids stay distinct when `process_exit` and fork's undo are split |
| `scheduler` | 3 slots, two of which sleep, slice of 2 ticks, counter modulo 3 | 657,042 | full and bounded slices across the wrap, one-tick sleeps that end in time unless a tick splits the call, round robin, every READY process runs |
| `pipe` | 2 processes, 2-byte ring, writes up to 3 bytes, 4 bytes in all | 62,218 | FIFO contents, exact counts, no lost wakeup, refinement of `PipeSpec` with its liveness |
| `ata` | boot thread, 2 slots, 1 sector | 142,615 | successful calls have their own data, no stale completion, waiters at the gate are woken, the gate comes free |
| `fds` | 3 slots, 2 descriptors, 1 pipe, calls not split | 429,968 | held ends are open and counted, counts are exact, free slots hold nothing |
| `boot` | threshold 3, two interchangeable crashes, rings of 3, lines of 2 | 202,657 | crashes are not lost and stop boots, failures are bounded, the reason is true; every reader gets its own keys in order; no part of Safe Mode's second tier that came up is initialised again |
| `fat16` | 4 data clusters of 2 units, 2 FAT copies, 2 root entries, 2 descriptors, an empty and a used disk | 140,796 | no cluster is shared or dangling, a power loss during a positional write leaves every file whole but the one whose flush is under way or failed, writes and reads reach the right bytes, other files are untouched, names, listings and paths agree for names without a space |
| `memory` | 17 pages of 6 units, heap of up to 3 pages, 3 processes, 3 programs | 509,603 | a page has one owner, a process finds its own data, heap blocks never overlap, and pages and blocks are forgotten only by the steps `LeaksKnown` lists, although slots are killed while they are built |

Three runs show that the code and its documentation disagree. Each checks what a
document or comment says, and TLC's counterexample is a behaviour of the code:

- `fork_frame`: a tick between `isr128` and `sys_fork`'s copy replaces
  `g_syscall_frame` (`src/docs/scheduler.md:32` says nothing can be preempted
  before the copy).
- `dispatch_tick`: a tick between `PROCESS_RUNNING` and `ticks_run` in
  `scheduler_run_once` yields on the loop's stack (`timer.c:26-29` says the
  switch there is safe).
- `fork_dup`: the child closes a copied end before it is counted
  (`src/docs/pipes.md:26`).

More disagreements are states that passing runs reach and that their properties
name as exceptions; no run of their own shows them:

- A completion that arrives between the command and `g_irq_fired = 0`
  (`ata.c:361`) is erased, and the caller sleeps for good. The comment at
  `ata.c:134-137` says it is never missed. `Stuck` in `Ata` names the state.
- After a failed FAT flush, a retry of the write finds the chain complete in the
  cached FAT, flushes nothing and commits an entry whose chain is not on the disk.
  Losing power then leaves a dirent that claims more than the disk has, against
  `fat16.c:836-838` and `src/docs/filesystem.md:46`. `CrashSafe` excepts that entry
  (`behind`) and no other; without the exception TLC finds it violated.
- `exec` returns without freeing its buffer when there is no page for a directory
  (`exec.c:81-87`; `exec.c:45` says "freed below"). `lost` in `Memory` holds it.

What the passing runs leave out because of what the code does:

- `processes` has no kills or failures: with them a slot can lose its pid between
  the steps of `process_exit`.
- `fds` does not split the three sequences. `RefsAreEntries` and
  `FreeSlotIsClosed` hold up to the first kill, as `sys_kill` closes no descriptor.
- `TurnComes` and `GateComesFree` name the states (`Derailed`, `Stuck`) in which
  the CPU or the gate is lost. `GateWakeup` excepts a process that found the array
  of waiters full: entries of killed waiters stay in it until the next release.
- In `memory` a kill frees a slot that a fork or a spawn has claimed
  (`syscall.c:842`) and the builder completes it all the same (`process.c:310`): a
  process that took the slot in between is overwritten. `LeaksKnown` lists what it
  held as forgotten.
- `TreeSound` asks that a listed name leads back to its entry only for names without
  a space: others are listed under the part before it (`fat16.c:508-520`).
- `SleepOneTick` excepts a sleeper that a tick met between the read of the counter
  and the store of the deadline (`late`): its deadline is over when it is stored, and
  if the counter wraps before the next tick it sleeps until the counter comes round.
- `fat16` claims nothing of chains and contents once `fat16_write_file` or `mkdir`
  was cut short (`torn`; the constraint `NotTorn` ends the run there), as they free
  or link clusters in an order that has no safe points. `ReadSeesFile` excepts a descriptor whose file another one has replaced, since
  `vfs_read` keeps the old first cluster.

### Bounds

- `PROCESS_MAX` is 16 in the code. Three slots allow a waiter, its target and a
  third process, two parents that claim the last slot at once, and a slot that is
  used again. `MaxPid` bounds the pids handed out; the wrap of `next_pid` after
  2^32 processes is outside it.
- The pipe's two-byte ring with writes of three bytes makes a write block, wrap
  and go on; `MaxBytes` bounds the bytes written in a behaviour.
- A tick counter modulo 3 with slices of 2 wraps all the time. Sleeps of one tick
  are the ones whose wake time the wrap does not make ambiguous; longer ones can
  end early in the code across the wrap. `Sleepers` limits which processes sleep: two
  of the three, so that sleepers meet each other and a process that never sleeps.
- One sector is enough for two writers and a reader to collide; the theorems cover
  any number of sectors and callers.
- `MaxRefs` bounds the counts of a pipe whose holders were killed.
- Four clusters are full after one two-cluster file, a directory and another
  cluster, so every allocation also fails. Writes of 1 and 3 units with chunks
  and clusters of 2 start and end inside a cluster, fill one and cross one.
  `MaxCalls = 2` gives every pair of changing calls, `MaxFaults = 1` one failed
  write or power loss at every sector of them.
- Seventeen pages are used up by the address spaces of ended and failed calls, which
  the code does not give back, and by a heap that may grow before them; so execs
  and forks run out at different pages. The FAT sizes
  fit the first heap page, make the heap grow, and fit nowhere. Three slots let one
  process build a slot, another kill it and a third take it. `Stores` limits what
  one store to user memory covers; the theorems take any set of such ranges.
- A ring of three places is full with two keys, so keys are dropped and indices
  wrap; keys are numbered modulo more than a ring holds.
- `VIEW WithoutFrames` (`processes`) drops `g_syscall_frame` and the threads' copies
  of it, which no step and no property of that run reads. `SYMMETRY` is over crashes
  and over descriptors, in runs without liveness properties.
- Deadlock is checked for `boot` only. In the other systems every process may
  exit, block for good or use up a bound.

### Fairness

- `Process`: strong fairness of `Dispatch` and `Continue`, weak fairness of
  `Preempt`, per slot. Round robin gives every READY slot the CPU again and again
  (run `scheduler`), a slice ends, and it is long enough for one step.
- `Scheduler`: weak fairness of the loop and of the tick. Programs owe nothing.
- `Pipe`: weak fairness of a call's next step for a READY caller.
- `Ata`: the drive ends its commands, interrupts are served, READY callers run.
- `FdTable`, `Fat16`, `Memory`, `Boot` and `Console` have safety properties only.

## What TLAPS proves

The theorems hold for every value of the constants, under the named assumptions
of the modules (sizes are positive naturals, sets are finite, distinguished
values are not members, the tick counter is wider than a slice).

- **ProcessProofs**: `ProcessTypes` (`TypeOK`) and `PidsDistinct`
  (`DistinctPids`), with kills and failures. A slot freed by a kill can be
  published again with its old pid, so the inductive invariant `PidInv` says more
  than `DistinctPids`: non-zero pids differ over *all* slots, free ones too, and
  are below `next_pid`; and a thread inside a call holds the slot it works on.

  `BuiltBeforeRun` (`OnlyBuiltRuns`), `ReservationIsHeld` (`OneBuilder`),
  `WakeupNotLost` (`NoLostWakeup`) and `WokenByTarget` (`WokenOnlyByTarget`) assume
  `Undisturbed`: no kills, and no creation that fails half way. Their invariant
  `TableInv` says that a half-made slot is BLOCKED and held by the one thread that
  builds it, and that `waiting_for_pid` is set exactly while a process is blocked in
  `sys_wait`, for a process that is alive. A free slot with a stale
  `waiting_for_pid` would hand it to the next child. The hypothesis is needed.
  When fork's undo frees a slot and another process claims it before the undo's
  second store, the new process loses its pid. When it exits, every half-made slot
  looks like a waiter for pid 0 and is woken. TLC finds this with four slots and
  five pids; three slots are too few. A kill of a
  half-made slot frees it under its builder, and a second builder can claim it.
- **SchedulerProofs**: `SlicesBounded` (`SliceBounded`), `BypassBounded`
  (`BoundedBypass`), `SlicesFull` (`FullSlice`) and `SleepsEnd` (`SleepOneTick`,
  for sleeps of one tick, with the exception `late`). `SliceInv` says that the difference timer_callback
  computes modulo `TickMod` is the number of ticks the process has had, which is
  why the wrap does no harm. `BypassInv` adds the distance of a slot from the
  cursor to the times it was bypassed: the sum stays below `PROCESS_MAX`.
- **PipeProofs**: `PipeTypes`, `PipeIsFifo` (`FifoContents`), `PipeRefsMatch`
  (`RefsMatch`) and `PipeNoLostWakeup` (`NoLostWakeup`). They depend on each
  other: a wakeup is not lost because the counts are the holders, and the ring is
  right because count, head and tail move together. `PipeInv` joins them; the
  arithmetic of the ring is in lemmas about `%`.
  `PipeImplements` is the safety part of `ImplementsPipeSpec`: initial states map to
  initial states and every step to a step of `PipeSpec` or to none. By
  `FifoContents` the queue is the last `count` numbers up to `sent`, so the argument
  is about two numbers and the ring no longer appears.
- **FdTableProofs**: `EndsStayOpen` (`HeldEndIsOpen`), `RefsExact`
  (`RefsAreEntries`) and `FreeSlotsClosed` (`FreeSlotIsClosed`), kills included,
  when no tick splits the three sequences (`Serialised`; the run `fork_dup` shows
  why). While `sys_fork` copies a row there is an entry that is not counted yet, so
  `FdInv` counts the entries without it. After a kill a fork may overwrite a row
  that still counts, so what remains true is that the count is no smaller than the
  entries. That is enough to keep every held end open.
- **AtaProofs**: `CompletionsOwn` (`NoStaleCompletion`), `WaitersWoken`
  (`GateWakeup`), `ReadsOwnSector` (`ReadReturnsSector`) and `WritesLand`
  (`WriteLands`). `AtaInv` is built in layers: one thread inside the gate
  (`Exclusion`), hence the drive's command is that thread's (`CommandInv`), hence
  a flag raised after its reset tells of that command (`FlagInv`), hence a data
  command that ended well has written the caller's sector (`DataInv`).
- **BootProofs**: `CrashSurvives`, `CrashStopsBoot`, `BootsBounded` and
  `ReasonIsTrue`. The properties speak of the disk, the steps write the copy in
  memory, so `BootInv` says for each point of the boot what `g_cfg` may differ in
  from `disk`, and that the sector agrees with the history.
  `ConsoleImplementsBoot` shows that every step of the console is a step of `Boot` or
  leaves it alone, and `ConsoleBoots` carries the four properties over to
  `ConsoleSpec`, which is what the run `boot` checks. `TierRunsOnce` (`TierOnce`:
  the stage counter never falls behind the parts that are `ready`)
  and `KeysKeepOrder` (`KeysInOrder`) are about the console itself. `KeyInv` also
  describes a ring in the middle of `keyboard_flush`: once its head is stored, the
  keys since then lie from place 0 on and have not reached the tail, whichever of
  the four stores is still to come.
- **MemoryProofs**: `PagesHaveOneOwner` (`OneOwner`), `ProcessesKeepTheirMemory`
  (`OwnMemory`) and `NoPageForgotten` (`PagesKnown`). `PageInv` says who has an
  address space at each point of a call and that spaces, heap, leaked and free pages
  are apart. Since a kill may free a claimed slot, a builder does not hold its slot
  to itself; what `CallsSound` keeps is that the slot is never the builder's own. So
  when a builder overwrites a slot, whatever space and call it finds there moves to
  `leaked` and `lost` as a whole, and the other spaces stay apart (`ReplacePages`).
  `ViewInv` adds what the pages of a half-loaded or half-copied space hold
  already. `KnownInv` says that every page in use is accounted for.
  `NoPageForgotten` assumes `Separate`: no exec maps a page twice. `user/link.ld`
  aligns every section to 4K, far below the stack. Without it the property is
  false, since `elf_load` forgets the first page it mapped at such an address.
- **HeapProofs**: `HeapStaysSound` (`HeapSound`) and `NoBlockForgotten`
  (`BlocksKnown`). `HeapInv` says that the blocks lie in order inside the heap's
  pages, and that those in use are exactly the calls' buffers, each with its own, the
  FAT, and the lost ones. A call that may overwrite a slot has no buffer left itself
  (`Quiet`), so only the buffer of the process it overwrites is lost. Most of the
  work is in lemmas on what a split, a merge and a growth of the heap do to any list
  of blocks.

`LeaksKnown`, which the run `memory` checks, is `PagesKnown` and `BlocksKnown`
together. The two memory modules do not use each other, so that each is checked in
minutes; a few small lemmas are in both.

Only model-checked:

- liveness and everything under fairness, the liveness part of the refinement of
  `PipeSpec` included, which is outside what the prover handles;
- `Fat16`, whose chains and paths are recursive definitions over data.

Of tables in which processes are killed or creations fail, only `ProcessTypes` and
`PidsDistinct` say anything: TLC finds the four properties under `Undisturbed`
violated when kills are allowed.

## What is not modelled

- Output and set-up: console, serial, messages, PCI, descriptor tables and
  interrupt controller, boot loader interface, programming of the timer, probing
  for drives. They have no state that later steps depend on, or are port I/O.
- The RAM file system (a read-only table) and user programs other than the shell
  and the editor, which are clients: the modules let processes make any call.
- The text of the configuration sector (a record in `Boot`), the editor's text and
  the shell's pipelines, argument strings, scancode tables.
- Inside one call of `pmm_alloc_page`, `kmalloc` or `kfree`, which the code does not
  protect with `cli`: `Memory` takes each as one step, so its properties say nothing
  of two that interleave there.
- File calls of two processes at once. They share static buffers, which
  `src/docs/filesystem.md:48` lists as a known limitation; `Fat16` has the calls of
  one process.
- Two programs that read the keyboard at once, segments of a program that share a
  page, kernel mappings and page flags.
- Kills together with pipes: a waiter that is killed while a pipe still points to
  its slot, and the slot's next process. `Pipe` has no kills and `Process` no pipes.
- In `FdTable` the windows of `sys_pipe` and `sys_exec_pipe` can be opened but no run
  does: the state space of the second is over two million states.

## Plan

1. Compose `Process` with `FdTable` and `Pipe`: stale waiters after a kill and
   reuse of a slot, `sys_fork`'s returned pid.
2. Split the allocators of `Memory` at their loads and stores.
3. State what remains true of `Process` with kills and failed creations, and prove
   it. Write the chains of `Fat16` as recursive functions and prove that no cluster
   is shared.
