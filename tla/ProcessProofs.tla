--------------------------- MODULE ProcessProofs ---------------------------
(***************************************************************************)
(* Proofs about Process, for every table size and every mix of system      *)
(* calls, kills and failures.  DistinctPids is not inductive: process_fork *)
(* and process_spawn_user publish a slot without looking whether it was    *)
(* killed meanwhile, so a slot can come back to life with the pid it had.  *)
(* The invariant therefore speaks about all slots, not only the live ones, *)
(* and about next_pid, which is ahead of every pid in the table.           *)
(***************************************************************************)
EXTENDS Process, TLAPS

\* No pid is in the table twice, and next_pid is fresh.
PidsFresh ==
    /\ \A s \in Slots : pid[s] < next_pid
    /\ \A s, t \in Slots : s # t /\ pid[s] # 0 => pid[s] # pid[t]

\* A thread that works on a slot has one.
HasObj ==
    \A s \in Slots :
        pc[s] \in PCs \ {"user", "fork_entry", "wait_check", "wait_blocked"} => obj[s] \in Slots

\* The inductive invariant.
PidInv == TypeOK /\ HasObj /\ PidsFresh

-----------------------------------------------------------------------------
\* process_init and the first spawn.
LEMMA PidInit == Init => PidInv
BY ConstantsAssumption, SMTT(30)
   DEF Init, PidInv, TypeOK, HasObj, PidsFresh, Slots, States, PCs, None

\* One case per step of a system call.
LEMMA TypeStep ==
    ASSUME TypeOK, HasObj, NEW s \in Slots,
           Dispatch(s) \/ Preempt(s) \/ Continue(s) \/ Syscall(s)
    PROVE  TypeOK' /\ HasObj'
<1>. USE ConstantsAssumption DEF TypeOK, HasObj, States, PCs, table, locals
<1>0. 0 \in 0 .. MaxPid
  OBVIOUS
<1>1. CASE Dispatch(s)
  BY <1>0, <1>1 DEF Dispatch
<1>2. CASE Preempt(s)
  BY <1>0, <1>2 DEF Preempt
<1>3. CASE ForkStart(s)
  BY <1>0, <1>3 DEF ForkStart, ForkClaim
<1>4. CASE ForkFull(s)
  BY <1>0, <1>4 DEF ForkFull, Return
<1>5. CASE ForkFields(s)
  BY <1>0, <1>5 DEF ForkFields, Running
<1>6. CASE ForkPublish(s)
  BY <1>0, <1>6 DEF ForkPublish, Running
<1>7. CASE ForkFail(s)
  BY <1>0, <1>7 DEF ForkFail, Running
<1>8. CASE ForkUndo(s)
  BY <1>0, <1>8 DEF ForkUndo, Running, Return
<1>9. ASSUME NEW b \in BOOLEAN, SpawnPublish(s, b) PROVE TypeOK' /\ HasObj'
  BY <1>0, <1>9 DEF SpawnPublish, Running
<1>10. CASE MakeReady(s)
  BY <1>0, <1>10 DEF MakeReady, Running
<1>11. CASE SeedFail(s)
  BY <1>0, <1>11 DEF SeedFail, Running
<1>12. CASE Created(s)
  BY <1>0, <1>12 DEF Created, Return
<1>13. CASE WaitReturn(s)
  BY <1>0, <1>13 DEF WaitReturn, Return
<1>14. CASE WaitBlock(s)
  BY <1>0, <1>14 DEF WaitBlock
<1>15. CASE WaitResume(s)
  BY <1>0, <1>15 DEF WaitResume
<1>16. CASE ExitEnter(s)
  BY <1>0, <1>16 DEF ExitEnter, Running, Return
<1>17. CASE ExitPid(s)
  BY <1>0, <1>17 DEF ExitPid, Running
<1>18. CASE ExitWake(s)
  BY <1>0, <1>18 DEF ExitWake, Return
<1>19. CASE OtherSyscall(s)
  BY <1>0, <1>19 DEF OtherSyscall, Enter
<1>20. CASE Fork(s)
  BY <1>0, <1>20 DEF Fork, Enter
<1>21. CASE Exec(s)
  BY <1>0, <1>21 DEF Exec, Enter, SpawnClaim
<1>22. CASE Exit(s)
  BY <1>0, <1>22 DEF Exit, Enter
<1>23. ASSUME NEW p \in 1 .. MaxPid, Wait(s, p) PROVE TypeOK' /\ HasObj'
  BY <1>0, <1>23 DEF Wait, Enter
<1>24. ASSUME NEW v \in Slots, Kill(s, v) PROVE TypeOK' /\ HasObj'
  BY <1>0, <1>24 DEF Kill, Enter
<1>. QED
  BY <1>1, <1>2, <1>3, <1>4, <1>5, <1>6, <1>7, <1>8, <1>9, <1>10, <1>11, <1>12, Zenon,
     <1>13, <1>14, <1>15, <1>16, <1>17, <1>18, <1>19, <1>20, <1>21, <1>22, <1>23, <1>24
     DEF Continue, Syscall

\* What a step may do to the pids: hand out next_pid to one slot (the two
\* claims), clear one slot's (ForkUndo, ExitPid, Exit), or nothing.
LEMMA PidChange ==
    ASSUME TypeOK, NEW s \in Slots,
           Dispatch(s) \/ Preempt(s) \/ Continue(s) \/ Syscall(s)
    PROVE  \/ \E i \in Slots : pid' = [pid EXCEPT ![i] = next_pid] /\ next_pid' = next_pid + 1
           \/ next_pid' = next_pid /\ \E i \in Slots \cup {None} : pid' = [pid EXCEPT ![i] = 0]
           \/ next_pid' = next_pid /\ pid' = pid
<1>1. CASE ForkStart(s)  BY <1>1, Zenon DEF ForkStart, ForkClaim
<1>2. CASE Exec(s)  BY <1>2, Zenon DEF Exec, SpawnClaim
<1>3. CASE ForkUndo(s)  BY <1>3, Zenon DEF ForkUndo, TypeOK
<1>4. CASE ExitPid(s)  BY <1>4, Zenon DEF ExitPid, TypeOK
<1>5. CASE Exit(s)  BY <1>5, Zenon DEF Exit
<1>6. CASE \/ Dispatch(s) \/ Preempt(s) \/ ForkFull(s) \/ ForkFields(s) \/ ForkPublish(s)
           \/ ForkFail(s) \/ MakeReady(s) \/ SeedFail(s) \/ Created(s) \/ WaitReturn(s)
           \/ WaitBlock(s) \/ WaitResume(s) \/ ExitEnter(s) \/ ExitWake(s)
           \/ OtherSyscall(s) \/ Fork(s)
           \/ (\E b \in BOOLEAN : SpawnPublish(s, b))
           \/ (\E p \in 1 .. MaxPid : Wait(s, p)) \/ (\E v \in Slots : Kill(s, v))
  BY <1>6
     DEF Dispatch, Preempt, ForkFull, ForkFields, ForkPublish, ForkFail, MakeReady, SeedFail,
         Created, WaitReturn, WaitBlock, WaitResume, ExitEnter, ExitWake, OtherSyscall, Fork,
         SpawnPublish, Wait, Kill, table
<1>. QED
  BY <1>1, <1>2, <1>3, <1>4, <1>5, <1>6 DEF Continue, Syscall

\* alloc_pid keeps pids apart.
LEMMA PidStep ==
    ASSUME PidInv, NEW s \in Slots,
           Dispatch(s) \/ Preempt(s) \/ Continue(s) \/ Syscall(s)
    PROVE  PidsFresh'
<1>. USE ConstantsAssumption DEF PidInv, PidsFresh, TypeOK
<1>0. pid \in [Slots -> Nat] /\ next_pid \in Nat \ {0}
  OBVIOUS
<1>1. CASE \E i \in Slots : pid' = [pid EXCEPT ![i] = next_pid] /\ next_pid' = next_pid + 1
  BY <1>0, <1>1
<1>2. CASE next_pid' = next_pid /\ \E i \in Slots \cup {None} : pid' = [pid EXCEPT ![i] = 0]
  BY <1>0, <1>2
<1>3. CASE next_pid' = next_pid /\ pid' = pid
  BY <1>3
<1>. QED BY <1>1, <1>2, <1>3, PidChange

\* PidInv holds in every reachable state.
THEOREM PidInvariant == Spec => []PidInv
<1>1. PidInv /\ [Next]_vars => PidInv'
  <2>. SUFFICES ASSUME PidInv, [Next]_vars
                PROVE  PidInv'
    OBVIOUS
  <2>1. CASE Next
    BY <2>1, TypeStep, PidStep DEF Next, PidInv
  <2>2. CASE UNCHANGED vars
    BY <2>2 DEF vars, table, locals, PidInv, TypeOK, HasObj, PidsFresh
  <2>. QED BY <2>1, <2>2
<1>. QED BY PidInit, <1>1, PTL DEF Spec

\* Type correctness of the process table and of the threads' local state.
THEOREM ProcessTypes == Spec => []TypeOK
<1>1. PidInv => TypeOK
  BY DEF PidInv
<1>. QED BY PidInvariant, <1>1, PTL

\* Two live processes never share a pid, however creation, exit and sys_kill
\* interleave.
THEOREM PidsDistinct == Spec => []DistinctPids
<1>1. PidInv => DistinctPids
  BY DEF PidInv, PidsFresh, DistinctPids
<1>. QED BY PidInvariant, <1>1, PTL
-----------------------------------------------------------------------------
(* Tables nobody is killed in.  The rest assumes that no process is killed *)
(* and that no creation fails half way: process_exit and the undo of       *)
(* process_fork free a slot and clear its pid in two steps, so another     *)
(* process can claim the slot in between and lose its pid; when a process  *)
(* with pid 0 exits, every half-made slot is a waiter of pid 0 and is      *)
(* woken.  A kill of a half-made slot frees it under its builder.  Without *)
(* those steps the reservation protocol is sound.                          *)

Undisturbed == Ops \cap {"kill", "no_memory", "row_full"} = {}

\* Where a thread holds a slot it has not finished.
Building == {"fork_fields", "fork_copy", "spawn_fill", "seed_fds"}

\* A slot is RUNNING exactly when it has the CPU.
OneCpu == \A s \in Slots : state[s] = "RUNNING" <=> current = s

\* Only a fully formed process is inside a system call, it has a pid, and no
\* thread is in the middle of ending another slot.
CallsAreLive ==
    \A s \in Slots :
        /\ pc[s] # "user" => Live(s) /\ built[s]
        /\ pc[s] \notin {"fork_undo", "exit_enter", "exit_pid", "exit_wake"}
        /\ Live(s) => pid[s] # 0

\* A half-made slot is BLOCKED and held by the one thread that builds it.
HeldHalfMade ==
    /\ \A s \in Slots : pc[s] \in Building => state[obj[s]] = "BLOCKED" /\ ~built[obj[s]]
    /\ \A s, t \in Slots :
          pc[s] \in Building /\ pc[t] \in Building /\ obj[s] = obj[t] => s = t
    /\ \A i \in Slots :
          Live(i) /\ ~built[i] => \E s \in Slots : pc[s] \in Building /\ obj[s] = i
    /\ OnlyBuiltRuns

\* waiting_for_pid is set exactly while a process is blocked in sys_wait, and
\* what it waits for is alive.  In particular a free slot has no stale value
\* that process_fork's claim would carry over to the child.
WaitersWait ==
    \A s \in Slots :
        /\ waiting_for_pid[s] # 0 => state[s] = "BLOCKED" /\ pc[s] = "wait_blocked"
        /\ state[s] = "BLOCKED" /\ built[s] =>
              /\ pc[s] = "wait_blocked"
              /\ waiting_for_pid[s] = arg[s]
              /\ LivePid(arg[s])

\* The inductive invariant of an undisturbed table.
TableInv == PidInv /\ OneCpu /\ CallsAreLive /\ HeldHalfMade /\ WaitersWait

\* The first process is the shell, in ring 3.
LEMMA TableInit == Init => TableInv
<1>. SUFFICES ASSUME Init PROVE TableInv
  OBVIOUS
<1>1. OneCpu /\ CallsAreLive
  BY ConstantsAssumption DEF Init, OneCpu, CallsAreLive, Slots, None, Live
<1>2. HeldHalfMade /\ WaitersWait
  BY ConstantsAssumption, Zenon DEF Init, HeldHalfMade, OnlyBuiltRuns, Building, WaitersWait, Live
<1>. QED BY <1>1, <1>2, PidInit DEF TableInv

\* The steps an undisturbed table takes.
LEMMA UndisturbedCases ==
    ASSUME Undisturbed, CallsAreLive, NEW s \in Slots,
           Dispatch(s) \/ Preempt(s) \/ Continue(s) \/ Syscall(s)
    PROVE  \/ Dispatch(s) \/ Preempt(s)
           \/ ForkStart(s) \/ ForkFull(s) \/ ForkFields(s) \/ ForkPublish(s)
           \/ (\E b \in BOOLEAN : SpawnPublish(s, b))
           \/ MakeReady(s) \/ Created(s)
           \/ WaitReturn(s) \/ WaitBlock(s) \/ WaitResume(s)
           \/ OtherSyscall(s) \/ Fork(s) \/ Exec(s) \/ Exit(s)
           \/ \E p \in 1 .. MaxPid : Wait(s, p)
<1>1. ~ForkFail(s) /\ ~SeedFail(s) /\ \A v \in Slots : ~Kill(s, v)
  BY DEF Undisturbed, ForkFail, SeedFail, Kill
<1>2. ~ForkUndo(s) /\ ~ExitEnter(s) /\ ~ExitPid(s) /\ ~ExitWake(s)
  BY DEF CallsAreLive, ForkUndo, ExitEnter, ExitPid, ExitWake, Running
<1>. QED BY <1>1, <1>2, Zenon DEF Continue, Syscall

\* A step of s as the conjuncts' lemmas take it.
StepOf(s) == Dispatch(s) \/ Preempt(s) \/ Continue(s) \/ Syscall(s)

\* Only scheduler_run_once makes a slot RUNNING, and whoever leaves the CPU
\* leaves that state in the same step.
LEMMA OneCpuStep ==
    ASSUME Undisturbed, TableInv, NEW s \in Slots, StepOf(s)
    PROVE  OneCpu'
<1>. USE DEF TableInv, PidInv, TypeOK, OneCpu
<1>0. None \notin Slots
  BY DEF None, Slots
<1>1. CASE Dispatch(s)
  BY <1>0, <1>1 DEF Dispatch
<1>2. CASE Preempt(s)
  BY <1>0, <1>2 DEF Preempt
<1>3. CASE ForkStart(s)
  BY <1>3 DEF ForkStart, ForkClaim, FreeSlot
<1>4. CASE ForkPublish(s)
  BY <1>4 DEF ForkPublish, Running, HeldHalfMade, Building
<1>5. ASSUME NEW b \in BOOLEAN, SpawnPublish(s, b) PROVE OneCpu'
  BY <1>5 DEF SpawnPublish, Running, HeldHalfMade, Building
<1>6. CASE MakeReady(s)
  BY <1>6 DEF MakeReady
<1>7. CASE WaitBlock(s)
  BY <1>0, <1>7 DEF WaitBlock, Running
<1>8. CASE Exec(s)
  BY <1>8 DEF Exec, SpawnClaim, FreeSlot
<1>9. CASE Exit(s)
  BY <1>0, <1>9 DEF Exit, Enter, Running, Waiters
<1>10. ASSUME UNCHANGED <<state, current>> PROVE OneCpu'
  BY <1>10, SMTT(30)
<1>11. CASE \/ ForkFull(s) \/ ForkFields(s) \/ Created(s) \/ WaitReturn(s) \/ WaitResume(s)
            \/ OtherSyscall(s) \/ Fork(s) \/ \E p \in 1 .. MaxPid : Wait(s, p)
  BY <1>10, <1>11
     DEF ForkFull, ForkFields, Created, WaitReturn, WaitResume, OtherSyscall, Fork, Wait, table
<1>. QED
  BY UndisturbedCases, <1>1, <1>2, <1>3, <1>4, <1>5, <1>6, <1>7, <1>8, <1>9, <1>11, Zenon
     DEF StepOf

\* A thread that is in a system call got there as a running process.
LEMMA CallsStep ==
    ASSUME Undisturbed, TableInv, NEW s \in Slots, StepOf(s)
    PROVE  CallsAreLive'
<1>. USE DEF TableInv, PidInv, TypeOK, CallsAreLive, Live
<1>0. current = s => state[s] = "RUNNING" /\ built[s]
  BY DEF OneCpu, HeldHalfMade, OnlyBuiltRuns
<1>1. CASE Dispatch(s) \/ Preempt(s)
  BY <1>1 DEF Dispatch, Preempt, locals
<1>2. CASE ForkStart(s)
  BY <1>0, <1>2 DEF ForkStart, ForkClaim, FreeSlot, Running
<1>3. CASE ForkPublish(s)
  BY <1>0, <1>3 DEF ForkPublish, Running, HeldHalfMade, Building, HasObj, PCs
<1>4. ASSUME NEW b \in BOOLEAN, SpawnPublish(s, b) PROVE CallsAreLive'
  BY <1>0, <1>4 DEF SpawnPublish, Running, HeldHalfMade, Building, HasObj, PCs
<1>5. CASE MakeReady(s)
  BY <1>0, <1>5 DEF MakeReady, Running, HeldHalfMade, Building
<1>6. CASE WaitBlock(s) \/ WaitResume(s) \/ ForkFields(s)
  BY <1>0, <1>6 DEF WaitBlock, WaitResume, ForkFields, Running
<1>7. CASE Exec(s)
  BY <1>0, <1>7 DEF Exec, SpawnClaim, FreeSlot, Enter, Running
<1>8. CASE Exit(s)
  BY <1>0, <1>8 DEF Exit, Enter, Running, Waiters, locals
<1>9. CASE ForkFull(s) \/ Created(s) \/ WaitReturn(s)
  BY <1>9 DEF ForkFull, Created, WaitReturn, Return, table
<1>10. CASE \/ OtherSyscall(s) \/ Fork(s) \/ \E p \in 1 .. MaxPid : Wait(s, p)
  BY <1>0, <1>10 DEF OtherSyscall, Fork, Wait, Enter, Running, table, locals
<1>. QED
  BY UndisturbedCases, <1>1, <1>2, <1>3, <1>4, <1>5, <1>6, <1>7, <1>8, <1>9, <1>10, Zenon
     DEF StepOf

\* A claim takes a free slot, which nobody holds; the builder alone publishes
\* it.  A waiter that is woken is not a half-made slot: pids are never 0.
LEMMA HeldStep ==
    ASSUME Undisturbed, TableInv, NEW s \in Slots, StepOf(s)
    PROVE  HeldHalfMade'
<1>. USE DEF TableInv, PidInv, TypeOK, HeldHalfMade, OnlyBuiltRuns, Building, Live
<1>0. /\ current = s => state[s] = "RUNNING" /\ built[s]
      /\ \A t \in Slots : pc[t] \in Building => obj[t] \in Slots
  BY DEF OneCpu, HasObj, PCs
<1>1. CASE Dispatch(s) \/ Preempt(s)
  BY <1>0, <1>1 DEF Dispatch, Preempt, locals
<1>2. CASE ForkStart(s)
  <2>1. PICK i \in Slots : ForkClaim(i) /\ obj' = [obj EXCEPT ![s] = i]
    BY <1>2, Zenon DEF ForkStart
  <2>. QED BY <1>0, <1>2, <2>1 DEF ForkStart, ForkClaim, FreeSlot, Running
<1>3. CASE ForkPublish(s)
  <2>1. obj[s] \in Slots /\ obj[s] # s /\ pc[obj[s]] = "user"
    BY <1>0, <1>3 DEF ForkPublish, Running, CallsAreLive
  <2>2. \A t \in Slots : pc[t] \in Building /\ t # s => pc'[t] = pc[t] /\ obj[t] # obj[s]
    BY <1>0, <1>3, <2>1 DEF ForkPublish, Running
  <2>. QED BY <1>0, <1>3, <2>1, <2>2, SMTT(30) DEF ForkPublish, Running
<1>4. ASSUME NEW b \in BOOLEAN, SpawnPublish(s, b) PROVE HeldHalfMade'
  <2>1. obj[s] \in Slots /\ obj[s] # s /\ pc[obj[s]] = "user"
    BY <1>0, <1>4 DEF SpawnPublish, Running, CallsAreLive
  <2>2. \A t \in Slots : pc[t] \in Building /\ t # s => pc'[t] = pc[t] /\ obj[t] # obj[s]
    BY <1>0, <1>4, <2>1 DEF SpawnPublish, Running
  <2>. QED BY <1>0, <1>4, <2>1, <2>2, SMTT(30) DEF SpawnPublish, Running
<1>5. CASE MakeReady(s)
  BY <1>0, <1>5 DEF MakeReady, Running
<1>6. CASE WaitBlock(s) \/ WaitResume(s) \/ ForkFields(s)
  BY <1>0, <1>6 DEF WaitBlock, WaitResume, ForkFields, Running
<1>7. CASE Exec(s)
  <2>1. PICK i \in Slots : SpawnClaim(i) /\ obj' = [obj EXCEPT ![s] = i]
    BY <1>7, Zenon DEF Exec
  <2>. QED BY <1>0, <1>7, <2>1 DEF Exec, SpawnClaim, FreeSlot, Enter, Running
<1>8. CASE Exit(s)
  <2>1. \A t \in Waiters(pid[s]) : built[t]
    BY <1>0, <1>8 DEF Exit, Enter, Running, Waiters, CallsAreLive, WaitersWait
  <2>. QED BY <1>0, <1>8, <2>1 DEF Exit, Enter, Running, Waiters, locals
<1>9. CASE ForkFull(s) \/ Created(s) \/ WaitReturn(s)
  BY <1>9 DEF ForkFull, Created, WaitReturn, Return, Running, table
<1>10. CASE \/ OtherSyscall(s) \/ Fork(s) \/ \E p \in 1 .. MaxPid : Wait(s, p)
  BY <1>0, <1>10 DEF OtherSyscall, Fork, Wait, Enter, Running, table, locals
<1>. QED
  BY UndisturbedCases, <1>1, <1>2, <1>3, <1>4, <1>5, <1>6, <1>7, <1>8, <1>9, <1>10, ZenonT(60)
     DEF StepOf

\* The check of sys_wait and its block are one section, and the exit of the
\* target wakes every slot that waits for it.
LEMMA WaitStep ==
    ASSUME Undisturbed, TableInv, NEW s \in Slots, StepOf(s)
    PROVE  WaitersWait'
<1>. USE DEF TableInv, PidInv, TypeOK, WaitersWait, Live, LivePid
<1>0. /\ current = s => state[s] = "RUNNING" /\ built[s]
      /\ \A t \in Slots :
            pc[t] \in Building => obj[t] \in Slots /\ state[obj[t]] = "BLOCKED" /\ ~built[obj[t]]
  BY DEF OneCpu, HasObj, PCs, HeldHalfMade, OnlyBuiltRuns, Building
<1>1. CASE Dispatch(s) \/ Preempt(s)
  BY <1>0, <1>1 DEF Dispatch, Preempt, locals
<1>2. CASE ForkStart(s)
  <2>1. PICK i \in Slots : ForkClaim(i) /\ obj' = [obj EXCEPT ![s] = i]
    BY <1>2, Zenon DEF ForkStart
  <2>. QED BY <1>0, <1>2, <2>1 DEF ForkStart, ForkClaim, FreeSlot, Running
<1>3. CASE ForkPublish(s)
  <2>1. obj[s] \in Slots /\ obj[s] # s /\ pc[obj[s]] = "user"
    BY <1>0, <1>3 DEF ForkPublish, Running, CallsAreLive, Building
  <2>2. \A p : LivePid(p) => LivePid(p)'
    BY <2>1, <1>3 DEF ForkPublish
  <2>. QED BY <1>0, <1>3, <2>1, <2>2 DEF ForkPublish, Running, Building
<1>4. ASSUME NEW b \in BOOLEAN, SpawnPublish(s, b) PROVE WaitersWait'
  <2>1. obj[s] \in Slots /\ obj[s] # s /\ pc[obj[s]] = "user"
    BY <1>0, <1>4 DEF SpawnPublish, Running, CallsAreLive, Building
  <2>2. \A p : LivePid(p) => LivePid(p)'
    BY <2>1, <1>4 DEF SpawnPublish
  <2>. QED BY <1>0, <1>4, <2>1, <2>2 DEF SpawnPublish, Running, Building
<1>5. CASE MakeReady(s)
  <2>1. obj[s] \in Slots /\ obj[s] # s /\ pc[obj[s]] = "user"
    BY <1>0, <1>5 DEF MakeReady, Running, CallsAreLive, Building
  <2>2. \A p : LivePid(p) => LivePid(p)'
    BY <1>5 DEF MakeReady
  <2>. QED BY <1>0, <1>5, <2>1, <2>2 DEF MakeReady, Running, Building
<1>6. CASE WaitBlock(s) \/ WaitResume(s)
  BY <1>0, <1>6 DEF WaitBlock, WaitResume, Running
<1>7. CASE ForkFields(s)
  BY <1>0, <1>7 DEF ForkFields, Running, Building
<1>8. CASE Exec(s)
  <2>1. PICK i \in Slots : SpawnClaim(i) /\ obj' = [obj EXCEPT ![s] = i]
    BY <1>8, Zenon DEF Exec
  <2>. QED BY <1>0, <1>8, <2>1 DEF Exec, SpawnClaim, FreeSlot, Enter, Running
<1>9. CASE Exit(s)
  <2>1. \A t \in Slots : arg[t] # pid[s] /\ LivePid(arg[t]) => LivePid(arg[t])'
    BY <1>0, <1>9 DEF Exit, Enter, Running, Waiters, locals
  <2>. QED BY <1>0, <1>9, <2>1 DEF Exit, Enter, Running, Waiters, locals
<1>10. CASE ForkFull(s) \/ Created(s) \/ WaitReturn(s)
  BY <1>0, <1>10 DEF ForkFull, Created, WaitReturn, Return, Running, table
<1>11. CASE \/ OtherSyscall(s) \/ Fork(s) \/ \E p \in 1 .. MaxPid : Wait(s, p)
  BY <1>0, <1>11 DEF OtherSyscall, Fork, Wait, Enter, Running, table, locals
<1>. QED
  BY UndisturbedCases, <1>1, <1>2, <1>3, <1>4, <1>5, <1>6, <1>7, <1>8, <1>9, <1>10, <1>11, Zenon
     DEF StepOf

\* TableInv holds in every reachable state of an undisturbed table.
THEOREM TableInvariant == Undisturbed /\ Spec => []TableInv
<1>. SUFFICES ASSUME Undisturbed PROVE Spec => []TableInv
  OBVIOUS
<1>1. TableInv /\ [Next]_vars => TableInv'
  <2>. SUFFICES ASSUME TableInv, [Next]_vars
                PROVE  TableInv'
    OBVIOUS
  <2>1. CASE Next
    <3>1. PICK s \in Slots : StepOf(s)
      BY <2>1 DEF Next, StepOf
    <3>2. PidInv'
      BY <3>1, TypeStep, PidStep, ZenonT(60) DEF TableInv, PidInv, StepOf
    <3>. QED BY <3>1, <3>2, OneCpuStep, CallsStep, HeldStep, WaitStep DEF TableInv
  <2>2. CASE UNCHANGED vars
    <3>1. PidInv'
      BY <2>2 DEF TableInv, vars, table, locals, PidInv, TypeOK, HasObj, PidsFresh
    <3>. QED
      BY <2>2, <3>1
         DEF TableInv, vars, table, locals, OneCpu, CallsAreLive, HeldHalfMade, OnlyBuiltRuns,
             WaitersWait, Live, LivePid
  <2>. QED BY <2>1, <2>2
<1>. QED BY TableInit, <1>1, PTL DEF Spec

\* No slot is scheduled before its stack, address space and fd row are in
\* place, whatever creates, waits and exits at the same time.
THEOREM BuiltBeforeRun == Undisturbed /\ Spec => []OnlyBuiltRuns
<1>1. TableInv => OnlyBuiltRuns
  BY Zenon DEF TableInv, HeldHalfMade
<1>. QED BY TableInvariant, <1>1, PTL

\* A reserved slot has exactly one process that will finish it, and that
\* process is alive.
THEOREM ReservationIsHeld == Undisturbed /\ Spec => []OneBuilder
<1>1. TableInv => OneBuilder
  BY DEF TableInv, HeldHalfMade, CallsAreLive, OneBuilder, Builds, Building
<1>. QED BY TableInvariant, <1>1, PTL

\* No process sleeps in sys_wait for a process that has ended.
THEOREM WakeupNotLost == Undisturbed /\ Spec => []NoLostWakeup
<1>1. TableInv => NoLostWakeup
  BY DEF TableInv, WaitersWait, NoLostWakeup
<1>. QED BY TableInvariant, <1>1, PTL

\* sys_wait is woken by the end of the process it waits for and nothing else.
THEOREM WokenByTarget == Undisturbed /\ Spec => WokenOnlyByTarget
<1>. SUFFICES ASSUME Undisturbed PROVE Spec => WokenOnlyByTarget
  OBVIOUS
<1>. DEFINE Woken(s) == pc[s] = "wait_blocked" /\ state[s] = "BLOCKED" /\ state'[s] # "BLOCKED"
            Ends(s) == LivePid(arg[s]) /\ ~LivePid(arg[s])'
<1>1. TableInv /\ [Next]_vars => [\A s \in Slots : Woken(s) => Ends(s)]_vars
  <2>. SUFFICES ASSUME TableInv, Next, NEW s \in Slots, Woken(s)
                PROVE  Ends(s)
    BY DEF vars
  <2>1. PICK t \in Slots : StepOf(t)
    BY DEF Next, StepOf
  <2>2. built[s] /\ waiting_for_pid[s] = arg[s] /\ LivePid(arg[s])
    BY DEF TableInv, CallsAreLive, WaitersWait, Live
  <2>3. \/ ForkPublish(t) \/ (\E b \in BOOLEAN : SpawnPublish(t, b)) \/ MakeReady(t)
        => state'[s] = "BLOCKED"
    <3>1. pc[t] \in Building => obj[t] # s
      BY <2>2, SMTT(30) DEF TableInv, HeldHalfMade
    <3>. QED
      BY <3>1, ZenonT(30) DEF TableInv, PidInv, TypeOK, ForkPublish, SpawnPublish, MakeReady, Running, Building
  <2>4. \/ Dispatch(t) \/ Preempt(t) \/ ForkStart(t) \/ Exec(t) \/ WaitBlock(t)
        => state'[s] = "BLOCKED"
    BY SMTT(30) DEF TableInv, PidInv, TypeOK, Dispatch, Preempt, ForkStart, ForkClaim, Exec, SpawnClaim,
           FreeSlot, WaitBlock
  <2>5. \/ ForkFull(t) \/ ForkFields(t) \/ Created(t) \/ WaitReturn(t) \/ WaitResume(t)
        \/ OtherSyscall(t) \/ Fork(t) \/ (\E p \in 1 .. MaxPid : Wait(t, p))
        => state'[s] = "BLOCKED"
    BY ZenonT(40) DEF ForkFull, ForkFields, Created, WaitReturn, WaitResume, OtherSyscall, Fork, Wait, table
  <2>6. Exit(t)
    BY <2>1, <2>3, <2>4, <2>5, UndisturbedCases, Zenon DEF TableInv, StepOf
  <2>7. s # t /\ pid[t] = arg[s] /\ Live(t) /\ pid[t] # 0
    BY <2>2, <2>6
       DEF Exit, Enter, Running, Waiters, TableInv, PidInv, TypeOK, CallsAreLive, OneCpu, Live
  <2>8. \A u \in Slots : pid[u] = arg[s] => u = t
    BY <2>7 DEF TableInv, PidInv, PidsFresh
  <2>9. ~LivePid(arg[s])'
    BY <2>6, <2>7, <2>8 DEF Exit, LivePid, Live, locals, TableInv, PidInv, TypeOK
  <2>. QED BY <2>2, <2>9
<1>. QED BY <1>1, TableInvariant, PTL DEF Spec, WokenOnlyByTarget
=============================================================================
