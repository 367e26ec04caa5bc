----------------------------- MODULE AtaProofs -----------------------------
(***************************************************************************)
(* Theorems about Ata, for every set of processes and sectors, with        *)
(* errors, timeouts and kills: no completion is taken for another          *)
(* command's, successful calls have their sector, and whoever blocks at    *)
(* the gate and is registered is woken.                                    *)
(***************************************************************************)
EXTENDS Ata, TLAPS

-----------------------------------------------------------------------------
(* The inductive invariant.                                                *)

Kinds == {"none", "read", "write", "data", "flush"}

TypeInv ==
    /\ TypeOK
    /\ cmd \in [kind : Kinds, lba : Lbas \cup {NoProc}, by : Threads \cup {NoProc}]

\* The gate lets one thread in, and a killed holder's gate stays shut.
Exclusion ==
    /\ \A t \in Threads : Inside(t) => g_ata_busy
    /\ \A t, u \in Threads : Inside(t) /\ Inside(u) => t = u

\* What a thread is doing at each place of a call.
Places ==
    /\ \A t \in Threads :
         /\ pc[t] \in {"idle", "ok"} <=> kind[t] = "none"
         /\ kind[t] # "none" => lba[t] \in Lbas
         /\ pc[t] \in {"gate", "command"} => kind[t] \in {"read", "write"}
         /\ pc[t] = "drq" => kind[t] = "write"
         /\ pc[t] \in {"wait", "woken", "check"} => kind[t] # "write"
    /\ pc[Boot] # "woken"
    /\ \A p \in Procs : state[p] = "UNUSED" => pc[p] = "idle"

\* The command of thread t is the one the drive works on or worked on last.
Sent(t) == pc[t] \in {"reset", "drq", "wait", "woken", "check"}

CommandInv ==
    \A t \in Threads : Sent(t) => cmd = [kind |-> kind[t], lba |-> lba[t], by |-> t]

\* From the reset of the flag on, a raised flag means that this command ended.
FlagInv ==
    /\ irq => drive # "busy"
    /\ \A t \in Threads :
         /\ pc[t] = "drq" /\ (g_irq_fired \/ irq) => drive = "err"
         /\ pc[t] = "wait" /\ g_irq_fired => drive # "busy"
         /\ pc[t] = "check" => drive # "busy"
    /\ \A p \in Procs : pc[p] = "woken" /\ state[p] = "READY" => drive # "busy"

\* A write whose data command ended well is on the disk until it returns.
DataInv ==
    \A t \in Threads :
      /\ kind[t] = "flush" => disk[lba[t]] = t
      /\ kind[t] = "data" /\ drive \notin {"busy", "err"} => disk[lba[t]] = t

AtaInv == TypeInv /\ Exclusion /\ Places /\ CommandInv /\ FlagInv /\ DataInv /\ GateWakeup

\* The five ways out of a call that leave the drive alone.
Leaves(t) == NoDrq(t) \/ Timeout(t) \/ ReadError(t) \/ WriteError(t) \/ WriteDone(t)

\* The steps of a thread.
LEMMA NextCases ==
    ASSUME Next
    PROVE  \/ \E t \in Threads : GateAcquire(t)
           \/ \E p \in Procs : GateBlock(p)
           \/ \E t \in Threads : Command(t)
           \/ \E t \in Threads : ResetFlag(t)
           \/ \E t \in Threads : SendData(t)
           \/ \E t \in Threads : Leaves(t)
           \/ \E t \in Threads : ReadDone(t)
           \/ \E t \in Threads : WaitFired(t)
           \/ \E p \in Procs : WaitBlock(p)
           \/ \E t \in Threads : WaitResume(t)
           \/ Poll
           \/ \E t \in Threads : WriteFlush(t)
           \/ \E t \in Threads, k \in {"read", "write"}, l \in Lbas : Call(t, k, l)
           \/ \E ok \in BOOLEAN : DriveDone(ok)
           \/ Irq
           \/ BootDone
           \/ \E p \in Procs : Spawn(p)
           \/ \E p, q \in Procs : Kill(q, p)
  BY DEF Next, InCall, Threads, Leaves, WaitBlock

\* The initial state: nobody is in a call.
LEMMA InitInv == Init => AtaInv
  <1> SUFFICES ASSUME Init PROVE AtaInv
    OBVIOUS
  <1> USE AtaConstants DEF Init, Threads
  <1>1. TypeInv
    <2>1. Len(<<>>) <= PROCESS_MAX /\ <<>> \in Seq(Procs)
      OBVIOUS
    <2> QED
      BY <2>1, Zenon DEF TypeInv, TypeOK, Kinds
  <1> QED
    BY <1>1 DEF AtaInv, Exclusion, Places, CommandInv, FlagInv, DataInv, GateWakeup, Inside, Sent

\* Waking the waiters of the gate keeps the states typed.
LEMMA ReleaseType ==
    ASSUME TypeInv, NEW t \in Threads, NEW r \in {"idle", "ok"}, Release(t, r),
           UNCHANGED <<booting, flag, cmd, irq, disk>>,
           drive' \in {"idle", "busy", "drq", "err"}
    PROVE  TypeInv'
  <1> USE AtaConstants DEF Release, Goto, flag, TypeInv, TypeOK
  <1>1. g_gate_waiters' \in Seq(Procs) /\ Len(g_gate_waiters') <= PROCESS_MAX
    OBVIOUS
  <1>2. state' \in [Procs -> {"UNUSED", "READY", "BLOCKED"}]
    OBVIOUS
  <1> QED
    BY <1>1, <1>2, ZenonT(60)

\* Every step keeps every variable in its range; the array of waiters never
\* overflows.
LEMMA TypeStep ==
    ASSUME TypeInv, Places, [Next]_vars
    PROVE  TypeInv'
  <1> USE AtaConstants DEF TypeInv, TypeOK, thread, gate, flag, device, Goto
  <1>0. CASE UNCHANGED vars
    BY <1>0 DEF vars
  <1> SUFFICES ASSUME Next PROVE TypeInv'
    BY <1>0
  <1>1. CASE \E t \in Threads : GateAcquire(t)
    BY <1>1 DEF GateAcquire
  <1>2. CASE \E p \in Procs : GateBlock(p)
    <2> PICK p \in Procs : GateBlock(p)
      BY <1>2
    <2>1. g_gate_waiters' \in Seq(Procs) /\ Len(g_gate_waiters') <= PROCESS_MAX
      BY DEF GateBlock
    <2> QED
      BY <2>1 DEF GateBlock
  <1>3. CASE \E t \in Threads : Command(t)
    BY <1>3 DEF Command, Send, Kinds
  <1>4. CASE \E t \in Threads : ResetFlag(t)
    BY <1>4, ZenonT(60) DEF ResetFlag
  <1>5. CASE \E t \in Threads : SendData(t) \/ WriteFlush(t)
    <2>1. CASE \E t \in Threads : SendData(t)
      BY <2>1, SMTT(30) DEF SendData, Send, Kinds
    <2>2. CASE \E t \in Threads : WriteFlush(t)
      BY <2>2, SMTT(30) DEF WriteFlush, Send, Kinds
    <2> QED BY <1>5, <2>1, <2>2, Zenon
  <1>6. CASE \E t \in Threads : Leaves(t)
    <2> PICK t \in Threads : Leaves(t)
      BY <1>6
    <2>1. PICK r \in {"idle", "ok"} : Release(t, r)
      BY DEF Leaves, NoDrq, Timeout, ReadError, WriteError, WriteDone
    <2>2. UNCHANGED <<booting, flag, device>>
      BY DEF Leaves, NoDrq, Timeout, ReadError, WriteError, WriteDone
    <2> QED
      BY <2>1, <2>2, ReleaseType
  <1>7. CASE \E t \in Threads : ReadDone(t)
    BY <1>7, ReleaseType DEF ReadDone
  <1>8. CASE \E t \in Threads : WaitFired(t)
    BY <1>8, ZenonT(60) DEF WaitFired
  <1>9. CASE \E p \in Procs : WaitBlock(p)
    BY <1>9 DEF WaitBlock, Threads
  <1>10. CASE (\E t \in Threads : WaitResume(t)) \/ Poll
    BY <1>10, ZenonT(60) DEF WaitResume, Poll
  <1>11. CASE \E t \in Threads, k \in {"read", "write"}, l \in Lbas : Call(t, k, l)
    BY <1>11 DEF Call
  <1>12. CASE \E ok \in BOOLEAN : DriveDone(ok)
    <2>1. drive' \in {"idle", "busy", "drq", "err"} /\ irq' \in BOOLEAN
      BY <1>12 DEF DriveDone
    <2>2. disk' \in [Lbas -> Threads \cup {NoProc}]
      BY <1>12, Zenon DEF DriveDone
    <2> QED
      BY <1>12, <2>1, <2>2 DEF DriveDone
  <1>13. CASE Irq
    BY <1>13, Zenon DEF Irq
  <1>14. CASE BootDone
    BY <1>14, ZenonT(60) DEF BootDone
  <1>15. CASE \E p \in Procs : Spawn(p)
    BY <1>15 DEF Spawn
  <1>16. CASE \E p, q \in Procs : Kill(q, p)
    BY <1>16 DEF Kill, Threads, Inside
  <1> QED
    BY NextCases, <1>1, <1>2, <1>3, <1>4, <1>5, <1>6, <1>7, <1>8, <1>9, <1>10, <1>11, <1>12, Zenon,
       <1>13, <1>14, <1>15, <1>16

\* A call that returns was inside the gate.
LEMMA LeavesRelease ==
    ASSUME NEW t \in Threads, Leaves(t) \/ ReadDone(t)
    PROVE  /\ Inside(t)
           /\ t \in Procs => state[t] = "READY"
           /\ \E r \in {"idle", "ok"} : Release(t, r)
           /\ UNCHANGED <<booting, flag, cmd, irq, disk>>
           /\ Leaves(t) => UNCHANGED drive
  BY AtaConstants DEF Leaves, NoDrq, Timeout, ReadError, WriteError, WriteDone, ReadDone, At,
     Inside, device

\* Exclusion: only ata_gate_acquire lets a thread in, and only into a free gate.
LEMMA ExclusionStep ==
    ASSUME TypeInv, Exclusion, [Next]_vars
    PROVE  Exclusion'
  <1> USE AtaConstants DEF TypeInv, TypeOK, Goto
  <1>0. ASSUME UNCHANGED g_ata_busy, \A t \in Threads : Inside(t)' => Inside(t)
        PROVE  Exclusion'
    BY <1>0 DEF Exclusion
  <1>1. ASSUME UNCHANGED <<g_ata_busy, pc>> PROVE Exclusion'
    BY <1>0, <1>1 DEF Inside
  <1>2. CASE UNCHANGED vars
    BY <1>1, <1>2 DEF vars, gate, thread
  <1> SUFFICES ASSUME Next PROVE Exclusion'
    BY <1>2
  <1>3. CASE \E t \in Threads : GateAcquire(t)
    BY <1>3 DEF GateAcquire, Exclusion, Inside
  <1>4. CASE \E p \in Procs : GateBlock(p)
    BY <1>1, <1>4 DEF GateBlock, thread
  <1>5. CASE \E t \in Threads : Command(t) \/ ResetFlag(t) \/ SendData(t) \/ WriteFlush(t)
    BY <1>0, <1>5 DEF Command, ResetFlag, SendData, WriteFlush, At, Inside, gate
  <1>6. CASE \E t \in Threads : Leaves(t) \/ ReadDone(t)
    <2>1. PICK t \in Threads : Leaves(t) \/ ReadDone(t)
      BY <1>6
    <2>2. PICK r \in {"idle", "ok"} : Release(t, r)
      BY <2>1, LeavesRelease
    <2>3. Inside(t)
      BY <2>1, LeavesRelease
    <2> QED
      BY <2>2, <2>3 DEF Release, Exclusion, Inside
  <1>7. CASE \/ \E t \in Threads : WaitFired(t) \/ WaitResume(t)
             \/ \E p \in Procs : WaitBlock(p)
    BY <1>0, <1>7 DEF WaitFired, WaitBlock, WaitResume, At, Inside, gate
  <1>8. CASE Poll
    BY <1>0, <1>8 DEF Poll, At, Inside, gate, Threads
  <1>9. CASE \E t \in Threads, k \in {"read", "write"}, l \in Lbas : Call(t, k, l)
    BY <1>0, <1>9, SMTT(30) DEF Call, At, Inside, gate
  <1>10. CASE (\E ok \in BOOLEAN : DriveDone(ok)) \/ Irq \/ BootDone \/ \E p \in Procs : Spawn(p)
    BY <1>1, <1>10 DEF DriveDone, Irq, BootDone, Spawn, gate, thread
  <1>11. CASE \E p, q \in Procs : Kill(q, p)
    BY <1>0, <1>11 DEF Kill, Inside
  <1> QED
    BY NextCases, <1>3, <1>4, <1>5, <1>6, <1>7, <1>8, <1>9, <1>10, <1>11, Zenon

\* Places: what kind of command a thread is in follows its place.
LEMMA PlacesStep ==
    ASSUME TypeInv, Places, [Next]_vars
    PROVE  Places'
  <1> USE AtaConstants DEF TypeInv, TypeOK, Goto, Places
  <1>0. ASSUME UNCHANGED thread, \A p \in Procs : state'[p] = "UNUSED" => state[p] = "UNUSED"
        PROVE  Places'
    BY <1>0 DEF thread
  <1>2. CASE UNCHANGED vars
    BY <1>0, <1>2 DEF vars
  <1> SUFFICES ASSUME Next PROVE Places'
    BY <1>2
  <1>3. CASE \E t \in Threads : GateAcquire(t)
    BY <1>3, SMTT(30) DEF GateAcquire, At, Threads
  <1>4. CASE \E p \in Procs : GateBlock(p)
    BY <1>0, <1>4 DEF GateBlock
  <1>5. CASE \E t \in Threads : Command(t) \/ ResetFlag(t)
    BY <1>5 DEF Command, ResetFlag, At, Threads
  <1>6. CASE \E t \in Threads : SendData(t) \/ WriteFlush(t)
    BY <1>6, SMTT(30) DEF SendData, WriteFlush, At, Threads
  <1>7. CASE \E t \in Threads : Leaves(t) \/ ReadDone(t)
    <2>1. PICK t \in Threads : Leaves(t) \/ ReadDone(t)
      BY <1>7
    <2>2. PICK r \in {"idle", "ok"} : Release(t, r)
      BY <2>1, LeavesRelease
    <2>3. t \in Procs => state[t] = "READY"
      BY <2>1, LeavesRelease, Zenon
    <2> QED
      BY <2>2, <2>3 DEF Release, Threads
  <1>8. CASE \/ \E t \in Threads : WaitFired(t) \/ WaitResume(t)
             \/ \E p \in Procs : WaitBlock(p)
    BY <1>8, SMTT(30) DEF WaitFired, WaitBlock, WaitResume, At, Threads
  <1>9. CASE Poll
    BY <1>9 DEF Poll, At, Threads
  <1>10. CASE \E t \in Threads, k \in {"read", "write"}, l \in Lbas : Call(t, k, l)
    BY <1>10, SMTT(30) DEF Call, At, Threads
  <1>11. CASE (\E ok \in BOOLEAN : DriveDone(ok)) \/ Irq \/ BootDone \/ \E p \in Procs : Spawn(p)
    BY <1>0, <1>11 DEF DriveDone, Irq, BootDone, Spawn
  <1>12. CASE \E p, q \in Procs : Kill(q, p)
    BY <1>12 DEF Kill, Threads
  <1> QED
    BY NextCases, <1>3, <1>4, <1>5, <1>6, <1>7, <1>8, <1>9, <1>10, <1>11, <1>12, Zenon

\* A thread with a command, or in the data or flush part of a write, is inside.
LEMMA SentInside ==
    ASSUME TypeInv, Places, NEW t \in Threads
    PROVE  /\ Sent(t) => Inside(t) /\ kind[t] # "none"
           /\ kind[t] \in {"data", "flush"} => Sent(t)
  BY ZenonT(60) DEF TypeInv, TypeOK, Places, Sent, Inside

\* CommandInv: a command is sent from inside the gate, so no other thread's is lost.
LEMMA CommandStep ==
    ASSUME TypeInv, Exclusion, Places, CommandInv, [Next]_vars
    PROVE  CommandInv'
  <1> USE DEF TypeInv, TypeOK, Goto
  <1>0. ASSUME UNCHANGED cmd,
               \A t \in Threads : Sent(t)' => /\ Sent(t)
                                              /\ kind'[t] = kind[t] /\ lba'[t] = lba[t]
        PROVE  CommandInv'
    BY <1>0 DEF CommandInv
  <1>1. ASSUME UNCHANGED <<cmd, thread>> PROVE CommandInv'
    BY <1>0, <1>1 DEF thread, Sent
  <1>2. CASE UNCHANGED vars
    BY <1>1, <1>2 DEF vars, device
  <1>3. ASSUME NEW t \in Threads, Inside(t), Inside(t)', NEW k, Send(t, k), kind'[t] = k,
               lba' = lba, \A u \in Threads : u # t => pc'[u] = pc[u]
        PROVE  CommandInv'
    BY <1>3 DEF CommandInv, Exclusion, Sent, Inside, Send
  <1> SUFFICES ASSUME Next PROVE CommandInv'
    BY <1>2
  <1>4. CASE (\E t \in Threads : GateAcquire(t)) \/ \E p \in Procs : GateBlock(p)
    BY <1>0, <1>4 DEF GateAcquire, GateBlock, thread, device, Sent
  <1>5. CASE \E t \in Threads : Command(t)
    BY <1>3, <1>5 DEF Command, At, Inside
  <1>6. CASE \E t \in Threads : SendData(t)
    BY <1>3, <1>6 DEF SendData, At, Inside
  <1>7. CASE \E t \in Threads : WriteFlush(t)
    BY <1>3, <1>7 DEF WriteFlush, At, Inside
  <1>8. CASE \E t \in Threads : ResetFlag(t)
    BY <1>0, <1>8 DEF ResetFlag, At, Sent, device
  <1>9. CASE \E t \in Threads : Leaves(t) \/ ReadDone(t)
    <2>1. PICK t \in Threads : Leaves(t) \/ ReadDone(t)
      BY <1>9
    <2>2. PICK r \in {"idle", "ok"} : Release(t, r)
      BY <2>1, LeavesRelease
    <2>3. UNCHANGED cmd
      BY <2>1, LeavesRelease
    <2> QED
      BY <1>0, <2>2, <2>3 DEF Release, Sent
  <1>10. CASE \/ \E t \in Threads : WaitFired(t) \/ WaitResume(t)
              \/ \E p \in Procs : WaitBlock(p)
    BY <1>0, <1>10 DEF WaitFired, WaitBlock, WaitResume, At, Sent, device
  <1>11. CASE Poll
    BY <1>0, <1>11 DEF Poll, At, Sent, device, Threads
  <1>12. CASE \E t \in Threads, k \in {"read", "write"}, l \in Lbas : Call(t, k, l)
    BY <1>0, <1>12 DEF Call, Sent, device
  <1>13. CASE (\E ok \in BOOLEAN : DriveDone(ok)) \/ Irq \/ BootDone \/ \E p \in Procs : Spawn(p)
    BY <1>1, <1>13 DEF DriveDone, Irq, BootDone, Spawn, device
  <1>14. CASE \E p, q \in Procs : Kill(q, p)
    BY <1>0, <1>14 DEF Kill, Sent, device
  <1> QED
    BY NextCases, <1>4, <1>5, <1>6, <1>7, <1>8, <1>9, <1>10, <1>11, <1>12, <1>13, <1>14, Zenon

\* FlagInv: the flag is reset with the command under way, so what raises it
\* again is that command's end.
LEMMA FlagStep ==
    ASSUME TypeInv, Exclusion, Places, CommandInv, FlagInv, [Next]_vars
    PROVE  FlagInv'
  <1> USE DEF TypeInv, TypeOK, Goto
  <1>1. CASE UNCHANGED vars
    BY <1>1 DEF vars, thread, flag, device, FlagInv
  <1>2. ASSUME NEW t \in Threads, Inside(t), ~irq', \A u \in Threads : u # t => pc'[u] = pc[u],
               pc'[t] \in {"drq", "wait"} => ~g_irq_fired',
               t \in Procs /\ pc'[t] = "woken" => state'[t] # "READY",
               pc'[t] = "check" => drive' # "busy"
        PROVE  FlagInv'
    <2>1. \A u \in Threads : u # t => pc'[u] \in {"idle", "ok", "gate"}
      BY <1>2 DEF Exclusion, Inside
    <2>2. Procs \subseteq Threads
      BY DEF Threads
    <2> QED
      BY <1>2, <2>1, <2>2 DEF FlagInv
  <1> SUFFICES ASSUME Next PROVE FlagInv'
    BY <1>1
  <1>3. CASE (\E t \in Threads : GateAcquire(t)) \/ \E p \in Procs : GateBlock(p)
    BY <1>3 DEF GateAcquire, GateBlock, thread, flag, device, FlagInv, Threads
  <1>4. CASE \E t \in Threads : Command(t)
    BY <1>2, <1>4 DEF Command, At, Send, Inside
  <1>5. CASE \E t \in Threads : ResetFlag(t)
    <2>1. PICK t \in Threads : ResetFlag(t)
      BY <1>5
    <2>2. pc'[t] \in {"drq", "wait"} /\ ~g_irq_fired' /\ Inside(t) /\ ~irq'
      BY <2>1 DEF ResetFlag, At, Inside, device
    <2>3. \A u \in Threads : u # t => pc'[u] = pc[u]
      BY <2>1 DEF ResetFlag
    <2>4. pc'[t] # "woken" /\ pc'[t] # "check"
      BY <2>2
    <2> QED
      BY <1>2, <2>2, <2>3, <2>4
  <1>6. CASE \E t \in Threads : SendData(t) \/ WriteFlush(t)
    BY <1>2, <1>6 DEF SendData, WriteFlush, At, Send, Inside, flag, FlagInv
  <1>7. CASE \E t \in Threads : Leaves(t) \/ ReadDone(t)
    <2>1. PICK t \in Threads : Leaves(t) \/ ReadDone(t)
      BY <1>7
    <2>2. PICK r \in {"idle", "ok"} : Release(t, r)
      BY <2>1, LeavesRelease, ZenonT(60)
    <2>3. Inside(t) /\ ~irq'
      BY <2>1, LeavesRelease DEF Leaves, NoDrq, Timeout, ReadError, WriteError, WriteDone, ReadDone, At
    <2> QED
      BY <1>2, <2>2, <2>3, Zenon DEF Release
  <1>8. CASE \E t \in Threads : WaitFired(t) \/ WaitResume(t)
    <2>1. PICK t \in Threads : WaitFired(t) \/ WaitResume(t)
      BY <1>8, Zenon
    <2>2. drive # "busy"
      BY <2>1 DEF WaitFired, WaitResume, At, FlagInv, Places, Threads
    <2>3. pc' = [pc EXCEPT ![t] = "check"] /\ Inside(t) /\ UNCHANGED drive /\ ~irq'
      BY <2>1 DEF WaitFired, WaitResume, At, Inside, device
    <2> QED
      BY <1>2, <2>2, <2>3
  <1>9. CASE \E p \in Procs : WaitBlock(p)
    BY <1>2, <1>9 DEF WaitBlock, At, Inside, device, Threads
  <1>10. CASE Poll
    BY <1>2, <1>10, Zenon DEF Poll, At, Inside, device, Threads
  <1>11. CASE \E t \in Threads, k \in {"read", "write"}, l \in Lbas : Call(t, k, l)
    BY <1>11 DEF Call, flag, device, FlagInv
  <1>12. CASE \E ok \in BOOLEAN : DriveDone(ok)
    <2>1. PICK ok \in BOOLEAN : DriveDone(ok)
      BY <1>12
    <2>2. ASSUME NEW t \in Threads, pc[t] = "drq" PROVE cmd.kind = "write"
      BY <2>2 DEF CommandInv, Sent, Places
    <2> QED
      BY <2>1, <2>2 DEF DriveDone, FlagInv, thread, flag
  <1>13. CASE Irq
    BY <1>13, Zenon DEF Irq, FlagInv, thread
  <1>14. CASE BootDone \/ \E p \in Procs : Spawn(p)
    BY <1>14, SMTT(30) DEF BootDone, Spawn, FlagInv, Places, thread, flag, device
  <1>15. CASE \E p, q \in Procs : Kill(q, p)
    BY <1>15 DEF Kill, FlagInv, flag, device, Threads
  <1> QED
    BY NextCases, <1>3, <1>4, <1>5, <1>6, <1>7, <1>8, <1>9, <1>10, <1>11, <1>12,
       <1>13, <1>14, <1>15, Zenon

\* DataInv: a data command that ends well wrote its sector, and no other thread
\* writes it before the call returns.
LEMMA DataStep ==
    ASSUME TypeInv, Exclusion, Places, CommandInv, FlagInv, DataInv, [Next]_vars
    PROVE  DataInv'
  <1> USE DEF TypeInv, TypeOK, Goto
  <1>0. ASSUME UNCHANGED disk, UNCHANGED drive \/ drive' = "busy",
               \A t \in Threads : kind'[t] \in {"data", "flush"} =>
                                     kind'[t] = kind[t] /\ lba'[t] = lba[t]
        PROVE  DataInv'
    BY <1>0 DEF DataInv
  <1>1. ASSUME UNCHANGED <<thread, disk>>, UNCHANGED drive PROVE DataInv'
    BY <1>0, <1>1 DEF thread
  <1>2. CASE UNCHANGED vars
    BY <1>1, <1>2 DEF vars, device
  <1>3. ASSUME NEW t \in Threads, Inside(t), NEW u \in Threads, u # t
        PROVE  kind[u] \notin {"data", "flush"}
    BY <1>3, SentInside DEF Exclusion
  <1> SUFFICES ASSUME Next PROVE DataInv'
    BY <1>2, ZenonT(60)
  <1>4. CASE \/ \E t \in Threads : GateAcquire(t) \/ ResetFlag(t) \/ WaitFired(t) \/ WaitResume(t)
             \/ \E p \in Procs : GateBlock(p) \/ WaitBlock(p)
             \/ Poll
    BY <1>0, <1>4 DEF GateAcquire, ResetFlag, WaitFired, WaitResume, GateBlock, WaitBlock, Poll,
                      thread, device
  <1>5. CASE \E t \in Threads : Command(t)
    BY <1>0, <1>5 DEF Command, Send
  <1>6. CASE \E t \in Threads : SendData(t)
    <2>1. PICK t \in Threads : SendData(t)
      BY <1>6
    <2>2. Inside(t)
      BY <2>1, Zenon DEF SendData, At, Inside
    <2> QED
      BY <1>3, <2>1, <2>2 DEF SendData, Send, DataInv
  <1>7. CASE \E t \in Threads : WriteFlush(t)
    <2>1. PICK t \in Threads : WriteFlush(t)
      BY <1>7
    <2>2. Inside(t) /\ disk[lba[t]] = t
      BY <2>1 DEF WriteFlush, At, Inside, FlagInv, DataInv
    <2> QED
      BY <1>3, <2>1, <2>2 DEF WriteFlush, Send, DataInv
  <1>8. CASE \E t \in Threads : Leaves(t) \/ ReadDone(t)
    <2>1. PICK t \in Threads : Leaves(t) \/ ReadDone(t)
      BY <1>8
    <2>2. PICK r \in {"idle", "ok"} : Release(t, r)
      BY <2>1, LeavesRelease
    <2>3. Inside(t) /\ UNCHANGED disk
      BY <2>1, LeavesRelease
    <2> QED
      BY <1>3, <2>2, <2>3 DEF Release, DataInv
  <1>9. CASE \E t \in Threads, k \in {"read", "write"}, l \in Lbas : Call(t, k, l)
    BY <1>0, <1>9 DEF Call, device
  <1>10. CASE \E ok \in BOOLEAN : DriveDone(ok)
    <2>1. PICK ok \in BOOLEAN : DriveDone(ok)
      BY <1>10, ZenonT(60)
    <2>2. ASSUME NEW t \in Threads, kind[t] \in {"data", "flush"}
          PROVE  cmd = [kind |-> kind[t], lba |-> lba[t], by |-> t] /\ lba[t] \in Lbas
      BY <2>2, SentInside DEF CommandInv, Places
    <2> QED
      BY <2>1, <2>2 DEF DriveDone, DataInv, thread
  <1>11. CASE Irq \/ BootDone \/ \E p \in Procs : Spawn(p)
    BY <1>1, <1>11 DEF Irq, BootDone, Spawn, device
  <1>12. CASE \E p, q \in Procs : Kill(q, p)
    BY <1>0, <1>12 DEF Kill, device
  <1> QED
    BY NextCases, <1>4, <1>5, <1>6, <1>7, <1>8, <1>9, <1>10, <1>11, <1>12, Zenon

\* The places of an array of waiters, and of it with one more.
LEMMA RangeAppend ==
    ASSUME NEW S, NEW s \in Seq(S), NEW e \in S
    PROVE  Range(Append(s, e)) = Range(s) \cup {e}
  <1>1. ASSUME NEW x \in Range(s) PROVE x \in Range(Append(s, e))
    BY <1>1 DEF Range
  <1>2. e \in Range(Append(s, e))
    <2>1. Len(s) + 1 \in DOMAIN Append(s, e) /\ Append(s, e)[Len(s) + 1] = e
      OBVIOUS
    <2> QED
      BY <2>1 DEF Range
  <1>3. ASSUME NEW x \in Range(Append(s, e)), x # e PROVE x \in Range(s)
    BY <1>3 DEF Range
  <1> QED
    BY <1>1, <1>2, <1>3

\* GateWakeup: the release wakes everyone in the array and empties it.
LEMMA GateStep ==
    ASSUME TypeInv, Exclusion, Places, GateWakeup, [Next]_vars
    PROVE  GateWakeup'
  <1> USE AtaConstants DEF TypeInv, TypeOK, Goto
  <1> DEFINE Blocked(p) == state[p] = "BLOCKED" /\ pc[p] = "gate"
  <1>0. ASSUME UNCHANGED <<g_ata_busy, g_gate_waiters, left_out>>,
               \A p \in Procs : Blocked(p)' => Blocked(p)
        PROVE  GateWakeup'
    BY <1>0 DEF GateWakeup
  <1>1. ASSUME UNCHANGED <<gate, pc, state>> PROVE GateWakeup'
    BY <1>0, <1>1 DEF gate
  <1>2. CASE UNCHANGED vars
    BY <1>1, <1>2 DEF vars, thread
  <1>3. Procs \subseteq Threads
    BY DEF Threads
  <1> SUFFICES ASSUME Next PROVE GateWakeup'
    BY <1>2
  <1>4. CASE \E t \in Threads : GateAcquire(t)
    BY <1>3, <1>4 DEF GateAcquire, GateWakeup
  <1>5. CASE \E p \in Procs : GateBlock(p)
    <2>1. PICK p \in Procs : GateBlock(p)
      BY <1>5
    <2> DEFINE W == Range(g_gate_waiters)
    <2>2. Range(g_gate_waiters)' = W \/ Range(g_gate_waiters)' = W \cup {p}
      BY <2>1, RangeAppend DEF GateBlock
    <2> HIDE DEF W
    <2>3. ASSUME NEW q \in Procs, q # p, Blocked(q)'
          PROVE  \/ g_ata_busy' /\ q \in Range(g_gate_waiters)'
                 \/ q \in left_out' /\ q \notin Range(g_gate_waiters)'
      BY <2>1, <2>2, <2>3 DEF GateBlock, GateWakeup, W, thread
    <2>4. \/ g_ata_busy' /\ p \in Range(g_gate_waiters)'
          \/ p \in left_out' /\ p \notin Range(g_gate_waiters)'
      BY <2>1 DEF GateBlock
    <2> QED
      BY <2>3, <2>4 DEF GateWakeup
  <1>6. CASE \E t \in Threads : Command(t) \/ ResetFlag(t) \/ SendData(t) \/ WriteFlush(t)
    <2> PICK t \in Threads : Command(t) \/ ResetFlag(t) \/ SendData(t) \/ WriteFlush(t)
      BY <1>6
    <2>1. CASE Command(t)
      BY <1>0, <1>3, <2>1, SMTT(30) DEF Command, gate
    <2>2. CASE ResetFlag(t)
      BY <1>0, <1>3, <2>2, SMTT(30) DEF ResetFlag, gate
    <2>3. CASE SendData(t)
      BY <1>0, <1>3, <2>3, SMTT(30) DEF SendData, gate
    <2>4. CASE WriteFlush(t)
      BY <1>0, <1>3, <2>4, SMTT(30) DEF WriteFlush, gate
    <2> QED BY <2>1, <2>2, <2>3, <2>4
  <1>7. CASE \E t \in Threads : Leaves(t) \/ ReadDone(t)
    <2>1. PICK t \in Threads : Leaves(t) \/ ReadDone(t)
      BY <1>7
    <2>2. PICK r \in {"idle", "ok"} : Release(t, r)
      BY <2>1, LeavesRelease, ZenonT(60)
    <2>3. Range(g_gate_waiters)' = {}
      BY <2>2 DEF Release, Range
    <2>4. ASSUME NEW p \in Procs, Blocked(p)' PROVE p \in left_out'
      BY <1>3, <2>2, <2>4, Zenon DEF Release, GateWakeup
    <2> QED
      BY <2>3, <2>4 DEF GateWakeup
  <1>8. CASE \/ \E t \in Threads : WaitFired(t) \/ WaitResume(t)
             \/ \E p \in Procs : WaitBlock(p)
             \/ Poll
    BY <1>0, <1>3, <1>8 DEF WaitFired, WaitBlock, WaitResume, Poll, gate
  <1>9. CASE \E t \in Threads, k \in {"read", "write"}, l \in Lbas : Call(t, k, l)
    BY <1>0, <1>3, <1>9 DEF Call, At, gate
  <1>10. CASE \E ok \in BOOLEAN : DriveDone(ok)
    BY <1>1, <1>10 DEF DriveDone, thread
  <1>11. CASE Irq \/ BootDone \/ \E p \in Procs : Spawn(p)
    BY <1>0, <1>3, <1>11 DEF Irq, BootDone, Spawn, gate, thread
  <1>12. CASE \E p, q \in Procs : Kill(q, p)
    <2>1. PICK p \in Procs, q \in Procs : Kill(q, p)
      BY <1>12
    <2>2. ASSUME NEW u \in Procs, Blocked(u)' PROVE u # p /\ Blocked(u)
      BY <1>3, <2>1, <2>2 DEF Kill
    <2> QED
      BY <2>1, <2>2 DEF Kill, GateWakeup
  <1> QED
    BY NextCases, <1>4, <1>5, <1>6, <1>7, <1>8, <1>9, <1>10, <1>11, <1>12, Zenon

-----------------------------------------------------------------------------
(* The theorems.                                                           *)

\* Every reachable state satisfies AtaInv, whatever processes call, the drive
\* answers and kills hit.
THEOREM AtaInvariant == Spec => []AtaInv
  <1>1. AtaInv /\ [Next]_vars => AtaInv'
    BY TypeStep, ExclusionStep, PlacesStep, CommandStep, FlagStep, DataStep, GateStep DEF AtaInv
  <1> QED
    BY InitInv, <1>1, PTL DEF Spec

\* ata_wait_irq returns only when the drive has ended the caller's own command:
\* the flag reset after each command leaves no earlier completion in it.
THEOREM CompletionsOwn == Spec => []NoStaleCompletion
  <1>1. AtaInv => NoStaleCompletion
    BY DEF AtaInv, CommandInv, FlagInv, Sent, NoStaleCompletion
  <1> QED
    BY <1>1, AtaInvariant, PTL

\* Whoever blocks in ata_gate_acquire with a place in g_gate_waiters is woken by
\* the release; nobody stays registered with a free gate.
THEOREM WaitersWoken == Spec => []GateWakeup
  <1>1. AtaInv => GateWakeup
    BY DEF AtaInv
  <1> QED
    BY <1>1, AtaInvariant, PTL

\* A step that ends a call with 0 is one of the three that do.
LEMMA ReturnsOk ==
    ASSUME TypeInv, Places, Next, NEW t \in Threads, kind[t] # "none", pc'[t] = "ok"
    PROVE  /\ Sent(t)
           /\ kind[t] \in {"read", "flush"}
  <1> USE AtaConstants DEF TypeInv, TypeOK, Goto
  <1>0. pc[t] # "ok"
    BY Zenon DEF Places
  <1>1. CASE \E u \in Threads : Leaves(u) \/ ReadDone(u)
    <2>1. PICK u \in Threads : Leaves(u) \/ ReadDone(u)
      BY <1>1
    <2>2. u = t
      <3>1. PICK r \in {"idle", "ok"} : Release(u, r)
        BY <2>1, LeavesRelease
      <3> QED
        BY <1>0, <3>1, Zenon DEF Release
    <2> QED
      BY <1>0, <2>1, <2>2, ZenonT(30) DEF Leaves, NoDrq, Timeout, ReadError, WriteError, WriteDone, ReadDone,
                              Release, At, Sent, Places
  <1>2. CASE \E u \in Threads : GateAcquire(u) \/ Command(u) \/ ResetFlag(u) \/ SendData(u)
    BY <1>0, <1>2 DEF GateAcquire, Command, ResetFlag, SendData
  <1>3. CASE \E u \in Threads : WriteFlush(u) \/ WaitFired(u) \/ WaitResume(u)
    BY <1>0, <1>3 DEF WriteFlush, WaitFired, WaitResume
  <1>4. CASE (\E p \in Procs : GateBlock(p) \/ WaitBlock(p)) \/ Poll
    BY <1>0, <1>4 DEF GateBlock, WaitBlock, Poll, thread
  <1>5. CASE \E u \in Threads, k \in {"read", "write"}, l \in Lbas : Call(u, k, l)
    BY <1>0, <1>5, ZenonT(30) DEF Call
  <1>6. CASE (\E ok \in BOOLEAN : DriveDone(ok)) \/ Irq \/ BootDone \/ \E p \in Procs : Spawn(p)
    BY <1>0, <1>6 DEF DriveDone, Irq, BootDone, Spawn, thread
  <1>7. CASE \E p, q \in Procs : Kill(q, p)
    BY <1>0, <1>7 DEF Kill
  <1> QED
    BY NextCases, <1>1, <1>2, <1>3, <1>4, <1>5, <1>6, <1>7, Zenon

\* ata_read_sector returns 0 only when the drive's last command is the caller's
\* READ of the sector it asked for.
THEOREM ReadsOwnSector == Spec => ReadReturnsSector
  <1>1. ASSUME AtaInv, [Next]_vars, NEW t \in Threads, kind[t] = "read", pc'[t] = "ok"
        PROVE  cmd.kind = "read" /\ cmd.by = t /\ cmd.lba = lba[t]
    <2>1. CASE Next
      <3>1. TypeInv /\ Places /\ CommandInv /\ kind[t] # "none"
        BY <1>1 DEF AtaInv
      <3>2. Sent(t)
        BY <1>1, <2>1, <3>1, ReturnsOk
      <3>3. cmd = [kind |-> kind[t], lba |-> lba[t], by |-> t]
        BY <3>1, <3>2, Zenon DEF CommandInv
      <3>4. kind[t] = "read"
        BY <1>1, Zenon
      <3> QED
        BY <3>3, <3>4, Zenon
    <2>2. CASE UNCHANGED vars
      BY <1>1, <2>2, ZenonT(60) DEF AtaInv, Places, vars, thread
    <2> QED
      BY <1>1, <2>1, <2>2, Zenon
  <1>2. AtaInv /\ [Next]_vars =>
            [\A t \in Threads : kind[t] = "read" /\ pc'[t] = "ok" =>
                cmd.kind = "read" /\ cmd.by = t /\ cmd.lba = lba[t]]_vars
    BY <1>1
  <1> QED
    BY <1>2, AtaInvariant, PTL DEF Spec, ReadReturnsSector

\* ata_write_sector returns 0 only when its data is on the disk, whatever became
\* of the flush.
THEOREM WritesLand == Spec => WriteLands
  <1>1. ASSUME AtaInv, NEW t \in Threads, kind[t] = "flush"
        PROVE  disk[lba[t]] = t
    BY <1>1, Zenon DEF AtaInv, DataInv
  <1>2. AtaInv /\ [Next]_vars =>
            [\A t \in Threads : kind[t] = "flush" /\ pc'[t] = "ok" => disk[lba[t]] = t]_vars
    BY <1>1
  <1> QED
    BY <1>2, AtaInvariant, PTL DEF Spec, WriteLands
=============================================================================
