--------------------------- MODULE FdTableProofs ---------------------------
(***************************************************************************)
(* Proofs about FdTable, for every number of processes, descriptors and    *)
(* pipes, when no tick splits sys_fork's row copy, pipe_create or the      *)
(* seeding of sys_exec_pipe (Serialised).  With the first of those windows *)
(* open HeldEndIsOpen is false, as the run fork_dup shows.                 *)
(*                                                                         *)
(* None of the three properties is inductive.  While sys_fork copies a row *)
(* there is an entry that is not counted yet, so the invariant counts the  *)
(* entries without it; and after a sys_kill a count may stay above the     *)
(* entries for ever, because a fork overwrites the row the killed process  *)
(* left behind, so what remains true is an inequality.                     *)
(***************************************************************************)
EXTENDS FdTable, FiniteSetTheorems, TLAPS

Serialised == Windows = {}

\* Only one process is inside a call, and it can run.
OneInCall ==
    \A s \in Slots :
        pc[s] # "user" =>
            /\ state[s] = "READY"
            /\ \A t \in Slots \ {s} : pc[t] = "user"

\* What s has in hand while it is in a call: a pipe nobody uses, or another
\* slot whose row is free from where s works on, until a sys_kill.
CallOf(s) ==
    /\ pc[s] = "user" => idx[s] = 0
    /\ pc[s] = "pipe" => ~used[obj[s]] /\ idx[s] = 0
    /\ pc[s] = "seed" =>
          /\ obj[s] # s /\ state[obj[s]] = "BLOCKED" /\ idx[s] \in 1 .. 3
          /\ ~killed => \A j \in Fds : j >= idx[s] - 1 => row[obj[s]][j] = Free
    /\ pc[s] \in {"fork_copy", "fork_dup"} =>
          /\ obj[s] # s /\ state[obj[s]] = "READY" /\ idx[s] \in Fds
          /\ ~killed => \A j \in Fds : j > idx[s] => row[obj[s]][j] = Free
    /\ pc[s] = "fork_copy" /\ ~killed => row[obj[s]][idx[s]] = Free
    /\ pc[s] = "fork_dup" => row[obj[s]][idx[s]] = row[s][idx[s]]

CallState == \A s \in Slots : CallOf(s)

\* The entry sys_fork has copied and not handed to vfs_dup yet.
Uncounted(p) == \E t \in Slots : pc[t] = "fork_dup" /\ p = <<obj[t], idx[t]>>

\* The entries that name end e of pipe i, without that one.
Counted(e, i) ==
    {p \in Slots \X Fds : row[p[1]][p[2]] = PipeEnd(e, i) /\ ~Uncounted(p)}

\* The count covers the entries, exactly so until a sys_kill.
Covers(e, i) ==
    /\ Cardinality(Counted(e, i)) <= refs[i][e]
    /\ ~killed => Cardinality(Counted(e, i)) = refs[i][e]

CountsCover == \A i \in Pipes, e \in Ends : Covers(e, i)

\* pipe_create and the two releases: a free pipe has no end.
FreePipeIsClosed == \A i \in Pipes, e \in Ends : ~used[i] => refs[i][e] = 0

\* The inductive invariant.
FdInv == TypeOK /\ OneInCall /\ CallState /\ FreeSlotIsClosed /\ CountsCover /\ FreePipeIsClosed

-----------------------------------------------------------------------------
\* Descriptors and their ends.
LEMMA DescriptorFacts ==
    /\ Free \in Descriptors /\ File \in Descriptors
    /\ \A e \in Ends, i \in Pipes :
          /\ PipeEnd(e, i) \in Descriptors
          /\ PipeEnd(e, i) # Free /\ PipeEnd(e, i) # File
          /\ PipeEnd(e, i).end = e /\ PipeEnd(e, i).pipe = i
    /\ \A d \in Descriptors :
          d.end \in Ends => d.pipe \in Pipes /\ d = PipeEnd(d.end, d.pipe)
    /\ Free.end \notin Ends /\ File.end \notin Ends
    /\ None \notin Slots /\ None \notin Fds /\ None \notin Pipes
    /\ 0 \in Fds /\ 1 \in Fds
<1>1. Free \in Descriptors /\ File \in Descriptors
  BY DEF Descriptors
<1>2. \A e \in Ends, i \in Pipes :
          /\ PipeEnd(e, i) \in Descriptors
          /\ PipeEnd(e, i) # Free /\ PipeEnd(e, i) # File
          /\ PipeEnd(e, i).end = e /\ PipeEnd(e, i).pipe = i
  BY DEF Descriptors, PipeEnd, Free, File, Ends
<1>3. Free.end \notin Ends /\ File.end \notin Ends
  BY DEF Free, File, Ends
<1>4. ASSUME NEW d \in Descriptors, d.end \in Ends
      PROVE  d.pipe \in Pipes /\ d = PipeEnd(d.end, d.pipe)
  <2>1. PICK e \in Ends, i \in Pipes : d = PipeEnd(e, i)
    BY <1>3, <1>4 DEF Descriptors
  <2>. QED BY <1>2, <2>1
<1>5. None \notin Slots /\ None \notin Fds /\ None \notin Pipes /\ 0 \in Fds /\ 1 \in Fds
  BY FdConstants DEF None, Slots, Fds, Pipes
<1>. QED BY <1>1, <1>2, <1>3, <1>4, <1>5

\* The sets of entries are finite.
LEMMA CountedFinite ==
    ASSUME NEW e, NEW i
    PROVE  IsFiniteSet(Counted(e, i)) /\ Cardinality(Counted(e, i)) \in Nat
<1>1. IsFiniteSet(Slots) /\ IsFiniteSet(Fds)
  BY FdConstants, FS_Interval DEF Slots, Fds
<1>2. IsFiniteSet(Slots \X Fds)
  BY <1>1, FS_Product
<1>3. Counted(e, i) \in SUBSET (Slots \X Fds)
  BY DEF Counted
<1>4. IsFiniteSet(Counted(e, i))
  BY <1>2, <1>3, FS_Subset
<1>. QED BY <1>4, FS_CardinalityType

\* So is every set of descriptors.
LEMMA FdsFinite ==
    ASSUME NEW D \in SUBSET Fds
    PROVE  IsFiniteSet(D) /\ Cardinality(D) \in Nat
<1>1. IsFiniteSet(Fds)
  BY FdConstants, FS_Interval DEF Fds
<1>. QED BY <1>1, FS_Subset, FS_CardinalityType

\* Nothing is open when the shell starts.
LEMMA FdInit == Init => FdInv
<1>. SUFFICES ASSUME Init PROVE FdInv
  OBVIOUS
<1>1. TypeOK
  <2>1. row \in [Slots -> [Fds -> Descriptors]]
    BY DescriptorFacts DEF Init
  <2>2. src \in [Slots -> (Fds \cup {None}) \X (Fds \cup {None})]
    BY DEF Init
  <2>3. idx \in [Slots -> 0 .. FD_PER_PROC + 2]
    BY FdConstants DEF Init
  <2>4. obj \in [Slots -> Slots \cup Pipes \cup {None}]
    BY DEF Init
  <2>. QED BY <2>1, <2>2, <2>3, <2>4, Zenon DEF Init, TypeOK
<1>2. OneInCall /\ CallState /\ FreeSlotIsClosed /\ FreePipeIsClosed
  BY DEF Init, OneInCall, CallState, CallOf, FreeSlotIsClosed, FreePipeIsClosed
<1>3. ASSUME NEW i \in Pipes, NEW e \in Ends PROVE Counted(e, i) = {}
  BY DescriptorFacts DEF Init, Counted
<1>4. CountsCover
  <2>1. Cardinality({}) = 0
    BY FS_EmptySet, Zenon
  <2>2. \A i \in Pipes, e \in Ends : Cardinality(Counted(e, i)) = 0 /\ refs[i][e] = 0
    BY <1>3, <2>1, Zenon DEF Init
  <2>. QED BY <2>2 DEF CountsCover, Covers
<1>. QED BY <1>1, <1>2, <1>4 DEF FdInv

\* A step of process s.
StepOf(s) ==
    \/ PipeScan(s) \/ PipeFill(s) \/ PipeFail(s) \/ Open(s)
    \/ \E j \in Fds : Close(s, j)
    \/ Exec(s) \/ Seed(s) \/ SeedFail(s) \/ SeedDone(s)
    \/ \E a, b \in Fds \cup {None} : ExecPipe(s, a, b)
    \/ Fork(s) \/ ForkCopy(s) \/ ForkDup(s)
    \/ Exit(s) \/ \E v \in Slots : Kill(s, v)

\* Nobody else is inside a call when s takes a step.
LEMMA StepAlone ==
    ASSUME Serialised, TypeOK, NEW s \in Slots, StepOf(s)
    PROVE  state[s] = "READY" /\ \A t \in Slots \ {s} : pc[t] = "user"
<1>1. \E where : At(s, where)
  BY Zenon DEF StepOf, PipeScan, PipeFill, PipeFail, Open, Close, Exec, Seed, SeedFail, SeedDone,
         ExecPipe, Fork, ForkCopy, ForkDup, Exit, Kill
<1>. QED BY <1>1 DEF At, Serialised, TypeOK

\* vfs_close keeps the types.
LEMMA CloseTypes ==
    ASSUME TypeOK, NEW s \in Slots, NEW D \in SUBSET Fds, CloseAll(s, D)
    PROVE  /\ row' \in [Slots -> [Fds -> Descriptors]]
           /\ used' \in [Pipes -> BOOLEAN]
           /\ refs' \in [Pipes -> [Ends -> Nat]]
<1>1. row' \in [Slots -> [Fds -> Descriptors]]
  BY DescriptorFacts DEF CloseAll, TypeOK
<1>2. used' \in [Pipes -> BOOLEAN]
  BY DEF CloseAll, TypeOK
<1>3. ASSUME NEW i \in Pipes, NEW e \in Ends
      PROVE  Cardinality({j \in D : row[s][j] = PipeEnd(e, i)}) \in Nat
  <2>1. {j \in D : row[s][j] = PipeEnd(e, i)} \in SUBSET Fds
    OBVIOUS
  <2>. QED BY <2>1, FdsFinite
<1>4. refs' \in [Pipes -> [Ends -> Nat]]
  <2>. DEFINE n(i, e) == Cardinality({j \in D : row[s][j] = PipeEnd(e, i)})
  <2>1. \A i \in Pipes, e \in Ends : n(i, e) \in Nat
    BY <1>3
  <2>2. refs' = [i \in Pipes |-> [e \in Ends |->
                    IF refs[i][e] - n(i, e) > 0 THEN refs[i][e] - n(i, e) ELSE 0]]
    BY DEF CloseAll, Released
  <2>. HIDE DEF n
  <2>. QED BY <2>1, <2>2 DEF TypeOK
<1>. QED BY <1>1, <1>2, <1>4


\* The types of a call's local state, one case per system call step.
LEMMA LocalTypeStep ==
    ASSUME FdInv, NEW s \in Slots, StepOf(s)
    PROVE  /\ pc' \in [Slots -> {"user", "pipe", "seed", "fork_copy", "fork_dup"}]
           /\ obj' \in [Slots -> Slots \cup Pipes \cup {None}]
           /\ \A t \in Slots :
                 /\ pc'[t] = "user" => obj'[t] = None
                 /\ pc'[t] = "pipe" => obj'[t] \in Pipes
                 /\ pc'[t] \in {"seed", "fork_copy", "fork_dup"} => obj'[t] \in Slots
           /\ idx' \in [Slots -> 0 .. FD_PER_PROC + 2]
           /\ src' \in [Slots -> (Fds \cup {None}) \X (Fds \cup {None})]
<1>. DEFINE Srcs == (Fds \cup {None}) \X (Fds \cup {None})
            Idxs == 0 .. FD_PER_PROC + 2
            Local == /\ pc' \in [Slots -> {"user", "pipe", "seed", "fork_copy", "fork_dup"}]
                     /\ obj' \in [Slots -> Slots \cup Pipes \cup {None}]
                     /\ \A t \in Slots :
                           /\ pc'[t] = "user" => obj'[t] = None
                           /\ pc'[t] = "pipe" => obj'[t] \in Pipes
                           /\ pc'[t] \in {"seed", "fork_copy", "fork_dup"} => obj'[t] \in Slots
                     /\ idx' \in [Slots -> Idxs]
                     /\ src' \in [Slots -> Srcs]
<1>. SUFFICES Local
  OBVIOUS
<1>0. /\ pc \in [Slots -> {"user", "pipe", "seed", "fork_copy", "fork_dup"}]
      /\ obj \in [Slots -> Slots \cup Pipes \cup {None}]
      /\ \A t \in Slots :
            /\ pc[t] = "user" => obj[t] = None
            /\ pc[t] = "pipe" => obj[t] \in Pipes
            /\ pc[t] \in {"seed", "fork_copy", "fork_dup"} => obj[t] \in Slots
      /\ idx \in [Slots -> Idxs]
      /\ src \in [Slots -> Srcs]
  BY DEF FdInv, TypeOK
<1>1. /\ <<None, None>> \in Srcs /\ 0 \in Idxs /\ 1 \in Idxs
      /\ \A a, b \in Fds \cup {None} : <<a, b>> \in Srcs
      /\ pc[s] = "seed" /\ idx[s] <= 2 => idx[s] + 1 \in Idxs
      /\ pc[s] = "fork_dup" => idx[s] + 1 \in Idxs
  BY FdConstants DEF FdInv, CallState, CallOf, Fds
<1>. HIDE DEF Srcs, Idxs
<1>2. Return(s) => Local
  BY <1>0, <1>1 DEF Return
<1>3. UNCHANGED locals => Local
  BY <1>0 DEF locals
<1>4. CASE PipeScan(s)
  BY <1>0, <1>1, <1>4 DEF PipeScan
<1>5. CASE Seed(s)
  BY <1>0, <1>1, <1>5 DEF Seed, At
<1>6. ASSUME NEW a \in Fds \cup {None}, NEW b \in Fds \cup {None}, ExecPipe(s, a, b)
      PROVE  Local
  BY <1>0, <1>1, <1>6 DEF ExecPipe
<1>7. CASE Fork(s)
  BY <1>0, <1>1, <1>7 DEF Fork
<1>8. CASE ForkCopy(s)
  BY <1>0, <1>1, <1>8, Zenon DEF ForkCopy, At
<1>9. CASE ForkDup(s)
  BY <1>0, <1>1, <1>2, <1>9 DEF ForkDup, At
<1>10. ASSUME NEW v \in Slots, Kill(s, v) PROVE Local
  BY <1>0, <1>1, <1>10 DEF Kill, Return
<1>11. CASE PipeFill(s) \/ PipeFail(s) \/ SeedFail(s) \/ SeedDone(s)
  BY <1>2, <1>11 DEF PipeFill, PipeFail, SeedFail, SeedDone
<1>12. CASE Open(s) \/ (\E j \in Fds : Close(s, j)) \/ Exec(s) \/ Exit(s)
  BY <1>3, <1>12, Zenon DEF Open, Close, Exec, Exit
<1>. QED
  BY <1>4, <1>5, <1>6, <1>7, <1>8, <1>9, <1>10, <1>11, <1>12, Zenon DEF StepOf

\* So does vfs_dup.
LEMMA DupTypes ==
    ASSUME TypeOK, NEW d \in Descriptors, Dup(d)
    PROVE  refs' \in [Pipes -> [Ends -> Nat]]
BY DescriptorFacts DEF Dup, TypeOK

\* What a step of sys_exec_pipe's seeding does to the new row.
LEMMA SeedEffect ==
    ASSUME FdInv, NEW s \in Slots, Seed(s)
    PROVE  /\ obj[s] \in Slots /\ obj[s] # s /\ idx[s] \in 1 .. 2
           /\ \/ UNCHANGED <<row, refs>>
              \/ \E j \in Fds, d \in Descriptors :
                    /\ FreeFd(obj[s], j)
                    /\ row' = [row EXCEPT ![obj[s]][j] = d]
                    /\ Dup(d)
<1>1. obj[s] \in Slots /\ obj[s] # s /\ idx[s] \in 1 .. 2
  BY DEF FdInv, TypeOK, CallState, CallOf, Seed, At
<1>2. src[s][idx[s]] \in Fds \cup {None}
  BY <1>1 DEF FdInv, TypeOK
<1>3. src[s][idx[s]] # None => row[s][src[s][idx[s]]] \in Descriptors
  BY <1>2 DEF FdInv, TypeOK
<1>. QED BY <1>1, <1>3, Zenon DEF Seed

\* The types of the rows and of the pipes.
LEMMA FdTypeStep ==
    ASSUME FdInv, NEW s \in Slots, StepOf(s)
    PROVE  TypeOK'
<1>. DEFINE Tables == /\ state' \in [Slots -> {"UNUSED", "BLOCKED", "READY"}]
                      /\ row' \in [Slots -> [Fds -> Descriptors]]
                      /\ used' \in [Pipes -> BOOLEAN]
                      /\ refs' \in [Pipes -> [Ends -> Nat]]
                      /\ killed' \in BOOLEAN
<1>. SUFFICES Tables
  BY LocalTypeStep DEF TypeOK
<1>0. /\ state \in [Slots -> {"UNUSED", "BLOCKED", "READY"}]
      /\ row \in [Slots -> [Fds -> Descriptors]]
      /\ used \in [Pipes -> BOOLEAN]
      /\ refs \in [Pipes -> [Ends -> Nat]]
      /\ killed \in BOOLEAN
      /\ pc[s] \in {"seed", "fork_copy", "fork_dup"} => obj[s] \in Slots
      /\ pc[s] \in {"fork_copy", "fork_dup"} => idx[s] \in Fds
  BY DEF FdInv, TypeOK, CallState, CallOf
<1>1. CASE PipeFill(s)
  <2>1. PICK j \in Fds, k \in Fds :
            row' = [row EXCEPT ![s][j] = PipeEnd("read", obj[s]), ![s][k] = PipeEnd("write", obj[s])]
    BY <1>1, Zenon DEF PipeFill
  <2>2. PipeEnd("read", obj[s]) \in Descriptors /\ PipeEnd("write", obj[s]) \in Descriptors
    BY <1>1, DescriptorFacts DEF PipeFill, At, FdInv, TypeOK, Ends
  <2>. QED BY <1>0, <1>1, <2>1, <2>2, Zenon DEF PipeFill
<1>2. CASE PipeFail(s)
  BY <1>0, <1>2, Zenon DEF PipeFail
<1>3. CASE Open(s)
  BY <1>0, <1>3, DescriptorFacts, SMTT(30) DEF Open, pipes
<1>4. ASSUME NEW j \in Fds, Close(s, j) PROVE Tables
  <2>1. CloseAll(s, {j}) /\ {j} \in SUBSET Fds
    BY <1>4 DEF Close
  <2>. QED BY <1>0, <1>4, <2>1, CloseTypes DEF Close, FdInv
<1>5. CASE Seed(s)
  <2>1. CASE UNCHANGED <<row, refs>>
    BY <1>0, <1>5, <2>1, Zenon DEF Seed
  <2>2. CASE ~UNCHANGED <<row, refs>>
    <3>1. PICK j \in Fds, d \in Descriptors : row' = [row EXCEPT ![obj[s]][j] = d] /\ Dup(d)
      BY <1>5, <2>2, SeedEffect
    <3>2. refs' \in [Pipes -> [Ends -> Nat]]
      BY <3>1, DupTypes, Zenon DEF FdInv
    <3>. QED BY <1>0, <1>5, <3>1, <3>2 DEF Seed, At
  <2>. QED BY <2>1, <2>2, Zenon
<1>6. CASE ForkCopy(s)
  BY <1>0, <1>6 DEF ForkCopy, At, pipes
<1>7. CASE ForkDup(s)
  <2>1. row[obj[s]][idx[s]] \in Descriptors
    BY <1>0, <1>7 DEF ForkDup, At
  <2>2. refs' \in [Pipes -> [Ends -> Nat]]
    BY <1>7, <2>1, DupTypes DEF ForkDup, FdInv
  <2>. QED BY <1>0, <1>7, <2>2 DEF ForkDup
<1>8. CASE Exit(s)
  <2>. DEFINE D == {j \in Fds : row[s][j] # Free}
  <2>1. CloseAll(s, D) /\ D \in SUBSET Fds
    BY <1>8, SMTT(30) DEF Exit
  <2>. HIDE DEF D
  <2>. QED BY <1>0, <1>8, <2>1, CloseTypes DEF Exit, FdInv
<1>9. CASE PipeScan(s) \/ Exec(s) \/ SeedFail(s) \/ SeedDone(s) \/ Fork(s)
           \/ (\E a, b \in Fds \cup {None} : ExecPipe(s, a, b)) \/ (\E v \in Slots : Kill(s, v))
  BY <1>0, <1>9, Zenon DEF PipeScan, Exec, SeedFail, SeedDone, Fork, ExecPipe, Kill, At, pipes
<1>. QED
  BY <1>1, <1>2, <1>3, <1>4, <1>5, <1>6, <1>7, <1>8, <1>9, Zenon DEF StepOf

\* A call starts only when no other one is under way.
LEMMA OneInCallStep ==
    ASSUME Serialised, FdInv, NEW s \in Slots, StepOf(s)
    PROVE  OneInCall'
<1>1. state[s] = "READY" /\ \A t \in Slots \ {s} : pc[t] = "user"
  BY StepAlone DEF FdInv
<1>2. state \in [Slots -> {"UNUSED", "BLOCKED", "READY"}] /\ DOMAIN pc = Slots
  BY DEF FdInv, TypeOK
<1>3. \A t \in Slots \ {s} : pc'[t] = "user"
  BY <1>1, <1>2, Zenon
     DEF StepOf, PipeScan, PipeFill, PipeFail, Open, Close, Exec, Seed, SeedFail, SeedDone,
         ExecPipe, Fork, ForkCopy, ForkDup, Exit, Kill, Return, locals
<1>4. pc'[s] # "user" => state'[s] = "READY"
  <2>1. CASE Exit(s)
    BY <1>2, <2>1 DEF Exit, At, locals
  <2>2. CASE \E v \in Slots : Kill(s, v)
    BY <1>1, <1>2, <2>2, Zenon DEF Kill
  <2>3. CASE SeedFail(s) \/ SeedDone(s)
    BY <1>1, <1>2, <2>3 DEF SeedFail, SeedDone, Return
  <2>4. CASE Exec(s) \/ Fork(s) \/ \E a, b \in Fds \cup {None} : ExecPipe(s, a, b)
    BY <1>1, <1>2, <2>4, SMTT(30) DEF Exec, Fork, ExecPipe, FreeSlot
  <2>5. CASE \/ PipeScan(s) \/ PipeFill(s) \/ PipeFail(s) \/ Open(s)
             \/ (\E j \in Fds : Close(s, j)) \/ Seed(s) \/ ForkCopy(s) \/ ForkDup(s)
    BY <1>1, <2>5, Zenon DEF PipeScan, PipeFill, PipeFail, Open, Close, Seed, ForkCopy, ForkDup
  <2>. QED BY <2>1, <2>2, <2>3, <2>4, <2>5, Zenon DEF StepOf
<1>. QED BY <1>3, <1>4 DEF OneInCall

\* Each step of a call hands the next one what it relies on.
LEMMA CallStateStep ==
    ASSUME Serialised, FdInv, NEW s \in Slots, StepOf(s)
    PROVE  CallState'
<1>1. state[s] = "READY" /\ \A t \in Slots \ {s} : pc[t] = "user" /\ idx[t] = 0
  BY StepAlone DEF FdInv, CallState, CallOf
<1>2. /\ state \in [Slots -> {"UNUSED", "BLOCKED", "READY"}]
      /\ DOMAIN pc = Slots /\ DOMAIN idx = Slots /\ DOMAIN obj = Slots
      /\ row \in [Slots -> [Fds -> Descriptors]]
      /\ used \in [Pipes -> BOOLEAN]
      /\ killed \in BOOLEAN
      /\ pc[s] \in {"seed", "fork_copy", "fork_dup"} => obj[s] \in Slots
      /\ CallOf(s)
  BY DEF FdInv, TypeOK, CallState
<1>3. \A t \in Slots \ {s} : pc'[t] = "user" /\ idx'[t] = 0
  BY <1>1, <1>2, ZenonT(40)
     DEF StepOf, PipeScan, PipeFill, PipeFail, Open, Close, Exec, Seed, SeedFail, SeedDone,
         ExecPipe, Fork, ForkCopy, ForkDup, Exit, Kill, Return, locals
<1>. SUFFICES CallOf(s)'
  BY <1>3, ZenonT(30) DEF CallState, CallOf
<1>4. pc'[s] = "user" /\ idx'[s] = 0 => CallOf(s)'
  BY DEF CallOf
<1>5. CASE PipeScan(s)
  BY <1>2, <1>5, ZenonT(60) DEF PipeScan, CallOf, FreePipe, pipes, At
<1>6. CASE Seed(s)
  <2>1. obj[s] \in Slots /\ obj[s] # s /\ idx[s] \in 1 .. 2 /\ pc[s] = "seed"
    BY <1>6, SeedEffect, Zenon DEF Seed, At
  <2>2. ASSUME ~killed, NEW j \in Fds, j >= idx[s] PROVE row'[obj[s]][j] = Free
    <3>1. row[obj[s]][j] = Free /\ idx[s] - 1 \in Fds /\ row[obj[s]][idx[s] - 1] = Free
      BY <1>2, <2>1, <2>2, FdConstants, SMTT(30) DEF CallOf, Fds
    <3>2. CASE UNCHANGED <<row, refs>>
      BY <3>1, <3>2
    <3>3. CASE ~UNCHANGED <<row, refs>>
      <4>1. PICK k \in Fds, d \in Descriptors :
                FreeFd(obj[s], k) /\ row' = [row EXCEPT ![obj[s]][k] = d]
        BY <1>6, <3>3, SeedEffect
      <4>2. k <= idx[s] - 1
        BY <2>1, <3>1, <4>1, SMTT(30) DEF FreeFd, Fds
      <4>. QED BY <1>2, <2>1, <2>2, <3>1, <4>1, <4>2, SMTT(30) DEF Fds
    <3>. QED BY <3>2, <3>3, Zenon
  <2>. QED BY <1>2, <1>6, <2>1, <2>2, SMTT(30) DEF Seed, CallOf
<1>7. ASSUME NEW a \in Fds \cup {None}, NEW b \in Fds \cup {None}, ExecPipe(s, a, b)
      PROVE  CallOf(s)'
  <2>1. PICK i \in Slots : /\ FreeSlot(i)
                           /\ state' = [state EXCEPT ![i] = "BLOCKED"]
                           /\ obj' = [obj EXCEPT ![s] = i]
    BY <1>7, Zenon DEF ExecPipe
  <2>2. i # s /\ (~killed => \A j \in Fds : row[i][j] = Free)
    BY <1>1, <2>1, Zenon DEF FreeSlot, FdInv, FreeSlotIsClosed
  <2>. QED BY <1>2, <1>7, <2>1, <2>2 DEF ExecPipe, CallOf, pipes
<1>8. CASE Fork(s)
  <2>1. PICK i \in Slots : /\ FreeSlot(i)
                           /\ state' = [state EXCEPT ![i] = "READY"]
                           /\ obj' = [obj EXCEPT ![s] = i]
    BY <1>8, Zenon DEF Fork
  <2>2. i # s /\ (~killed => \A j \in Fds : row[i][j] = Free)
    BY <1>1, <2>1, Zenon DEF FreeSlot, FdInv, FreeSlotIsClosed
  <2>3. idx[s] = 0 /\ 0 \in Fds
    BY <1>2, <1>8, DescriptorFacts DEF Fork, At, CallOf
  <2>. QED BY <1>2, <1>8, <2>1, <2>2, <2>3 DEF Fork, CallOf, pipes
<1>9. CASE ForkCopy(s)
  <2>1. pc[s] = "fork_copy" /\ obj[s] \in Slots /\ obj[s] # s /\ idx[s] \in Fds
    BY <1>2, <1>9, Zenon DEF ForkCopy, At, CallOf
  <2>2. /\ row'[obj[s]][idx[s]] = row[s][idx[s]] /\ row'[s] = row[s]
        /\ \A j \in Fds : j > idx[s] => row'[obj[s]][j] = row[obj[s]][j]
    <3>1. \A j \in Fds : j > idx[s] => j # idx[s]
      BY <2>1 DEF Fds
    <3>2. row' = [row EXCEPT ![obj[s]][idx[s]] = row[s][idx[s]]]
      BY <1>9 DEF ForkCopy
    <3>. QED BY <1>2, <2>1, <3>1, <3>2, ZenonT(30)
  <2>. QED BY <1>2, <1>9, <2>1, <2>2, ZenonT(40) DEF ForkCopy, CallOf
<1>10. CASE ForkDup(s)
  <2>1. CASE idx[s] = FD_PER_PROC - 1
    BY <1>2, <1>4, <1>10, <2>1, ZenonT(60) DEF ForkDup, Return
  <2>2. CASE idx[s] # FD_PER_PROC - 1
    <3>1. /\ pc' = [pc EXCEPT ![s] = "fork_copy"]
          /\ idx' = [idx EXCEPT ![s] = @ + 1]
          /\ UNCHANGED <<state, row, killed, obj>>
      BY <1>10, <2>2 DEF ForkDup
    <3>2. idx[s] \in Fds /\ idx[s] + 1 \in Fds
      BY <1>2, <1>10, <2>2, FdConstants DEF ForkDup, At, CallOf, Fds
    <3>3. \A j \in Fds : j > idx[s] + 1 => j > idx[s]
      BY <3>2 DEF Fds
    <3>4. pc[s] = "fork_dup"
      BY <1>10 DEF ForkDup, At
    <3>5. /\ pc'[s] = "fork_copy" /\ idx'[s] = idx[s] + 1 /\ obj'[s] = obj[s]
          /\ state' = state /\ row' = row /\ killed' = killed
      BY <1>2, <3>1, Zenon
    <3>6. /\ obj[s] # s /\ state[obj[s]] = "READY"
          /\ ~killed => \A j \in Fds : j > idx[s] => row[obj[s]][j] = Free
      BY <1>2, <3>4, Zenon DEF CallOf
    <3>7. ~killed => row[obj[s]][idx[s] + 1] = Free
      <4>1. idx[s] + 1 > idx[s]
        BY <3>2 DEF Fds
      <4>. QED BY <3>2, <3>6, <4>1, Zenon
    <3>8. ~killed => \A j \in Fds : j > idx[s] + 1 => row[obj[s]][j] = Free
      BY <3>3, <3>6, Zenon
    <3>. QED BY <3>2, <3>5, <3>6, <3>7, <3>8, Zenon DEF CallOf
  <2>. QED BY <2>1, <2>2
<1>11. CASE PipeFill(s) \/ PipeFail(s) \/ SeedFail(s) \/ SeedDone(s)
  BY <1>2, <1>4, <1>11, SMTT(30) DEF PipeFill, PipeFail, SeedFail, SeedDone, Return
<1>12. CASE \/ Open(s) \/ (\E j \in Fds : Close(s, j)) \/ Exec(s) \/ Exit(s)
  BY <1>2, <1>4, <1>12, ZenonT(40) DEF Open, Close, Exec, Exit, At, locals, CallOf
<1>13. CASE \E v \in Slots : Kill(s, v)
  BY <1>2, <1>4, <1>13 DEF Kill, Return, At, CallOf
<1>. QED
  BY <1>5, <1>6, <1>7, <1>8, <1>9, <1>10, <1>11, <1>12, <1>13, Zenon DEF StepOf

\* sys_exit closes the row before the slot is free, and a row that sys_exec_pipe
\* seeds has room, so SeedFail needs an earlier sys_kill.
LEMMA FreeSlotStep ==
    ASSUME Serialised, FdInv, NEW s \in Slots, StepOf(s)
    PROVE  FreeSlotIsClosed'
<1>1. /\ state \in [Slots -> {"UNUSED", "BLOCKED", "READY"}]
      /\ row \in [Slots -> [Fds -> Descriptors]]
      /\ pc[s] \in {"seed", "fork_copy", "fork_dup"} => obj[s] \in Slots
      /\ state[s] = "READY"
      /\ CallOf(s)
      /\ ~killed => \A t \in Slots, j \in Fds : state[t] = "UNUSED" => row[t][j] = Free
  BY StepAlone, SMTT(30) DEF FdInv, TypeOK, CallState, FreeSlotIsClosed
<1>2. CASE PipeFill(s)
  BY <1>1, <1>2 DEF PipeFill, FreeSlotIsClosed
<1>3. CASE Open(s)
  BY <1>1, <1>3 DEF Open, FreeSlotIsClosed
<1>4. CASE (\E j \in Fds : Close(s, j)) \/ Exit(s)
  <2>1. \A t \in Slots \ {s} : row'[t] = row[t] /\ state'[t] = state[t]
    BY <1>1, <1>4, Zenon DEF Close, Exit, CloseAll
  <2>2. state'[s] = "UNUSED" => \A j \in Fds : row'[s][j] = Free
    <3>1. CASE \E j \in Fds : Close(s, j)
      BY <1>1, <3>1 DEF Close
    <3>2. CASE Exit(s)
      <4>1. row' = [row EXCEPT ![s] = [j \in Fds |-> IF j \in {k \in Fds : row[s][k] # Free}
                                                    THEN Free ELSE row[s][j]]]
        BY <3>2 DEF Exit, CloseAll
      <4>. QED BY <1>1, <4>1, Zenon
    <3>. QED BY <1>4, <3>1, <3>2, Zenon
  <2>3. killed' = killed
    BY <1>4, Zenon DEF Close, Exit
  <2>. QED BY <1>1, <2>1, <2>2, <2>3, SMTT(30) DEF FreeSlotIsClosed
<1>5. CASE Seed(s)
  <2>1. UNCHANGED state /\ killed' = killed /\ state[obj[s]] = "BLOCKED"
    BY <1>1, <1>5 DEF Seed, At, CallOf
  <2>2. \A t \in Slots \ {obj[s]} : row'[t] = row[t]
    <3>1. CASE UNCHANGED <<row, refs>>
      BY <3>1, Zenon
    <3>2. CASE ~UNCHANGED <<row, refs>>
      <4>1. PICK j \in Fds, d \in Descriptors : row' = [row EXCEPT ![obj[s]][j] = d]
        BY <1>5, <3>2, SeedEffect, ZenonT(40)
      <4>. QED BY <1>1, <4>1
    <3>. QED BY <3>1, <3>2
  <2>. QED BY <1>1, <2>1, <2>2, SMTT(30) DEF FreeSlotIsClosed
<1>6. CASE SeedFail(s)
  <2>1. idx[s] - 1 \in Fds /\ idx[s] \in 1 .. 2 /\ pc[s] = "seed"
    BY <1>1, <1>6, FdConstants, SMTT(30) DEF SeedFail, At, CallOf, Fds
  <2>2. killed
    BY <1>1, <1>6, <2>1, SMTT(30) DEF SeedFail, CallOf
  <2>. QED BY <1>6, <2>2, Zenon DEF SeedFail, FreeSlotIsClosed
<1>7. CASE ForkCopy(s)
  BY <1>1, <1>7 DEF ForkCopy, At, CallOf, FreeSlotIsClosed
<1>8. CASE \E v \in Slots : Kill(s, v)
  BY <1>8, Zenon DEF Kill, FreeSlotIsClosed
<1>9. CASE Exec(s) \/ Fork(s) \/ (\E a, b \in Fds \cup {None} : ExecPipe(s, a, b)) \/ SeedDone(s)
  BY <1>1, <1>9, SMTT(30) DEF Exec, Fork, ExecPipe, SeedDone, At, FreeSlotIsClosed
<1>10. CASE PipeScan(s) \/ PipeFail(s) \/ ForkDup(s)
  BY <1>1, <1>10, ZenonT(30) DEF PipeScan, PipeFail, ForkDup, FreeSlotIsClosed
<1>. QED
  BY <1>2, <1>3, <1>4, <1>5, <1>6, <1>7, <1>8, <1>9, <1>10, Zenon DEF StepOf

-----------------------------------------------------------------------------
(* Counting.  How a step changes the entries of one end of one pipe.       *)

\* A step that leaves the entries and the count alone.
LEMMA CoverSame ==
    ASSUME NEW e, NEW i, Covers(e, i), killed \in BOOLEAN, killed' \in BOOLEAN, killed => killed',
           Counted(e, i)' = Counted(e, i), refs'[i][e] = refs[i][e]
    PROVE  Covers(e, i)'
BY Zenon DEF Covers

\* A new entry and vfs_dup of it.
LEMMA CoverAdd ==
    ASSUME NEW e, NEW i, NEW p, Covers(e, i), killed' = killed, refs[i][e] \in Nat,
           Counted(e, i)' = Counted(e, i) \cup {p}, p \notin Counted(e, i),
           refs'[i][e] = refs[i][e] + 1
    PROVE  Covers(e, i)'
<1>1. Cardinality(Counted(e, i) \cup {p}) = Cardinality(Counted(e, i)) + 1
  BY CountedFinite, FS_AddElement, Zenon
<1>. QED BY <1>1, CountedFinite, SMTT(30) DEF Covers

\* sys_fork's copy over a descriptor: only a killed process left one there.
LEMMA CoverRemove ==
    ASSUME NEW e, NEW i, NEW p, Covers(e, i), killed' = killed, refs[i][e] \in Nat,
           Counted(e, i)' = Counted(e, i) \ {p}, ~killed => p \notin Counted(e, i),
           refs'[i][e] = refs[i][e]
    PROVE  Covers(e, i)'
<1>1. /\ Cardinality(Counted(e, i) \ {p}) <= Cardinality(Counted(e, i))
      /\ Cardinality(Counted(e, i) \ {p}) \in Nat
  <2>1. Counted(e, i) \ {p} \in SUBSET Counted(e, i)
    OBVIOUS
  <2>. QED BY <2>1, CountedFinite, FS_Subset, FS_CardinalityType, ZenonT(30)
<1>2. ~killed => Counted(e, i) \ {p} = Counted(e, i)
  OBVIOUS
<1>. QED BY <1>1, <1>2, CountedFinite, SMTT(30) DEF Covers

\* Closing n entries of row s takes n off the count.
LEMMA CoverClose ==
    ASSUME NEW e, NEW i, NEW s, NEW D \in SUBSET Fds, Covers(e, i), killed' = killed,
           refs[i][e] \in Nat,
           {s} \X D \subseteq Counted(e, i),
           Counted(e, i)' = Counted(e, i) \ ({s} \X D),
           refs'[i][e] = IF refs[i][e] - Cardinality(D) > 0
                         THEN refs[i][e] - Cardinality(D) ELSE 0
    PROVE  Covers(e, i)'
<1>1. IsFiniteSet({s}) /\ Cardinality({s}) = 1
  BY FS_Singleton, Zenon
<1>2. Cardinality(D) \in Nat /\ IsFiniteSet(D)
  BY FdsFinite, Zenon
<1>3. Cardinality({s} \X D) = Cardinality(D)
  <2>1. Cardinality({s} \X D) = Cardinality({s}) * Cardinality(D)
    BY <1>1, <1>2, FS_Product, Zenon
  <2>. QED BY <1>1, <1>2, <2>1
<1>4. Counted(e, i) \cap ({s} \X D) = {s} \X D
  OBVIOUS
<1>5. Cardinality(Counted(e, i) \ ({s} \X D)) = Cardinality(Counted(e, i)) - Cardinality(D)
  <2>1. Cardinality(Counted(e, i) \ ({s} \X D))
           = Cardinality(Counted(e, i)) - Cardinality(Counted(e, i) \cap ({s} \X D))
    BY CountedFinite, FS_Difference, Zenon
  <2>. QED BY <1>3, <1>4, <2>1, Zenon
<1>6. Cardinality(D) <= Cardinality(Counted(e, i))
  <2>1. {s} \X D \in SUBSET Counted(e, i)
    OBVIOUS
  <2>2. Cardinality({s} \X D) <= Cardinality(Counted(e, i))
    BY <2>1, CountedFinite, FS_Subset, Zenon
  <2>. QED BY <1>3, <2>2, Zenon
<1>7. Cardinality(Counted(e, i)) \in Nat
  BY CountedFinite
<1>8. Cardinality(Counted(e, i)') = Cardinality(Counted(e, i)) - Cardinality(D)
  BY <1>5, Zenon
<1>. QED BY <1>2, <1>6, <1>7, <1>8 DEF Covers

\* sys_close and sys_exit close descriptors of the row.
LEMMA ClosesFds ==
    ASSUME NEW s, Exit(s) \/ \E j \in Fds : Close(s, j)
    PROVE  \E F \in SUBSET Fds : CloseAll(s, F)
<1>1. CASE Exit(s)
  <2>1. {j \in Fds : row[s][j] # Free} \in SUBSET Fds
    OBVIOUS
  <2>. QED BY <1>1, <2>1 DEF Exit
<1>2. CASE \E j \in Fds : Close(s, j)
  <2>1. PICK j \in Fds : Close(s, j)
    BY <1>2
  <2>2. {j} \in SUBSET Fds /\ CloseAll(s, {j})
    BY <2>1 DEF Close
  <2>. QED BY <2>2
<1>. QED BY <1>1, <1>2

\* The counts follow the entries, step by step.
LEMMA CountsStep ==
    ASSUME Serialised, FdInv, NEW s \in Slots, StepOf(s)
    PROVE  CountsCover'
<1>1. /\ row \in [Slots -> [Fds -> Descriptors]]
      /\ refs \in [Pipes -> [Ends -> Nat]]
      /\ killed \in BOOLEAN
      /\ DOMAIN pc = Slots
      /\ pc[s] = "pipe" => obj[s] \in Pipes
      /\ pc[s] \in {"seed", "fork_copy", "fork_dup"} => obj[s] \in Slots
      /\ CallOf(s)
      /\ \A t \in Slots \ {s} : pc[t] = "user"
  BY StepAlone DEF FdInv, TypeOK, CallState
<1>. SUFFICES ASSUME NEW i \in Pipes, NEW e \in Ends
              PROVE  Covers(e, i)'
  BY Zenon DEF CountsCover
<1>2. Covers(e, i) /\ refs[i][e] \in Nat
  BY <1>1, SMTT(30) DEF FdInv, CountsCover
<1>3. \A t \in Slots \ {s} : pc'[t] = "user"
  BY <1>1, ZenonT(40)
     DEF StepOf, PipeScan, PipeFill, PipeFail, Open, Close, Exec, Seed, SeedFail, SeedDone,
         ExecPipe, Fork, ForkCopy, ForkDup, Exit, Kill, Return, locals
<1>. DEFINE Owners == {p \in Slots \X Fds : row[p[1]][p[2]] = PipeEnd(e, i)}
<1>4. pc[s] # "fork_dup" => Counted(e, i) = Owners
  BY <1>1 DEF Counted, Uncounted
<1>5. pc'[s] # "fork_dup" => Counted(e, i)' = Owners'
  BY <1>3, SMTT(30) DEF Counted, Uncounted
<1>6. CASE \/ PipeScan(s) \/ Exec(s) \/ SeedFail(s) \/ SeedDone(s) \/ Fork(s)
           \/ (\E a, b \in Fds \cup {None} : ExecPipe(s, a, b)) \/ (\E v \in Slots : Kill(s, v))
  <2>1. pc[s] # "fork_dup" /\ pc'[s] # "fork_dup" /\ UNCHANGED <<row, refs>>
    BY <1>1, <1>6, ZenonT(40)
       DEF PipeScan, Exec, SeedFail, SeedDone, Fork, ExecPipe, Kill, At, Return, pipes, locals
  <2>2. killed' \in BOOLEAN /\ (killed => killed')
    BY <1>1, <1>6, Zenon DEF PipeScan, Exec, SeedFail, SeedDone, Fork, ExecPipe, Kill
  <2>. QED BY <1>1, <1>2, <1>4, <1>5, <2>1, <2>2, CoverSame, Zenon
<1>7. CASE PipeFail(s)
  <2>1. pc[s] # "fork_dup" /\ pc'[s] # "fork_dup" /\ UNCHANGED <<row, killed>>
    BY <1>1, <1>7, SMTT(30) DEF PipeFail, At, Return
  <2>2. refs'[i][e] = refs[i][e]
    BY <1>1, <1>7, ZenonT(60) DEF PipeFail, At, CallOf, FdInv, FreePipeIsClosed
  <2>. QED BY <1>1, <1>2, <1>4, <1>5, <2>1, <2>2, CoverSame, Zenon
<1>8. CASE Open(s)
  <2>1. pc[s] # "fork_dup" /\ pc'[s] # "fork_dup" /\ UNCHANGED <<refs, killed>>
    BY <1>1, <1>8, Zenon DEF Open, At, pipes, locals
  <2>2. PICK j \in Fds : row[s][j] = Free /\ row' = [row EXCEPT ![s][j] = File]
    BY <1>8, Zenon DEF Open, FreeFd
  <2>3. ASSUME NEW t \in Slots, NEW k \in Fds
        PROVE  row'[t][k] = PipeEnd(e, i) <=> row[t][k] = PipeEnd(e, i)
    BY <1>1, <2>2, DescriptorFacts, SMTT(30)
  <2>4. Owners' = Owners
    BY <2>3
  <2>. QED BY <1>1, <1>2, <1>4, <1>5, <2>1, <2>4, CoverSame, Zenon
<1>9. CASE PipeFill(s)
  <2>1. pc[s] = "pipe" /\ pc'[s] # "fork_dup" /\ killed' = killed
    BY <1>1, <1>9 DEF PipeFill, At, Return
  <2>2. PICK j \in Fds, k \in Fds :
            /\ row[s][j] = Free /\ row[s][k] = Free /\ k # j
            /\ row' = [row EXCEPT ![s][j] = PipeEnd("read", obj[s]),
                                  ![s][k] = PipeEnd("write", obj[s])]
    BY <1>9, Zenon DEF PipeFill, FreeFd
  <2>3. CASE i # obj[s]
    <3>1. ASSUME NEW t \in Slots, NEW l \in Fds
          PROVE  row'[t][l] = PipeEnd(e, i) <=> row[t][l] = PipeEnd(e, i)
      <4>1. PipeEnd("read", obj[s]) # PipeEnd(e, i) /\ PipeEnd("write", obj[s]) # PipeEnd(e, i)
        BY <2>3, Zenon DEF PipeEnd
      <4>2. Free # PipeEnd(e, i)
        BY DescriptorFacts, Zenon
      <4>. QED BY <1>1, <2>2, <4>1, <4>2, ZenonT(30)
    <3>2. Owners' = Owners
      BY <3>1, ZenonT(60)
    <3>3. refs'[i][e] = refs[i][e]
      BY <1>1, <1>9, <2>3, ZenonT(30) DEF PipeFill
    <3>. QED BY <1>1, <1>2, <1>4, <1>5, <2>1, <3>2, <3>3, CoverSame, ZenonT(40)
  <2>4. CASE i = obj[s]
    <3>. DEFINE f == IF e = "read" THEN j ELSE k
    <3>1. f \in Fds /\ row[s][f] = Free
      BY <2>2, Zenon
    <3>2. ASSUME NEW t \in Slots, NEW l \in Fds
          PROVE  row'[t][l] = PipeEnd(e, i) <=> row[t][l] = PipeEnd(e, i) \/ (t = s /\ l = f)
      <4>1. PipeEnd("read", i) # PipeEnd("write", i) /\ Free # PipeEnd(e, i)
        BY DescriptorFacts DEF PipeEnd
      <4>2. e = "read" \/ e = "write"
        BY Zenon DEF Ends
      <4>. QED BY <1>1, <2>2, <2>4, <4>1, <4>2, ZenonT(30)
    <3>. HIDE DEF f
    <3>3. Owners' = Owners \cup {<<s, f>>} /\ <<s, f>> \notin Owners
      BY <3>1, <3>2, DescriptorFacts, SMTT(30)
    <3>4. refs[i][e] = 0 /\ refs'[i][e] = 1
      BY <1>1, <1>9, <2>1, <2>4, Zenon DEF PipeFill, CallOf, FdInv, FreePipeIsClosed
    <3>. QED BY <1>2, <1>4, <1>5, <2>1, <3>3, <3>4, CoverAdd, SMTT(30)
  <2>. QED BY <2>3, <2>4, ZenonT(30)
<1>10. CASE Seed(s)
  <2>1. pc[s] = "seed" /\ pc'[s] # "fork_dup" /\ killed' = killed /\ obj[s] \in Slots
    BY <1>1, <1>10, ZenonT(40) DEF Seed, At
  <2>2. CASE UNCHANGED <<row, refs>>
    BY <1>1, <1>2, <1>4, <1>5, <2>1, <2>2, CoverSame, Zenon
  <2>3. CASE ~UNCHANGED <<row, refs>>
    <3>1. PICK j \in Fds, d \in Descriptors :
              /\ row[obj[s]][j] = Free
              /\ row' = [row EXCEPT ![obj[s]][j] = d]
              /\ Dup(d)
      BY <1>10, <2>3, SeedEffect, Zenon DEF FreeFd
    <3>2. CASE d = PipeEnd(e, i)
      <4>1. ASSUME NEW t \in Slots, NEW l \in Fds
            PROVE  row'[t][l] = PipeEnd(e, i) <=>
                      row[t][l] = PipeEnd(e, i) \/ (t = obj[s] /\ l = j)
        BY <1>1, <2>1, <3>1, <3>2, ZenonT(60)
      <4>2. Owners' = Owners \cup {<<obj[s], j>>} /\ <<obj[s], j>> \notin Owners
        BY <2>1, <3>1, <4>1, DescriptorFacts, SMTT(30)
      <4>3. refs'[i][e] = refs[i][e] + 1
        BY <1>1, <3>1, <3>2, DescriptorFacts, SMTT(30) DEF Dup
      <4>. QED BY <1>2, <1>4, <1>5, <2>1, <4>2, <4>3, CoverAdd, ZenonT(30)
    <3>3. CASE d # PipeEnd(e, i)
      <4>1. ASSUME NEW t \in Slots, NEW l \in Fds
            PROVE  row'[t][l] = PipeEnd(e, i) <=> row[t][l] = PipeEnd(e, i)
        BY <1>1, <2>1, <3>1, <3>3, DescriptorFacts, SMTT(30)
      <4>2. Owners' = Owners
        BY <4>1, ZenonT(30)
      <4>3. refs'[i][e] = refs[i][e]
        BY <1>1, <3>1, <3>3, DescriptorFacts, SMTT(30) DEF Dup
      <4>. QED BY <1>1, <1>2, <1>4, <1>5, <2>1, <4>2, <4>3, CoverSame, ZenonT(60)
    <3>. QED BY <3>2, <3>3, Zenon
  <2>. QED BY <2>2, <2>3, Zenon
<1>11. CASE ForkCopy(s)
  <2>. DEFINE q == <<obj[s], idx[s]>>
  <2>1. /\ pc[s] = "fork_copy" /\ pc'[s] = "fork_dup" /\ UNCHANGED <<refs, killed, obj, idx>>
        /\ obj[s] \in Slots /\ idx[s] \in Fds
        /\ row' = [row EXCEPT ![obj[s]][idx[s]] = row[s][idx[s]]]
    BY <1>1, <1>11 DEF ForkCopy, At, CallOf, pipes
  <2>2. \A p : Uncounted(p)' <=> p = q
    BY <1>3, <2>1, Zenon DEF Uncounted
  <2>3. ASSUME NEW t \in Slots, NEW l \in Fds, <<t, l>> # q
        PROVE  row'[t][l] = row[t][l]
    BY <1>1, <2>1, <2>3, ZenonT(60)
  <2>. HIDE DEF q
  <2>4. Counted(e, i)' = Owners \ {q}
    BY <2>2, <2>3, SMTT(30) DEF Counted
  <2>5. ~killed => q \notin Owners
    BY <1>1, <2>1, DescriptorFacts DEF CallOf, q
  <2>. QED BY <1>2, <1>4, <2>1, <2>4, <2>5, CoverRemove, ZenonT(60)
<1>12. CASE ForkDup(s)
  <2>. DEFINE q == <<obj[s], idx[s]>>
              d == row[obj[s]][idx[s]]
  <2>1. /\ pc[s] = "fork_dup" /\ pc'[s] # "fork_dup" /\ UNCHANGED <<row, killed>>
        /\ obj[s] \in Slots /\ idx[s] \in Fds
        /\ Dup(d)
    BY <1>1, <1>12, Zenon DEF ForkDup, At, CallOf, Return
  <2>2. \A p : Uncounted(p) <=> p = q
    BY <1>1, <2>1, ZenonT(60) DEF Uncounted
  <2>3. q \in Slots \X Fds /\ (q \in Owners <=> d = PipeEnd(e, i)) /\ d \in Descriptors
    BY <1>1, <2>1, SMTT(30)
  <2>. HIDE DEF q, d
  <2>4. Counted(e, i) = Owners \ {q} /\ Counted(e, i)' = Owners
    BY <1>5, <2>1, <2>2, ZenonT(40) DEF Counted
  <2>5. CASE d = PipeEnd(e, i)
    <3>1. refs'[i][e] = refs[i][e] + 1
      BY <1>1, <2>1, <2>5, DescriptorFacts, SMTT(30) DEF Dup
    <3>2. Counted(e, i)' = Counted(e, i) \cup {q} /\ q \notin Counted(e, i)
      BY <2>3, <2>4, <2>5, ZenonT(30)
    <3>. QED BY <1>2, <2>1, <3>1, <3>2, CoverAdd, ZenonT(60)
  <2>6. CASE d # PipeEnd(e, i)
    <3>1. refs'[i][e] = refs[i][e]
      BY <1>1, <2>1, <2>3, <2>6, DescriptorFacts, SMTT(30) DEF Dup
    <3>2. Counted(e, i)' = Counted(e, i)
      BY <2>3, <2>4, <2>6
    <3>. QED BY <1>1, <1>2, <2>1, <3>1, <3>2, CoverSame, ZenonT(60)
  <2>. QED BY <2>5, <2>6, SMTT(30)
<1>13. ASSUME NEW F \in SUBSET Fds, CloseAll(s, F), UNCHANGED <<pc, killed>>, pc[s] = "user"
       PROVE  Covers(e, i)'
  <2>. DEFINE D == {j \in F : row[s][j] = PipeEnd(e, i)}
  <2>1. D \in SUBSET Fds
    BY <1>13, Zenon
  <2>2. \A p \in Slots \X Fds : row'[p[1]][p[2]] = IF p[1] = s /\ p[2] \in F THEN Free
                                                  ELSE row[p[1]][p[2]]
    BY <1>1, <1>13, ZenonT(60) DEF CloseAll
  <2>3. refs'[i][e] = IF refs[i][e] - Cardinality(D) > 0 THEN refs[i][e] - Cardinality(D) ELSE 0
    BY <1>13 DEF CloseAll, Released
  <2>4. Free # PipeEnd(e, i)
    BY DescriptorFacts
  <2>5. {s} \X D \subseteq Owners
    BY <2>1, Zenon
  <2>6. Owners' = Owners \ ({s} \X D)
    BY <2>2, <2>4, ZenonT(60)
  <2>7. Counted(e, i) = Owners /\ Counted(e, i)' = Owners'
    BY <1>4, <1>5, <1>13
  <2>. HIDE DEF D
  <2>8. {s} \X D \subseteq Counted(e, i) /\ Counted(e, i)' = Counted(e, i) \ ({s} \X D)
    BY <2>5, <2>6, <2>7, Zenon
  <2>9. killed' = killed
    BY <1>13
  <2>. QED BY <1>2, <2>1, <2>3, <2>8, <2>9, CoverClose, ZenonT(60)
<1>14. CASE Exit(s) \/ \E j \in Fds : Close(s, j)
  <2>1. PICK F \in SUBSET Fds : CloseAll(s, F)
    BY <1>14, ClosesFds, SMTT(30)
  <2>2. UNCHANGED <<pc, killed>> /\ pc[s] = "user"
    BY <1>14, Zenon DEF Exit, Close, At, locals
  <2>. QED BY <1>13, <2>1, <2>2, Zenon
<1>. QED
  BY <1>6, <1>7, <1>8, <1>9, <1>10, <1>11, <1>12, <1>14, ZenonT(60) DEF StepOf

\* A pipe whose counts are both 0 is given back by the close that made them 0.
LEMMA FreePipeStep ==
    ASSUME Serialised, FdInv, NEW s \in Slots, StepOf(s)
    PROVE  FreePipeIsClosed'
<1>1. /\ refs \in [Pipes -> [Ends -> Nat]]
      /\ used \in [Pipes -> BOOLEAN]
      /\ row \in [Slots -> [Fds -> Descriptors]]
      /\ pc[s] = "pipe" => obj[s] \in Pipes
      /\ pc[s] \in {"seed", "fork_copy", "fork_dup"} => obj[s] \in Slots
      /\ CallOf(s)
      /\ \A i \in Pipes, e \in Ends : ~used[i] => refs[i][e] = 0
  BY ZenonT(60) DEF FdInv, TypeOK, CallState, FreePipeIsClosed
<1>. DEFINE Counts(d) == \A i \in Pipes, e \in Ends :
                            d = PipeEnd(e, i) => used[i]
<1>2. ASSUME NEW t \in Slots, NEW j \in Fds, ~Uncounted(<<t, j>>) PROVE Counts(row[t][j])
  <2>. SUFFICES ASSUME NEW i \in Pipes, NEW e \in Ends, row[t][j] = PipeEnd(e, i)
                PROVE  used[i]
    OBVIOUS
  <2>1. <<t, j>> \in Counted(e, i)
    BY <1>2 DEF Counted
  <2>2. Cardinality(Counted(e, i)) # 0
    BY <2>1, CountedFinite, FS_EmptySet, ZenonT(30)
  <2>3. Cardinality(Counted(e, i)) <= refs[i][e]
    BY Zenon DEF FdInv, CountsCover, Covers
  <2>. QED BY <1>1, <2>2, <2>3, CountedFinite, SMTT(30)
<1>3. ASSUME NEW d \in Descriptors, Dup(d), Counts(d), UNCHANGED used PROVE FreePipeIsClosed'
  BY <1>1, <1>3, DescriptorFacts, SMTT(30) DEF Dup, FreePipeIsClosed
<1>4. CASE \/ PipeScan(s) \/ Open(s) \/ Exec(s) \/ SeedFail(s) \/ SeedDone(s) \/ Fork(s)
           \/ ForkCopy(s) \/ (\E a, b \in Fds \cup {None} : ExecPipe(s, a, b))
           \/ (\E v \in Slots : Kill(s, v))
  BY <1>1, <1>4, ZenonT(60)
     DEF PipeScan, Open, Exec, SeedFail, SeedDone, Fork, ForkCopy, ExecPipe, Kill, pipes,
         FreePipeIsClosed
<1>5. CASE PipeFill(s) \/ PipeFail(s)
  <2>1. obj[s] \in Pipes
    BY <1>1, <1>5, Zenon DEF PipeFill, PipeFail, At
  <2>2. \A i \in Pipes \ {obj[s]} : used'[i] = used[i] /\ refs'[i] = refs[i]
    BY <1>1, <1>5, ZenonT(60) DEF PipeFill, PipeFail
  <2>3. used'[obj[s]] \/ \A e \in Ends : refs'[obj[s]][e] = 0
    BY <1>1, <1>5, <2>1 DEF PipeFill, PipeFail
  <2>. QED BY <1>1, <2>1, <2>2, <2>3, SMTT(30) DEF FreePipeIsClosed
<1>6. CASE Seed(s)
  <2>1. UNCHANGED used /\ pc[s] = "seed" /\ \A t \in Slots \ {s} : pc[t] = "user"
    BY <1>6, StepAlone DEF Seed, At, FdInv
  <2>2. CASE UNCHANGED <<row, refs>>
    BY <1>1, <2>1, <2>2 DEF FreePipeIsClosed
  <2>3. CASE ~UNCHANGED <<row, refs>>
    <3>1. src[s][idx[s]] \in Fds
      <4>1. src[s] \in (Fds \cup {None}) \X (Fds \cup {None}) /\ idx[s] \in 1 .. 2
        BY <1>6, SeedEffect, ZenonT(30) DEF FdInv, TypeOK
      <4>2. src[s][idx[s]] # None
        BY <1>6, <2>3, SMTT(30) DEF Seed
      <4>. QED BY <4>1, <4>2, SMTT(30)
    <3>2. Dup(row[s][src[s][idx[s]]])
      BY <1>6, <3>1, DescriptorFacts, Zenon DEF Seed
    <3>3. Counts(row[s][src[s][idx[s]]])
      BY <1>2, <2>1, <3>1, Zenon DEF Uncounted
    <3>4. row[s][src[s][idx[s]]] \in Descriptors
      BY <1>1, <3>1, ZenonT(60)
    <3>. QED BY <1>3, <2>1, <3>2, <3>3, <3>4, ZenonT(30)
  <2>. QED BY <2>2, <2>3
<1>7. CASE ForkDup(s)
  <2>1. /\ UNCHANGED used /\ pc[s] = "fork_dup" /\ \A t \in Slots \ {s} : pc[t] = "user"
        /\ obj[s] \in Slots /\ obj[s] # s /\ idx[s] \in Fds
        /\ row[obj[s]][idx[s]] = row[s][idx[s]]
        /\ Dup(row[s][idx[s]])
    BY <1>1, <1>7, StepAlone, ZenonT(40) DEF ForkDup, At, CallOf, FdInv
  <2>2. ~Uncounted(<<s, idx[s]>>)
    BY <2>1, SMTT(30) DEF Uncounted
  <2>3. Counts(row[s][idx[s]]) /\ row[s][idx[s]] \in Descriptors
    BY <1>1, <1>2, <2>1, <2>2, ZenonT(40)
  <2>. QED BY <1>3, <2>1, <2>3, SMTT(30)
<1>8. CASE Exit(s) \/ \E j \in Fds : Close(s, j)
  <2>1. PICK F \in SUBSET Fds : CloseAll(s, F)
    BY <1>8, ClosesFds
  <2>2. ASSUME NEW i \in Pipes, NEW e \in Ends, ~used'[i] PROVE refs'[i][e] = 0
    <3>1. CASE used[i]
      <4>1. refs'[i]["read"] = 0 /\ refs'[i]["write"] = 0
        BY <2>1, <2>2, <3>1, Zenon DEF CloseAll
      <4>. QED BY <4>1, SMTT(30) DEF Ends
    <3>2. CASE ~used[i]
      <4>. DEFINE n == Cardinality({j \in F : row[s][j] = PipeEnd(e, i)})
      <4>1. refs'[i][e] = IF refs[i][e] - n > 0 THEN refs[i][e] - n ELSE 0
        BY <2>1, Zenon DEF CloseAll, Released
      <4>2. refs[i][e] = 0
        BY <1>1, <3>2
      <4>3. n \in Nat
        <5>1. {j \in F : row[s][j] = PipeEnd(e, i)} \in SUBSET Fds
          OBVIOUS
        <5>. QED BY <5>1, FdsFinite
      <4>. HIDE DEF n
      <4>. QED BY <4>1, <4>2, <4>3, SMTT(30)
    <3>. QED BY <3>1, <3>2
  <2>. QED BY <2>2 DEF FreePipeIsClosed
<1>. QED
  BY <1>4, <1>5, <1>6, <1>7, <1>8, Zenon DEF StepOf

-----------------------------------------------------------------------------
\* FdInv holds in every reachable state of a table whose windows are closed.
THEOREM FdInvariant == Serialised /\ Spec => []FdInv
<1>. SUFFICES ASSUME Serialised PROVE Spec => []FdInv
  OBVIOUS
<1>1. FdInv /\ [Next]_vars => FdInv'
  <2>. SUFFICES ASSUME FdInv, [Next]_vars
                PROVE  FdInv'
    OBVIOUS
  <2>1. CASE Next
    <3>1. PICK s \in Slots : StepOf(s)
      BY <2>1, SMTT(30) DEF Next, StepOf
    <3>. QED
      BY <3>1, FdTypeStep, OneInCallStep, CallStateStep, FreeSlotStep, CountsStep, FreePipeStep, ZenonT(30)
         DEF FdInv
  <2>2. CASE UNCHANGED vars
    <3>0. /\ state' = state /\ row' = row /\ used' = used /\ refs' = refs /\ pc' = pc
          /\ obj' = obj /\ idx' = idx /\ src' = src /\ killed' = killed
      BY <2>2, Zenon DEF vars
    <3>1. TypeOK' <=> TypeOK
      BY <3>0, Zenon DEF TypeOK
    <3>2. OneInCall' <=> OneInCall
      BY <3>0, Zenon DEF OneInCall
    <3>3. CallState' <=> CallState
      <4>1. ASSUME NEW s \in Slots PROVE CallOf(s)' <=> CallOf(s)
        BY <3>0, SMTT(30) DEF CallOf
      <4>. QED BY <4>1, Zenon DEF CallState
    <3>4. FreeSlotIsClosed' <=> FreeSlotIsClosed
      BY <3>0, Zenon DEF FreeSlotIsClosed
    <3>5. FreePipeIsClosed' <=> FreePipeIsClosed
      BY <3>0, Zenon DEF FreePipeIsClosed
    <3>6. CountsCover' <=> CountsCover
      BY <3>0, ZenonT(60) DEF CountsCover, Covers, Counted, Uncounted
    <3>. QED BY <3>1, <3>2, <3>3, <3>4, <3>5, <3>6, Zenon DEF FdInv
  <2>. QED BY <2>1, <2>2
<1>. QED BY FdInit, <1>1, PTL DEF Spec

\* An end that a live process holds names a pipe in use, and is counted, also
\* after a sys_kill and in the middle of sys_fork's copy.
THEOREM EndsStayOpen == Serialised /\ Spec => []HeldEndIsOpen
<1>1. FdInv => HeldEndIsOpen
  <2>. SUFFICES ASSUME FdInv, NEW s \in Slots, NEW j \in Fds, row[s][j].end \in Ends
                PROVE  used[row[s][j].pipe] /\ refs[row[s][j].pipe][row[s][j].end] > 0
    BY DEF HeldEndIsOpen
  <2>. DEFINE i == row[s][j].pipe
              e == row[s][j].end
  <2>1. i \in Pipes /\ e \in Ends /\ row[s][j] = PipeEnd(e, i)
    BY DescriptorFacts DEF FdInv, TypeOK
  <2>2. PICK t \in Slots : row[t][j] = PipeEnd(e, i) /\ ~Uncounted(<<t, j>>)
    <3>1. CASE ~Uncounted(<<s, j>>)
      BY <2>1, <3>1
    <3>2. CASE Uncounted(<<s, j>>)
      <4>1. PICK t \in Slots : pc[t] = "fork_dup" /\ obj[t] = s /\ idx[t] = j
        BY <3>2, SMTT(30) DEF Uncounted
      <4>2. row[t][j] = PipeEnd(e, i) /\ t # s
        BY <2>1, <4>1, ZenonT(40) DEF FdInv, CallState, CallOf
      <4>3. ~Uncounted(<<t, j>>)
        BY <4>1, <4>2, Zenon DEF Uncounted, FdInv, OneInCall
      <4>. QED BY <4>2, <4>3, ZenonT(60)
    <3>. QED BY <3>1, <3>2
  <2>3. <<t, j>> \in Counted(e, i)
    BY <2>2 DEF Counted
  <2>4. Cardinality(Counted(e, i)) # 0
    BY <2>3, CountedFinite, FS_EmptySet, ZenonT(60)
  <2>5. refs[i][e] > 0
    BY <2>1, <2>4, CountedFinite, SMTT(30) DEF FdInv, TypeOK, CountsCover, Covers
  <2>. QED BY <2>1, <2>5, SMTT(30) DEF FdInv, TypeOK, FreePipeIsClosed
<1>. QED BY FdInvariant, <1>1, PTL

\* Between calls the counts are exactly the entries that name each end, as
\* docs/pipes.md says, until a sys_kill.
THEOREM RefsExact == Serialised /\ Spec => []RefsAreEntries
<1>1. FdInv => RefsAreEntries
  <2>. SUFFICES ASSUME FdInv, ~killed, \A s \in Slots : pc[s] = "user",
                       NEW i \in Pipes, NEW e \in Ends
                PROVE  refs[i][e] = Entries(e, i)
    BY DEF RefsAreEntries
  <2>1. Counted(e, i) = {p \in Slots \X Fds : row[p[1]][p[2]] = PipeEnd(e, i)}
    BY DEF Counted, Uncounted
  <2>2. Cardinality(Counted(e, i)) = refs[i][e]
    BY DEF FdInv, CountsCover, Covers
  <2>. QED BY <2>1, <2>2 DEF Entries
<1>. QED BY FdInvariant, <1>1, PTL

\* A free slot has nothing open, so the next process starts with an empty row,
\* until a sys_kill.
THEOREM FreeSlotsClosed == Serialised /\ Spec => []FreeSlotIsClosed
<1>1. FdInv => FreeSlotIsClosed
  BY DEF FdInv
<1>. QED BY FdInvariant, <1>1, PTL
=============================================================================
