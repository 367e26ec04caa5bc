------------------------------ MODULE FdTable ------------------------------
(***************************************************************************)
(* The descriptor rows of all processes (fd_table in kernel/syscall.c) and *)
(* the reference counts of the pipes they name (kernel/pipe.c), under      *)
(* sys_pipe, sys_open, sys_close, sys_fork, sys_exec, sys_exec_pipe,       *)
(* sys_exit and sys_kill.  What flows through a pipe is in module Pipe.    *)
(*                                                                         *)
(* sys_fork publishes the child before it copies the row, pipe_create      *)
(* tests and sets used without cli, and sys_exec_pipe seeds the new row in *)
(* several steps.  Windows says which of these sequences a tick may split. *)
(***************************************************************************)
EXTENDS Integers, FiniteSets

CONSTANTS
    PROCESS_MAX, FD_PER_PROC, PIPE_MAX,
    Windows,  \* subset of {"fork", "pipe", "exec_pipe"}
    MaxRefs   \* bound: ends of pipes are handed on only below this count

\* A row has room for the two redirected ends of sys_exec_pipe.
ASSUME FdConstants ==
    /\ PROCESS_MAX \in Nat \ {0} /\ FD_PER_PROC \in Nat \ {0, 1} /\ PIPE_MAX \in Nat \ {0}
    /\ Windows \subseteq {"fork", "pipe", "exec_pipe"}
    /\ MaxRefs \in Nat

None == -1
Slots == 0 .. PROCESS_MAX - 1
Fds == 0 .. FD_PER_PROC - 1
Pipes == 0 .. PIPE_MAX - 1
Ends == {"read", "write"}

VARIABLES
    state,      \* process_table[s].state: "UNUSED", "BLOCKED" or "READY"
    row,        \* fd_table[s][j]: what it names
    used,       \* pipe_table[i].used
    refs,       \* refs[i]["read"], refs[i]["write"]
    pc, obj,    \* the call a process is in; the slot or pipe it works on
    idx,        \* sys_fork's loop counter
    src,        \* the two fds sys_exec_pipe hands on, None for no redirect
    killed      \* a process was ended by sys_kill

vars == <<state, row, used, refs, pc, obj, idx, src, killed>>
pipes == <<used, refs>>
locals == <<pc, obj, idx, src>>

\* A descriptor: !used, a file, or an end of pipe i.
Free == [end |-> "free", pipe |-> None]
File == [end |-> "file", pipe |-> None]
PipeEnd(e, i) == [end |-> e, pipe |-> i]
Descriptors == {Free, File} \cup {PipeEnd(e, i) : e \in Ends, i \in Pipes}

\* The shell runs in slot 0 with nothing open.
Init ==
    /\ state = [s \in Slots |-> IF s = 0 THEN "READY" ELSE "UNUSED"]
    /\ row = [s \in Slots |-> [j \in Fds |-> Free]]
    /\ used = [i \in Pipes |-> FALSE]
    /\ refs = [i \in Pipes |-> [e \in Ends |-> 0]]
    /\ pc = [s \in Slots |-> "user"]
    /\ obj = [s \in Slots |-> None]
    /\ idx = [s \in Slots |-> 0]
    /\ src = [s \in Slots |-> <<None, None>>]
    /\ killed = FALSE

FreeSlot(i) == state[i] = "UNUSED" /\ \A k \in Slots : k < i => state[k] # "UNUSED"
FreeFd(s, j) == row[s][j] = Free /\ \A k \in Fds : k < j => row[s][k] # Free
FreePipe(i) == ~used[i] /\ \A k \in Pipes : k < i => used[k]

\* s has the CPU: no other process is in a sequence that is never split.
At(s, where) ==
    /\ state[s] = "READY"
    /\ pc[s] = where
    /\ \A t \in Slots \ {s} :
          /\ pc[t] = "pipe" => "pipe" \in Windows
          /\ pc[t] = "seed" => "exec_pipe" \in Windows
          /\ pc[t] \in {"fork_copy", "fork_dup"} => "fork" \in Windows

Return(s) ==
    /\ pc' = [pc EXCEPT ![s] = "user"]
    /\ obj' = [obj EXCEPT ![s] = None]
    /\ idx' = [idx EXCEPT ![s] = 0]
    /\ src' = [src EXCEPT ![s] = <<None, None>>]

-----------------------------------------------------------------------------
(* vfs_close and vfs_dup.                                                  *)

\* The counts after vfs_close of the fds D of row s: each pipe_release_read or
\* pipe_release_write takes one off, down to 0.
Released(s, D) ==
    [i \in Pipes |-> [e \in Ends |->
        LET n == refs[i][e] - Cardinality({j \in D : row[s][j] = PipeEnd(e, i)})
        IN IF n > 0 THEN n ELSE 0]]

\* vfs_close of those descriptors; a pipe that loses its last end is free.
CloseAll(s, D) ==
    /\ row' = [row EXCEPT ![s] = [j \in Fds |-> IF j \in D THEN Free ELSE row[s][j]]]
    /\ refs' = Released(s, D)
    /\ used' = [i \in Pipes |->
                  used[i] /\ ~(/\ \E j \in D : row[s][j].end \in Ends /\ row[s][j].pipe = i
                               /\ refs'[i]["read"] = 0 /\ refs'[i]["write"] = 0)]

\* Mutant of Dup: a pipe end is copied like a file.
DupNothing(d) == UNCHANGED refs

\* vfs_dup of descriptor d.
Dup(d) ==
    refs' = IF d.end \in Ends THEN [refs EXCEPT ![d.pipe][d.end] = @ + 1] ELSE refs

-----------------------------------------------------------------------------
(* Opening and closing.                                                    *)

\* sys_pipe: pipe_create has found an unused slot.
PipeScan(s) ==
    /\ At(s, "user")
    /\ \E i \in Pipes : FreePipe(i) /\ obj' = [obj EXCEPT ![s] = i]
    /\ pc' = [pc EXCEPT ![s] = "pipe"]
    /\ UNCHANGED <<state, row, pipes, idx, src, killed>>

\* It claims the slot, and both ends go into the first two free fds.
PipeFill(s) ==
    /\ At(s, "pipe")
    /\ used' = [used EXCEPT ![obj[s]] = TRUE]
    /\ refs' = [refs EXCEPT ![obj[s]] = [e \in Ends |-> 1]]
    /\ \E j, k \in Fds :
          /\ FreeFd(s, j)
          /\ k # j /\ row[s][k] = Free /\ \A l \in Fds \ {j} : l < k => row[s][l] # Free
          /\ row' = [row EXCEPT ![s][j] = PipeEnd("read", obj[s]),
                                ![s][k] = PipeEnd("write", obj[s])]
    /\ Return(s)
    /\ UNCHANGED <<state, killed>>

\* Fewer than two free fds, or a bad user pointer: everything is released.
PipeFail(s) ==
    /\ At(s, "pipe")
    /\ refs' = [refs EXCEPT ![obj[s]] = [e \in Ends |-> 0]]
    /\ used' = [used EXCEPT ![obj[s]] = FALSE]
    /\ Return(s)
    /\ UNCHANGED <<state, row, killed>>

\* sys_open or sys_create finds the file and takes the first free fd.
Open(s) ==
    /\ At(s, "user")
    /\ \E j \in Fds : FreeFd(s, j) /\ row' = [row EXCEPT ![s][j] = File]
    /\ UNCHANGED <<state, pipes, locals, killed>>

\* sys_close.
Close(s, j) ==
    /\ At(s, "user")
    /\ row[s][j] # Free
    /\ CloseAll(s, {j})
    /\ UNCHANGED <<state, locals, killed>>

-----------------------------------------------------------------------------
(* New processes.                                                          *)

\* A killed process's ends stay counted, so the counts have no bound of their own.
Bounded == \A i \in Pipes, e \in Ends : refs[i][e] < MaxRefs

\* sys_exec: the new slot's row is what its last owner left.
Exec(s) ==
    /\ At(s, "user")
    /\ \E i \in Slots : FreeSlot(i) /\ state' = [state EXCEPT ![i] = "READY"]
    /\ UNCHANGED <<row, pipes, locals, killed>>

\* sys_exec_pipe with stdin_fd a and stdout_fd b: the new slot starts BLOCKED.
ExecPipe(s, a, b) ==
    /\ At(s, "user")
    /\ Bounded
    /\ a # None => row[s][a] # Free
    /\ b # None => row[s][b] # Free
    /\ \E i \in Slots :
          /\ FreeSlot(i)
          /\ state' = [state EXCEPT ![i] = "BLOCKED"]
          /\ obj' = [obj EXCEPT ![s] = i]
    /\ src' = [src EXCEPT ![s] = <<a, b>>]
    /\ pc' = [pc EXCEPT ![s] = "seed"]
    /\ idx' = [idx EXCEPT ![s] = 1]
    /\ UNCHANGED <<row, pipes, killed>>

\* Its row is seeded: first stdin, then stdout, each in the first free fd.
Seed(s) ==
    /\ At(s, "seed")
    /\ idx[s] <= 2
    /\ LET from == src[s][idx[s]]
       IN IF from = None THEN UNCHANGED <<row, refs>>
          ELSE \E j \in Fds :
                  /\ FreeFd(obj[s], j)
                  /\ row' = [row EXCEPT ![obj[s]][j] = row[s][from]]
                  /\ Dup(row[s][from])
    /\ idx' = [idx EXCEPT ![s] = @ + 1]
    /\ UNCHANGED <<state, used, pc, obj, src, killed>>

\* No free fd in the new row: process_exit on the new process.
SeedFail(s) ==
    /\ At(s, "seed")
    /\ idx[s] <= 2
    /\ src[s][idx[s]] # None
    /\ \A j \in Fds : row[obj[s]][j] # Free
    /\ state' = [state EXCEPT ![obj[s]] = "UNUSED"]
    /\ Return(s)
    /\ UNCHANGED <<row, pipes, killed>>

\* process_make_ready.
SeedDone(s) ==
    /\ At(s, "seed")
    /\ idx[s] > 2
    /\ state' = [state EXCEPT ![obj[s]] = IF @ = "BLOCKED" THEN "READY" ELSE @]
    /\ Return(s)
    /\ UNCHANGED <<row, pipes, killed>>

\* sys_fork: process_fork has made the child READY; the row copy starts.
Fork(s) ==
    /\ At(s, "user")
    /\ Bounded
    /\ \E i \in Slots :
          /\ FreeSlot(i)
          /\ state' = [state EXCEPT ![i] = "READY"]
          /\ obj' = [obj EXCEPT ![s] = i]
    /\ pc' = [pc EXCEPT ![s] = "fork_copy"]
    /\ UNCHANGED <<row, pipes, idx, src, killed>>

\* fd_table[child][j] = fd_table[parent][j].
ForkCopy(s) ==
    /\ At(s, "fork_copy")
    /\ row' = [row EXCEPT ![obj[s]][idx[s]] = row[s][idx[s]]]
    /\ pc' = [pc EXCEPT ![s] = "fork_dup"]
    /\ UNCHANGED <<state, pipes, obj, idx, src, killed>>

\* vfs_dup(&fd_table[child][j]); after the last one the call returns.
ForkDup(s) ==
    /\ At(s, "fork_dup")
    /\ Dup(row[obj[s]][idx[s]])
    /\ IF idx[s] = FD_PER_PROC - 1 THEN Return(s)
       ELSE /\ pc' = [pc EXCEPT ![s] = "fork_copy"]
            /\ idx' = [idx EXCEPT ![s] = @ + 1]
            /\ UNCHANGED <<obj, src>>
    /\ UNCHANGED <<state, row, used, killed>>

-----------------------------------------------------------------------------
(* Ended processes.                                                        *)

\* Mutant of Exit: the rows are cleared behind vfs_close's back, as sys_exit
\* did before pipes.
ExitNoClose(s) ==
    /\ At(s, "user")
    /\ row' = [row EXCEPT ![s] = [j \in Fds |-> Free]]
    /\ state' = [state EXCEPT ![s] = "UNUSED"]
    /\ UNCHANGED <<pipes, locals, killed>>

\* Mutant of Exit: descriptors stay open.
ExitKeepsRow(s) ==
    /\ At(s, "user")
    /\ state' = [state EXCEPT ![s] = "UNUSED"]
    /\ UNCHANGED <<row, pipes, locals, killed>>

\* sys_exit: vfs_close of every used fd, then process_exit.
Exit(s) ==
    /\ At(s, "user")
    /\ CloseAll(s, {j \in Fds : row[s][j] # Free})
    /\ state' = [state EXCEPT ![s] = "UNUSED"]
    /\ UNCHANGED <<locals, killed>>

\* sys_kill of another process: process_exit only, the row stays as it is.  Bound:
\* one kill in a behaviour.
Kill(s, v) ==
    /\ At(s, "user")
    /\ ~killed
    /\ v # s /\ state[v] # "UNUSED"
    /\ state' = [state EXCEPT ![v] = "UNUSED"]
    /\ Return(v)
    /\ killed' = TRUE
    /\ UNCHANGED <<row, pipes>>

Next ==
    \E s \in Slots :
        \/ PipeScan(s) \/ PipeFill(s) \/ PipeFail(s) \/ Open(s)
        \/ \E j \in Fds : Close(s, j)
        \/ Exec(s) \/ Seed(s) \/ SeedFail(s) \/ SeedDone(s)
        \/ \E a, b \in Fds \cup {None} : ExecPipe(s, a, b)
        \/ Fork(s) \/ ForkCopy(s) \/ ForkDup(s)
        \/ Exit(s) \/ \E v \in Slots : Kill(s, v)

Spec == Init /\ [][Next]_vars

-----------------------------------------------------------------------------
\* Type invariant.
TypeOK ==
    /\ state \in [Slots -> {"UNUSED", "BLOCKED", "READY"}]
    /\ row \in [Slots -> [Fds -> Descriptors]]
    /\ used \in [Pipes -> BOOLEAN]
    /\ refs \in [Pipes -> [Ends -> Nat]]
    /\ pc \in [Slots -> {"user", "pipe", "seed", "fork_copy", "fork_dup"}]
    /\ obj \in [Slots -> Slots \cup Pipes \cup {None}]
    /\ \A s \in Slots :
          /\ pc[s] = "user" => obj[s] = None
          /\ pc[s] = "pipe" => obj[s] \in Pipes
          /\ pc[s] \in {"seed", "fork_copy", "fork_dup"} => obj[s] \in Slots
    /\ idx \in [Slots -> 0 .. FD_PER_PROC + 2]
    /\ src \in [Slots -> (Fds \cup {None}) \X (Fds \cup {None})]
    /\ killed \in BOOLEAN

\* docs/pipes.md: a pipe is freed only when both counts reach 0, so an end that
\* a live process holds names a used pipe and is counted.
HeldEndIsOpen ==
    \A s \in Slots, j \in Fds :
        state[s] # "UNUSED" /\ row[s][j].end \in Ends =>
            /\ used[row[s][j].pipe]
            /\ refs[row[s][j].pipe][row[s][j].end] > 0

Entries(e, i) ==
    Cardinality({p \in Slots \X Fds : row[p[1]][p[2]] = PipeEnd(e, i)})

\* docs/pipes.md: the counts say how many fd_table entries across all processes
\* name each end.  It is exact whenever no call is under way, until a sys_kill.
RefsAreEntries ==
    ~killed /\ (\A s \in Slots : pc[s] = "user") =>
        \A i \in Pipes, e \in Ends : refs[i][e] = Entries(e, i)

\* A slot that is free has nothing open, so its next owner starts with an empty
\* row and sys_exec_pipe always finds room in it, until a sys_kill.
FreeSlotIsClosed ==
    ~killed => \A s \in Slots, j \in Fds : state[s] = "UNUSED" => row[s][j] = Free
=============================================================================
