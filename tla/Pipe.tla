-------------------------------- MODULE Pipe --------------------------------
(***************************************************************************)
(* One slot of pipe_table (kernel/pipe.c): a ring buffer, the reference    *)
(* counts of its two ends and one waiter per direction.  Every pass of the *)
(* loops of pipe_read and pipe_write runs between cli and sti, so it is    *)
(* one step; a BLOCKED process takes no step until someone makes it READY  *)
(* again.  A byte is its number in the stream, so the order of delivery    *)
(* can be seen.                                                            *)
(***************************************************************************)
EXTENDS Integers, FiniteSets

CONSTANTS
    Procs,          \* processes
    NoProc,         \* the null waiter pointer
    PIPE_BUF_SIZE,  \* 512 in pipe.h
    MaxLen,         \* bound: longest read or write (128 in syscall.c)
    MaxBytes        \* bound: bytes sent through one pipe

ASSUME PipeConstants ==
    /\ IsFiniteSet(Procs)
    /\ NoProc \notin Procs
    /\ PIPE_BUF_SIZE \in Nat \ {0}
    /\ MaxLen \in Nat
    /\ MaxBytes \in Nat

VARIABLES
    buf, head, tail, count, used,  \* fields of pipe_t
    read_refs, write_refs,
    read_waiter, write_waiter,
    state,             \* process state: "READY" (or running) or "BLOCKED"
    readers, writers,  \* processes whose fd row has the read or write end
    op, left,          \* the call a process is in; bytes still to read or write
    result, got,       \* how its last call ended; the bytes the last read gave
    sent               \* number of bytes written so far

ring == <<buf, head, tail, count>>
refs == <<used, read_refs, write_refs, readers, writers>>
calls == <<op, left, result>>
vars == <<ring, refs, read_waiter, write_waiter, state, calls, got, sent>>

Index == 0 .. PIPE_BUF_SIZE - 1
Min2(a, b) == IF a < b THEN a ELSE b

Init ==
    /\ buf = [i \in Index |-> 0]
    /\ head = 0 /\ tail = 0 /\ count = 0
    /\ used = FALSE
    /\ read_refs = 0 /\ write_refs = 0
    /\ read_waiter = NoProc /\ write_waiter = NoProc
    /\ state = [p \in Procs |-> "READY"]
    /\ readers = {} /\ writers = {}
    /\ op = [p \in Procs |-> "none"]
    /\ left = [p \in Procs |-> 0]
    /\ result = [p \in Procs |-> "none"]
    /\ got = <<>>
    /\ sent = 0

\* p runs kernel or user code; a BLOCKED process does not.
Runs(p, what) == state[p] = "READY" /\ op[p] = what

\* if (w->state == PROCESS_BLOCKED) w->state = PROCESS_READY.
Wake(w) ==
    state' = [p \in Procs |-> IF p = w THEN "READY" ELSE state[p]]

-----------------------------------------------------------------------------
(* The ends of the pipe.                                                   *)

\* pipe_create, called by sys_pipe.
Create(p) ==
    /\ Runs(p, "none")
    /\ ~used
    /\ head' = 0 /\ tail' = 0 /\ count' = 0
    /\ used' = TRUE
    /\ read_refs' = 1 /\ write_refs' = 1
    /\ read_waiter' = NoProc /\ write_waiter' = NoProc
    /\ readers' = {p} /\ writers' = {p}
    /\ sent' = 0
    /\ UNCHANGED <<buf, state, calls, got>>

\* vfs_dup of a read end into q's row: pipe_add_read_ref.
DupRead(p, q) ==
    /\ Runs(p, "none")
    /\ p \in readers /\ q \notin readers
    /\ readers' = readers \cup {q}
    /\ read_refs' = read_refs + 1
    /\ UNCHANGED <<ring, used, write_refs, writers, read_waiter, write_waiter,
                   state, calls, got, sent>>

\* Mutant of DupWrite: the copied end is not counted.
DupWriteNoRef(p, q) ==
    /\ Runs(p, "none")
    /\ p \in writers /\ q \notin writers
    /\ writers' = writers \cup {q}
    /\ UNCHANGED <<ring, used, read_refs, write_refs, readers, read_waiter,
                   write_waiter, state, calls, got, sent>>

\* vfs_dup of a write end into q's row: pipe_add_write_ref.
DupWrite(p, q) ==
    /\ Runs(p, "none")
    /\ p \in writers /\ q \notin writers
    /\ writers' = writers \cup {q}
    /\ write_refs' = write_refs + 1
    /\ UNCHANGED <<ring, used, read_refs, readers, read_waiter, write_waiter,
                   state, calls, got, sent>>

\* vfs_close of a read end: pipe_release_read.
CloseRead(p) ==
    /\ Runs(p, "none")
    /\ p \in readers
    /\ readers' = readers \ {p}
    /\ read_refs' = IF read_refs > 0 THEN read_refs - 1 ELSE 0
    /\ IF read_refs' = 0
       THEN Wake(write_waiter) /\ write_waiter' = NoProc
       ELSE UNCHANGED <<state, write_waiter>>
    /\ used' = (used /\ ~(read_refs' = 0 /\ write_refs = 0))
    /\ UNCHANGED <<ring, write_refs, writers, read_waiter, calls, got, sent>>

\* Mutant of CloseWrite: the last writer leaves without waking the reader.
CloseWriteSilent(p) ==
    /\ Runs(p, "none")
    /\ p \in writers
    /\ writers' = writers \ {p}
    /\ write_refs' = IF write_refs > 0 THEN write_refs - 1 ELSE 0
    /\ used' = (used /\ ~(read_refs = 0 /\ write_refs' = 0))
    /\ UNCHANGED <<ring, read_refs, readers, read_waiter, write_waiter, state,
                   calls, got, sent>>

\* vfs_close of a write end: pipe_release_write.
CloseWrite(p) ==
    /\ Runs(p, "none")
    /\ p \in writers
    /\ writers' = writers \ {p}
    /\ write_refs' = IF write_refs > 0 THEN write_refs - 1 ELSE 0
    /\ IF write_refs' = 0
       THEN Wake(read_waiter) /\ read_waiter' = NoProc
       ELSE UNCHANGED <<state, read_waiter>>
    /\ used' = (used /\ ~(read_refs = 0 /\ write_refs' = 0))
    /\ UNCHANGED <<ring, read_refs, readers, write_waiter, calls, got, sent>>

-----------------------------------------------------------------------------
(* pipe_read and pipe_write.                                               *)

\* A process enters the call.  docs/pipes.md allows one waiter per direction,
\* so at most one process at a time is in each of the two calls.
Call(p, what, n) ==
    /\ Runs(p, "none")
    /\ \A q \in Procs : op[q] # what
    /\ op' = [op EXCEPT ![p] = what]
    /\ left' = [left EXCEPT ![p] = n]
    /\ result' = [result EXCEPT ![p] = "none"]
    /\ UNCHANGED <<ring, refs, read_waiter, write_waiter, state, got, sent>>

ReadCall(p, n) == p \in readers /\ Call(p, "read", n)
WriteCall(p, n) == p \in writers /\ sent + n <= MaxBytes /\ Call(p, "write", n)

Finish(p, r) ==
    /\ op' = [op EXCEPT ![p] = "none"]
    /\ left' = [left EXCEPT ![p] = 0]
    /\ result' = [result EXCEPT ![p] = r]

\* Mutant of ReadSome: it reads from head, the place of the next write.
ReadSomeAtHead(p) ==
    /\ Runs(p, "read")
    /\ count > 0
    /\ LET n == Min2(left[p], count)
       IN /\ got' = [k \in 1 .. n |-> buf[(head + k - 1) % PIPE_BUF_SIZE]]
          /\ tail' = (tail + n) % PIPE_BUF_SIZE
          /\ count' = count - n
    /\ Wake(write_waiter)
    /\ write_waiter' = NoProc
    /\ Finish(p, "data")
    /\ UNCHANGED <<buf, head, refs, read_waiter, sent>>

\* count > 0: copy out, wake a writer blocked on a full buffer, return.
ReadSome(p) ==
    /\ Runs(p, "read")
    /\ count > 0
    /\ LET n == Min2(left[p], count)
       IN /\ got' = [k \in 1 .. n |-> buf[(tail + k - 1) % PIPE_BUF_SIZE]]
          /\ tail' = (tail + n) % PIPE_BUF_SIZE
          /\ count' = count - n
    /\ Wake(write_waiter)
    /\ write_waiter' = NoProc
    /\ Finish(p, "data")
    /\ UNCHANGED <<buf, head, refs, read_waiter, sent>>

\* Empty and no write end left.
ReadEof(p) ==
    /\ Runs(p, "read")
    /\ count = 0
    /\ write_refs = 0
    /\ Finish(p, "eof")
    /\ UNCHANGED <<ring, refs, read_waiter, write_waiter, state, got, sent>>

\* Empty: register as the waiter and block, in the same cli section.
ReadBlock(p) ==
    /\ Runs(p, "read")
    /\ count = 0
    /\ write_refs # 0
    /\ read_waiter' = p
    /\ state' = [state EXCEPT ![p] = "BLOCKED"]
    /\ UNCHANGED <<ring, refs, write_waiter, calls, got, sent>>

\* No read end left, even in the middle of a write.
WriteBroken(p) ==
    /\ Runs(p, "write")
    /\ read_refs = 0
    /\ Finish(p, "broken")
    /\ UNCHANGED <<ring, refs, read_waiter, write_waiter, state, got, sent>>

\* Mutant of WriteSome: the head is not wrapped around the buffer's end but reset.
WriteSomeHeadReset(p) ==
    /\ Runs(p, "write")
    /\ read_refs # 0
    /\ count < PIPE_BUF_SIZE
    /\ LET n == Min2(left[p], PIPE_BUF_SIZE - count)
       IN /\ buf' = [i \in Index |->
                        LET k == (i - head + PIPE_BUF_SIZE) % PIPE_BUF_SIZE
                        IN IF k < n THEN sent + k + 1 ELSE buf[i]]
          /\ head' = IF head + n >= PIPE_BUF_SIZE THEN 0 ELSE head + n
          /\ count' = count + n
          /\ sent' = sent + n
          /\ IF n = left[p] THEN Finish(p, "ok")
             ELSE /\ left' = [left EXCEPT ![p] = @ - n]
                  /\ UNCHANGED <<op, result>>
    /\ Wake(read_waiter)
    /\ read_waiter' = NoProc
    /\ UNCHANGED <<tail, refs, write_waiter, got>>

\* Room: copy in what fits, wake a reader blocked on an empty buffer; the call
\* returns when everything is written, otherwise the loop goes on.
WriteSome(p) ==
    /\ Runs(p, "write")
    /\ read_refs # 0
    /\ count < PIPE_BUF_SIZE
    /\ LET n == Min2(left[p], PIPE_BUF_SIZE - count)
       IN /\ buf' = [i \in Index |->
                        LET k == (i - head + PIPE_BUF_SIZE) % PIPE_BUF_SIZE
                        IN IF k < n THEN sent + k + 1 ELSE buf[i]]
          /\ head' = (head + n) % PIPE_BUF_SIZE
          /\ count' = count + n
          /\ sent' = sent + n
          /\ IF n = left[p] THEN Finish(p, "ok")
             ELSE /\ left' = [left EXCEPT ![p] = @ - n]
                  /\ UNCHANGED <<op, result>>
    /\ Wake(read_waiter)
    /\ read_waiter' = NoProc
    /\ UNCHANGED <<tail, refs, write_waiter, got>>

\* Full: register as the waiter and block.
WriteBlock(p) ==
    /\ Runs(p, "write")
    /\ read_refs # 0
    /\ count = PIPE_BUF_SIZE
    /\ write_waiter' = p
    /\ state' = [state EXCEPT ![p] = "BLOCKED"]
    /\ UNCHANGED <<ring, refs, read_waiter, calls, got, sent>>

InCall(p) ==
    \/ ReadSome(p) \/ ReadEof(p) \/ ReadBlock(p)
    \/ WriteBroken(p) \/ WriteSome(p) \/ WriteBlock(p)

-----------------------------------------------------------------------------
Next ==
    \E p \in Procs :
        \/ Create(p) \/ CloseRead(p) \/ CloseWrite(p) \/ InCall(p)
        \/ \E q \in Procs : DupRead(p, q) \/ DupWrite(p, q)
        \/ \E n \in 1 .. MaxLen : ReadCall(p, n) \/ WriteCall(p, n)

Spec == Init /\ [][Next]_vars

\* A READY process gets the CPU (module Scheduler), so a call goes on.
FairSpec == Spec /\ \A p \in Procs : WF_vars(InCall(p))

-----------------------------------------------------------------------------
\* Type invariant.
TypeOK ==
    /\ buf \in [Index -> Nat]
    /\ head \in Index /\ tail \in Index
    /\ count \in 0 .. PIPE_BUF_SIZE
    /\ used \in BOOLEAN
    /\ read_refs \in Nat /\ write_refs \in Nat
    /\ read_waiter \in Procs \cup {NoProc} /\ write_waiter \in Procs \cup {NoProc}
    /\ state \in [Procs -> {"READY", "BLOCKED"}]
    /\ readers \subseteq Procs /\ writers \subseteq Procs
    /\ op \in [Procs -> {"none", "read", "write"}]
    /\ left \in [Procs -> 0 .. MaxLen]
    /\ result \in [Procs -> {"none", "data", "eof", "ok", "broken"}]
    /\ sent \in Nat

\* The ring never loses its place: head is count bytes ahead of tail, and the
\* bytes between them are the last count bytes written, in order.
FifoContents ==
    /\ head = (tail + count) % PIPE_BUF_SIZE
    /\ \A k \in 0 .. count - 1 :
          buf[(tail + k) % PIPE_BUF_SIZE] = sent - count + k + 1

\* docs/pipes.md: read_refs and write_refs count the fd entries that name each
\* end, and the slot is free exactly when there are none.
RefsMatch ==
    /\ read_refs = Cardinality(readers)
    /\ write_refs = Cardinality(writers)
    /\ used <=> readers # {} \/ writers # {}

\* pipe.c: a wakeup that becomes available between the check and the block can
\* never be lost.  A process blocked in pipe_read is the registered waiter of a
\* pipe that is still empty and still has a writer; likewise for pipe_write.
NoLostWakeup ==
    \A p \in Procs : state[p] = "BLOCKED" =>
        \/ op[p] = "read" /\ read_waiter = p /\ count = 0 /\ write_refs # 0
        \/ op[p] = "write" /\ write_waiter = p /\ count = PIPE_BUF_SIZE /\ read_refs # 0

\* The bytes in flight, oldest first.
Contents == [k \in 1 .. count |-> buf[(tail + k - 1) % PIPE_BUF_SIZE]]

Promise == INSTANCE PipeSpec WITH open <- used, queue <- Contents

\* The ring, the counts and the waiters implement the bounded FIFO of pipe.h,
\* with its end-of-file and broken-pipe rules, and no call that could go on
\* hangs (the fairness of PipeSpec).
ImplementsPipeSpec == Promise!Spec
=============================================================================
