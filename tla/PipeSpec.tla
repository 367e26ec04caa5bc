------------------------------ MODULE PipeSpec ------------------------------
(***************************************************************************)
(* What a pipe promises its users (kernel/pipe.h): a bounded FIFO of bytes *)
(* between the holders of its two ends.  A read returns as soon as there   *)
(* is a byte, and end-of-file only when the pipe is empty and no write end *)
(* is left; a write delivers all its bytes, and fails only when no read    *)
(* end is left.  There is no ring, no waiter and no blocked process here.  *)
(* A byte is its number in the stream.                                     *)
(***************************************************************************)
EXTENDS Integers, Sequences, FiniteSets

CONSTANTS
    Procs,          \* processes
    PIPE_BUF_SIZE,  \* capacity in bytes
    MaxLen,         \* bound: longest read or write
    MaxBytes        \* bound: bytes sent through one pipe

VARIABLES
    open,              \* the pipe exists
    queue,             \* bytes in flight
    sent,              \* number of bytes accepted so far
    readers, writers,  \* holders of the two ends
    op, left,          \* the call a process is in; bytes still to read or write
    result, got        \* how its last call ended; the bytes the last read gave

vars == <<open, queue, sent, readers, writers, op, left, result, got>>
calls == <<op, left, result, got>>

Init ==
    /\ open = FALSE
    /\ queue = <<>>
    /\ sent = 0
    /\ readers = {} /\ writers = {}
    /\ op = [p \in Procs |-> "none"]
    /\ left = [p \in Procs |-> 0]
    /\ result = [p \in Procs |-> "none"]
    /\ got = <<>>

Create(p) ==
    /\ ~open /\ op[p] = "none"
    /\ open' = TRUE
    /\ queue' = <<>> /\ sent' = 0
    /\ readers' = {p} /\ writers' = {p}
    /\ UNCHANGED calls

\* Ends are handed on and given up; the pipe goes with its last end.
DupRead(p, q) ==
    /\ p \in readers /\ q \notin readers
    /\ readers' = readers \cup {q}
    /\ UNCHANGED <<open, queue, sent, writers, calls>>

DupWrite(p, q) ==
    /\ p \in writers /\ q \notin writers
    /\ writers' = writers \cup {q}
    /\ UNCHANGED <<open, queue, sent, readers, calls>>

CloseRead(p) ==
    /\ p \in readers /\ op[p] = "none"
    /\ readers' = readers \ {p}
    /\ open' = (readers' # {} \/ writers # {})
    /\ UNCHANGED <<queue, sent, writers, calls>>

CloseWrite(p) ==
    /\ p \in writers /\ op[p] = "none"
    /\ writers' = writers \ {p}
    /\ open' = (writers' # {} \/ readers # {})
    /\ UNCHANGED <<queue, sent, readers, calls>>

\* One reader and one writer at a time: the documented scope of a pipe.
Call(p, what, n) ==
    /\ op[p] = "none"
    /\ \A q \in Procs : op[q] # what
    /\ op' = [op EXCEPT ![p] = what]
    /\ left' = [left EXCEPT ![p] = n]
    /\ result' = [result EXCEPT ![p] = "none"]
    /\ UNCHANGED <<open, queue, sent, readers, writers, got>>

ReadCall(p, n) == p \in readers /\ Call(p, "read", n)
WriteCall(p, n) == p \in writers /\ sent + n <= MaxBytes /\ Call(p, "write", n)

Finish(p, r) ==
    /\ op' = [op EXCEPT ![p] = "none"]
    /\ left' = [left EXCEPT ![p] = 0]
    /\ result' = [result EXCEPT ![p] = r]

\* A read takes as many bytes as it asked for, or all there are.
Read(p) ==
    /\ op[p] = "read"
    /\ queue # <<>>
    /\ LET n == IF left[p] < Len(queue) THEN left[p] ELSE Len(queue)
       IN /\ got' = SubSeq(queue, 1, n)
          /\ queue' = SubSeq(queue, n + 1, Len(queue))
    /\ Finish(p, "data")
    /\ UNCHANGED <<open, sent, readers, writers>>

Eof(p) ==
    /\ op[p] = "read"
    /\ queue = <<>> /\ writers = {}
    /\ Finish(p, "eof")
    /\ UNCHANGED <<open, queue, sent, readers, writers, got>>

\* Some of the bytes a write still has to deliver are accepted, in order.
Accept(p) ==
    /\ op[p] = "write"
    /\ readers # {}
    /\ \E n \in 1 .. left[p] :
          /\ Len(queue) + n <= PIPE_BUF_SIZE
          /\ queue' = queue \o [k \in 1 .. n |-> sent + k]
          /\ sent' = sent + n
          /\ IF n = left[p] THEN Finish(p, "ok")
             ELSE /\ left' = [left EXCEPT ![p] = @ - n]
                  /\ UNCHANGED <<op, result>>
    /\ UNCHANGED <<open, readers, writers, got>>

Broken(p) ==
    /\ op[p] = "write"
    /\ readers = {}
    /\ Finish(p, "broken")
    /\ UNCHANGED <<open, queue, sent, readers, writers, got>>

Progress(p) == Read(p) \/ Eof(p) \/ Accept(p) \/ Broken(p)

Next ==
    \E p \in Procs :
        \/ Create(p) \/ CloseRead(p) \/ CloseWrite(p) \/ Progress(p)
        \/ \E q \in Procs : DupRead(p, q) \/ DupWrite(p, q)
        \/ \E n \in 1 .. MaxLen : ReadCall(p, n) \/ WriteCall(p, n)

\* What no pipe may do.
Safety == Init /\ [][Next]_vars

\* A call that can return or advance does.
Spec == Safety /\ \A p \in Procs : WF_vars(Progress(p))
=============================================================================
