----------------------------- MODULE MCProcess -----------------------------
(***************************************************************************)
(* Instances of Process for TLC: three slots, so that a process waits, or  *)
(* builds a child of its own, while another one builds or exits, and slots *)
(* are used again.  Slot 0 starts as the shell.                            *)
(***************************************************************************)
EXTENDS Process

\* Every process ends by its own sys_exit, and memory suffices.
Orderly == {"fork", "exec", "exec_pipe", "wait"}

\* Every system call and every failure.
EveryOp == AllOps

\* Programs that fork and exit.
ForkOnly == {"fork"}

\* All that the steps and the checked properties read: no step tests
\* g_syscall_frame or frame, so states that differ only there behave alike.
WithoutFrames == <<table, current, pc, obj, arg, built>>
=============================================================================
