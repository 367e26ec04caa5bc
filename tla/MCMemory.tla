----------------------------- MODULE MCMemory -----------------------------
(* Twenty-two pages: three address spaces and a half-built one, or four    *)
(* small ones, fill them.                                                  *)
EXTENDS Memory

MCVirt == {1, 2, 3}
MCPde == [v \in MCVirt |-> IF v = 3 THEN 2 ELSE 1]
MCStack == <<3>>
MCStores == {{1, 3}}
MCShell == [name |-> "shell", disk |-> FALSE, size |-> 0, valid |-> TRUE, pages |-> <<1>>]
Hello == [name |-> "hello", disk |-> TRUE, size |-> 2, valid |-> TRUE, pages |-> <<1, 2>>]
NotElf == [name |-> "text", disk |-> TRUE, size |-> 1, valid |-> FALSE, pages |-> <<1>>]
MCPrograms == {MCShell, Hello, NotElf}
===========================================================================
