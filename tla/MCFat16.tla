------------------------------ MODULE MCFat16 ------------------------------
(* A disk of four clusters under four names: two share one 8.3 name, and   *)
(* one has a space and is shown as another.                                *)
EXTENDS Fat16

Symm == Permutations(Fds)

Rel(c) == [abs |-> FALSE, comps |-> c]

MCNames == {".", "..", "A", "a", "D", "D E"}
MCTo83 == [n \in MCNames |-> IF n = "a" THEN "A" ELSE n]
MCShown == [n \in MCNames |-> IF n = "D E" THEN "D" ELSE n]
MCPaths == {Rel(<<"A">>), Rel(<<"D">>), Rel(<<"D E">>), Rel(<<"D", "a">>)}
MCDirPaths == {Rel(<<"D">>), Rel(<<"..">>), [abs |-> TRUE, comps |-> <<>>]}

Blank == [c \in Clusters |-> [i \in 1 .. Bpc |-> Junk]]
Copies(fat) == [k \in 1 .. NumFats |-> fat]

\* A freshly made disk.
EmptyDisk == [fat |-> Copies([c \in Clusters |-> Free]),
              root |-> [i \in 1 .. RootEntries |-> Empty], data |-> Blank]

\* File A, three units in clusters 3 and 2; an empty directory D in 4.
UsedDisk ==
    [fat |-> Copies([c \in Clusters |->
               CASE c = 3 -> 2 [] c \in {2, 4} -> Eoc [] OTHER -> Free]),
     root |-> [i \in 1 .. RootEntries |->
                 CASE i = 1 -> Entry("A", FALSE, 3, 3)
                   [] i = 2 -> Entry("D", TRUE, 4, 0) [] OTHER -> Empty],
     data |-> [Blank EXCEPT ![3] = <<Byte(1), Byte(2)>>, ![2] = <<Byte(3), Empty>>,
                            ![4] = <<Entry(".", TRUE, 4, 0), Entry("..", TRUE, 0, 0)>>]]

MCImages == {EmptyDisk, UsedDisk}

\* Nothing is claimed once a replacement or a mkdir was cut short.
NotTorn == ~torn
============================================================================
