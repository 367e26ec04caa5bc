------------------------------ MODULE Console ------------------------------
(***************************************************************************)
(* The keyboard (kernel/keyboard.c) and those who read it, on top of Boot: *)
(* sys_read's line loop and the shell's command loop (user/shell.c), the   *)
(* editor with its raw keys (user/edit.c), and the screens of Safe Mode    *)
(* (kernel/safemode.c).  The first keyboard read completes a boot, and a   *)
(* key leaves Safe Mode, so the two modules share those steps.             *)
(*                                                                         *)
(* An entry of a ring is the number the key was accepted under; what the   *)
(* key means is chosen when it is read.  One process reads at a time: the  *)
(* shell waits while the editor runs.                                      *)
(***************************************************************************)
EXTENDS Boot, Sequences

CONSTANTS
    KB_BUFFER_SIZE,
    LineMax          \* the shell's nos_read length

ASSUME ConsoleConstants == KB_BUFFER_SIZE \in Nat \ {0, 1} /\ LineMax \in Nat \ {0}

VARIABLES
    ring,      \* kb_buffer and kb_raw_buf with their head and tail
    due,       \* history: the number of the next key each ring must deliver
    fresh,     \* history: the number the next accepted key gets
    at,        \* who reads: the shell's line, the editor, or a flush of its
    n,         \* characters of the line so far
    stores,    \* the stores keyboard_flush has still to make
    screen,    \* Safe Mode's screen, or the step of tier2_init that comes next
    t2,        \* g_t2_stage and g_t2_fat_ready
    ready,     \* history: the parts that tier2_init has brought up
    redone     \* history: tier2_init ran the step of a part that was up

keyboard == <<ring, due, fresh>>
user == <<at, n, stores>>
safe == <<screen, t2, ready, redone>>
consoleVars == <<keyboard, user, safe>>

Rings == {"kb", "raw"}

\* Key numbers wrap around; old is a key typed to the program before.
Numbers == 2 * KB_BUFFER_SIZE
old == Numbers

EmptyRing == [buf |-> [i \in 0 .. KB_BUFFER_SIZE - 1 |-> old], head |-> 0, tail |-> 0]

NoKeys == [r \in Rings |-> EmptyRing]
Zero == [r \in Rings |-> 0]
NotStarted == [stage |-> 0, fat |-> FALSE]

\* What Safe Mode's second tier brings up, in order; the first three are T2_PMM,
\* T2_VMM and T2_HEAP, the values of g_t2_stage.
Parts == <<"pmm", "vmm", "heap", "fat">>

ConsoleInit ==
    /\ Init
    /\ ring = NoKeys /\ due = Zero /\ fresh = Zero
    /\ at = "line" /\ n = 0 /\ stores = {}
    /\ screen = "menu" /\ t2 = NotStarted /\ ready = {} /\ redone = FALSE

\* A crash reads no key any more, and a reset starts from nothing.
Lost ==
    /\ Exception \/ Reset
    /\ ring' = NoKeys /\ due' = Zero /\ fresh' = Zero
    /\ at' = "line" /\ n' = 0 /\ stores' = {}
    /\ screen' = "menu" /\ t2' = NotStarted /\ ready' = {} /\ redone' = FALSE

-----------------------------------------------------------------------------
(* keyboard.c.                                                             *)

\* The head after a key was offered: it moves unless the ring is full.
Push(r) == [r EXCEPT !.head = IF (@ + 1) % KB_BUFFER_SIZE = r.tail
                              THEN @ ELSE (@ + 1) % KB_BUFFER_SIZE]

\* keyboard_callback: every key goes to the raw ring, one that has a character
\* to the other ring too.
KeyIrq(rs) ==
    /\ pc \notin Handling \cup {"halted"}
    /\ LET accepted == {r \in rs : Push(ring[r]) # ring[r]}
       IN /\ ring' = [r \in Rings |->
                        IF r \in accepted
                        THEN [Push(ring[r]) EXCEPT !.buf[ring[r].head] = fresh[r]]
                        ELSE ring[r]]
          /\ fresh' = [r \in Rings |-> IF r \in accepted THEN (fresh[r] + 1) % Numbers ELSE fresh[r]]
    /\ UNCHANGED <<vars, due, user, safe>>

Ahead(rg) == (rg.head + KB_BUFFER_SIZE - rg.tail) % KB_BUFFER_SIZE

Pending(r) ==
    [i \in 1 .. Ahead(ring[r]) |-> ring[r].buf[(ring[r].tail + i - 1) % KB_BUFFER_SIZE]]

\* keyboard_getchar_nowait, keyboard_raw_nowait: a key is there and is taken.
Popped(r) == [ring EXCEPT ![r].tail = (@ + 1) % KB_BUFFER_SIZE]
Pop(r) ==
    /\ Ahead(ring[r]) > 0
    /\ ring' = Popped(r)
    /\ due' = [due EXCEPT ![r] = (@ + 1) % Numbers]
    /\ UNCHANGED fresh

-----------------------------------------------------------------------------
(* The shell and the editor, once the boot is complete.                    *)

\* Mutant: only the ring of characters is emptied.
FlushStoresKb == {<<"kb", "tail">>, <<"kb", "head">>}

\* The four stores of keyboard_flush, which the compiler may order freely.
FlushStores == {<<r, i>> : r \in Rings, i \in {"head", "tail"}}

\* A key of ring r ends the turn of the program that read it.  The next one
\* starts with a flush; what was typed before it was not meant for it.
HandOver(r, next) ==
    /\ Ahead(ring[r]) > 0
    /\ ring' = [q \in Rings |-> [Popped(r)[q] EXCEPT !.buf = [i \in DOMAIN @ |-> old]]]
    /\ due' = Zero /\ fresh' = Zero
    /\ at' = next /\ n' = 0 /\ stores' = FlushStores

\* One store, with interrupts on.  After the last one the editor runs, or has
\* exited and wakes the shell, and what a ring holds arrived during the flush.
FlushStore(s) ==
    /\ pc = "up" /\ s \in stores
    /\ stores' = stores \ {s}
    /\ ring' = [ring EXCEPT ![s[1]] = IF s[2] = "head" THEN [@ EXCEPT !.head = 0]
                                                       ELSE [@ EXCEPT !.tail = 0]]
    /\ at' = IF stores' # {} THEN at ELSE IF at = "edit_start" THEN "edit" ELSE "line"
    /\ due' = IF stores' # {} THEN due
              ELSE [r \in Rings |-> (fresh[r] + Numbers - Ahead(ring'[r])) % Numbers]
    /\ UNCHANGED <<vars, fresh, n, safe>>

\* sys_read takes a key: a backspace, a Ctrl+C (the shell prompts again), or a
\* character of the line.
ReadLine(c) ==
    /\ pc = "up" /\ at = "line"
    /\ Pop("kb")
    /\ n' = CASE c = "ctrl_c" -> 0
              [] c = "backspace" -> IF n > 0 THEN n - 1 ELSE 0
              [] OTHER -> n + 1
    /\ c = "other" => n + 1 < LineMax
    /\ UNCHANGED <<vars, at, stores, safe>>

\* The line is complete, with a newline or at its full length: the shell runs
\* the command and prompts again, or starts the editor and waits for it.
Command ==
    /\ pc = "up" /\ at = "line"
    /\ \/ Pop("kb") /\ n' = 0 /\ UNCHANGED <<at, stores>>
       \/ n > 0 /\ HandOver("kb", "edit_start")
    /\ UNCHANGED <<vars, safe>>

\* The editor's raw key: Ctrl+Q leaves it.
EditKey ==
    /\ pc = "up" /\ at = "edit"
    /\ Pop("raw")
    /\ UNCHANGED <<vars, user, safe>>

EditQuit ==
    /\ pc = "up" /\ at = "edit"
    /\ HandOver("raw", "edit_exit")
    /\ UNCHANGED <<vars, safe>>

-----------------------------------------------------------------------------
(* Safe Mode's screens.                                                    *)

\* read_key on one screen, which leads to another.
Screen(from, to) ==
    /\ pc = "safe" /\ screen = from
    /\ Pop("kb")
    /\ screen' = to
    /\ UNCHANGED <<vars, user, t2, ready, redone>>

\* The keys of the menus and of the screens that wait for any key.  A failed
\* sector read goes back to the number; any other key leaves a screen as it is.
Browse ==
    \/ \E s \in {"menu", "reboot", "lba", "shell"} : Screen(s, s)
    \/ \E s \in {"reboot", "any", "lba", "shell", "page_2"} : Screen(s, "menu")
    \/ \E s \in {"reboot", "any", "lba"} : Screen("menu", s)
    \/ \E s \in {"any_lba", "page_1"} : Screen("lba", s)
    \/ Screen("any_lba", "lba") \/ Screen("page_1", "page_2")
    \/ Screen("any_reboot", "reboot")

\* screen_shell: the restricted shell opens at once or after tier2_init.
OpenShell ==
    /\ pc = "safe" /\ screen = "menu"
    /\ Pop("kb")
    /\ screen' = IF t2.stage = 3 /\ t2.fat THEN "shell" ELSE Parts[1]
    /\ UNCHANGED <<vars, user, t2, ready, redone>>

\* Mutant: g_t2_stage <= T2_..., the last step done is done again.
MissingAgain(i) == IF i <= 3 THEN t2.stage <= i ELSE ~t2.fat

\* The conditions of the four ifs in tier2_init.
Missing(i) == IF i <= 3 THEN t2.stage < i ELSE ~t2.fat

\* Step i of tier2_init, which succeeds or not.  It is skipped when its part is
\* up; a failure ends tier2_init.  vmm_init cannot fail.
Tier2(i, ok) ==
    /\ pc = "safe" /\ screen = Parts[i]
    /\ ~Missing(i) \/ Parts[i] = "vmm" => ok
    /\ screen' = IF ~ok THEN "any" ELSE IF i < 4 THEN Parts[i + 1] ELSE "shell"
    /\ t2' = IF ~ok \/ ~Missing(i) THEN t2
             ELSE IF i <= 3 THEN [t2 EXCEPT !.stage = i] ELSE [t2 EXCEPT !.fat = TRUE]
    /\ ready' = IF ok /\ Missing(i) THEN ready \cup {Parts[i]} ELSE ready
    /\ redone' = (redone \/ (Missing(i) /\ Parts[i] \in ready))
    /\ UNCHANGED <<vars, keyboard, user>>

\* Both ways to reboot are reached from the submenu, one from the menu too;
\* screen tells where to go back to if the machine does not react.
KeyReboots ==
    /\ Pop("kb")
    /\ \/ screen \in {"menu", "reboot"} /\ RebootNormally
       \/ screen = "reboot" /\ RebootKeepCounter
    /\ UNCHANGED <<user, safe>>

RebootReturned ==
    /\ RebootFailed
    /\ screen' = IF screen = "menu" THEN "any" ELSE "any_reboot"
    /\ UNCHANGED <<keyboard, user, t2, ready, redone>>

-----------------------------------------------------------------------------
ConsoleNext ==
    \/ KeyIrq({"raw"}) \/ KeyIrq(Rings)
    \/ \E s \in FlushStores : FlushStore(s)
    \/ \E c \in {"ctrl_c", "backspace", "other"} : ReadLine(c)
    \/ Command \/ EditKey \/ EditQuit
    \/ Browse
    \/ OpenShell \/ \E i \in 1 .. 4, ok \in BOOLEAN : Tier2(i, ok)
    \/ KeyReboots \/ RebootReturned
    \/ /\ \/ \E ok \in BOOLEAN : BootRead(ok)
          \/ \E requested \in BOOLEAN : Decide(requested)
          \/ \E landed \in BOOLEAN :
                CountWrite(landed) \/ CompleteWrite(landed) \/ AcknowledgeWrite(landed)
          \/ FirstRead
          \/ \E c \in Crashes, readOk, landed, ok \in BOOLEAN : CrashSave(c, readOk, landed, ok)
          \/ Halt
       /\ UNCHANGED consoleVars
    \/ Lost

ConsoleSpec == ConsoleInit /\ [][ConsoleNext]_<<vars, consoleVars>>

-----------------------------------------------------------------------------
\* keyboard.c and edit.c: outside a flush a ring holds the accepted keys that
\* were not read yet, each once and in the order they were typed, through full
\* rings, wrapped indices and keys that arrive between the stores of a flush;
\* none of them was typed to the shell before the editor started, or in the
\* editor before it exited.
KeysInOrder ==
    stores = {} => \A r \in Rings :
      /\ Pending(r) = [i \in 1 .. Ahead(ring[r]) |-> (due[r] + i - 1) % Numbers]
      /\ fresh[r] = (due[r] + Ahead(ring[r])) % Numbers

\* tier2_init in safemode.c, called again and again after failures: "the
\* PMM/VMM/heap must not be initialized twice", a part is brought up only on those
\* before it, and the restricted shell opens when all are up.
TierOnce ==
    /\ ~redone
    /\ \A i \in 1 .. 4 : screen = Parts[i] => \A j \in 1 .. i - 1 : Parts[j] \in ready
    /\ screen = "shell" => \A i \in 1 .. 4 : Parts[i] \in ready
=============================================================================
