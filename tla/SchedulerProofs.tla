-------------------------- MODULE SchedulerProofs --------------------------
(***************************************************************************)
(* Theorems about Scheduler, for every table size, slice length and        *)
(* modulus of the tick counter (2^32 in the code): slices are full and     *)
(* bounded, a one-tick sleep whose deadline is stored in time lasts one    *)
(* tick, and round robin passes a READY process over at most once per      *)
(* other slot.                                                             *)
(***************************************************************************)
EXTENDS Scheduler, TLAPS

-----------------------------------------------------------------------------
(* Arithmetic.                                                             *)

\* The remainder of less than two whole turns.
LEMMA Turn ==
    ASSUME NEW m \in Nat \ {0}, NEW d \in 0 .. 2 * m - 1
    PROVE  d % m = IF d < m THEN d ELSE d - m
  <1>1. CASE d < m
    BY <1>1
  <1>2. CASE ~(d < m)
    BY <1>2
  <1> QED
    BY <1>1, <1>2

\* The next value of a counter modulo m.
LEMMA NextTick ==
    ASSUME NEW m \in Nat, m > 1, NEW t \in 0 .. m - 1
    PROVE  (t + 1) % m = IF t + 1 < m THEN t + 1 ELSE 0
  <1> DEFINE d == t + 1
  <1>1. m \in Nat \ {0} /\ d \in 0 .. 2 * m - 1
    OBVIOUS
  <1> HIDE DEF d
  <1>2. d % m = IF d < m THEN d ELSE d - m
    BY <1>1, Turn, Zenon
  <1> QED
    BY <1>2 DEF d

\* What Elapsed computes on counter values.
LEMMA ElapsedIs ==
    ASSUME NEW a \in 0 .. TickMod - 1, NEW b \in 0 .. TickMod - 1
    PROVE  Elapsed(a, b) = IF a < b THEN a - b + TickMod ELSE a - b
  <1> DEFINE d == a - b + TickMod
  <1>1. TickMod \in Nat \ {0} /\ d \in 0 .. 2 * TickMod - 1
    BY SchedulerConstants
  <1> HIDE DEF d
  <1>2. d % TickMod = IF d < TickMod THEN d ELSE d - TickMod
    BY <1>1, Turn, Zenon
  <1> QED
    BY <1>1, <1>2, SchedulerConstants DEF d, Elapsed

\* A tick adds one to the time that has passed, also when the counter wraps.
LEMMA ElapsedTick ==
    ASSUME NEW a \in 0 .. TickMod - 1, NEW b \in 0 .. TickMod - 1,
           Elapsed(a, b) < PREEMPT_TICKS
    PROVE  /\ (a + 1) % TickMod \in 0 .. TickMod - 1
           /\ (a + 1) % TickMod # a
           /\ Elapsed((a + 1) % TickMod, b) = Elapsed(a, b) + 1
  <1> DEFINE c == (a + 1) % TickMod
  <1>1. TickMod \in Nat /\ TickMod > 1
    BY SchedulerConstants
  <1>2. c = IF a + 1 < TickMod THEN a + 1 ELSE 0
    BY <1>1, NextTick, Zenon
  <1> HIDE DEF c
  <1>3. c \in 0 .. TickMod - 1 /\ c # a
    BY <1>1, <1>2
  <1>4. Elapsed(c, b) = IF c < b THEN c - b + TickMod ELSE c - b
    BY <1>3, ElapsedIs
  <1>5. Elapsed(a, b) = IF a < b THEN a - b + TickMod ELSE a - b
    BY ElapsedIs
  <1>6. Elapsed(c, b) = Elapsed(a, b) + 1
    BY <1>1, <1>2, <1>4, <1>5, SchedulerConstants
  <1> QED
    BY <1>3, <1>6 DEF c

\* Places of the scan: the slot behind the cursor is first, the cursor last.
Place(i, c) == IF i > c THEN i - c - 1 ELSE i - c - 1 + PROCESS_MAX

LEMMA ScanOrderIs ==
    ASSUME NEW i \in Slots, current_index \in Slots
    PROVE  ScanOrder(i) = Place(i, current_index)
  <1> DEFINE d == i - current_index - 1 + PROCESS_MAX
  <1>1. PROCESS_MAX \in Nat \ {0} /\ d \in 0 .. 2 * PROCESS_MAX - 1
    BY SchedulerConstants DEF Slots
  <1> HIDE DEF d
  <1>2. d % PROCESS_MAX = IF d < PROCESS_MAX THEN d ELSE d - PROCESS_MAX
    BY <1>1, Turn, Zenon
  <1> QED
    BY <1>1, <1>2, SchedulerConstants DEF d, ScanOrder, Slots, Place

-----------------------------------------------------------------------------
(* The inductive invariant.                                                *)

\* A process has been chosen, and the loop has not come back from it yet.
Chosen == loop \in {"mark", "refresh", "process", "after"}

\* The time of the process on the CPU, as timer_callback computes it, is the
\* number of ticks it has had the CPU.
SliceInv ==
    loop = "process" /\ state[current] = "RUNNING" =>
      held < PREEMPT_TICKS /\ Elapsed(ticks, ticks_run[current]) = held

\* Every dispatch of another slot brings the cursor nearer to a READY one; the
\* slot just chosen is the one that starts from zero.
BypassInv ==
    \A s \in Slots :
      IF Chosen /\ s = current
      THEN bypassed[s] < PROCESS_MAX /\ (loop # "mark" => bypassed[s] = 0)
      ELSE bypassed[s] = 0 \/ (state[s] = "READY" /\ bypassed[s] + ScanOrder(s) < PROCESS_MAX)

SchedInv ==
    /\ TypeOK
    /\ Chosen => current \in Slots
    /\ loop \in {"scan", "hlt"} => current = None
    /\ loop = "mark" => state[current] = "READY"
    /\ SliceInv
    /\ BypassInv

\* A step of the loop, of the process on the CPU or of an interrupt.
LEMMA NextCases ==
    ASSUME Next
    PROVE  \/ \E i \in Slots : Select(i)
           \/ Idle \/ Mark \/ Switch \/ After
           \/ \E s \in Slots : Yield(s) \/ Block(s) \/ Exit(s)
           \/ \E s \in Slots : KillSelf(s)
           \/ \E s \in Slots : SleepRead(s)
           \/ \E s \in Slots, n \in SleepTicks : sleep_now[s] # None /\ SleepStore(s, n)
           \/ \E s, t \in Slots : MakeReady(s, t)
           \/ Tick
           \/ \E w \in Slots \cup {None} : DeviceIrq(w)
  BY DEF Next, LoopStep, ProcessStep, Irq

\* The initial state: the shell is READY and nobody runs.
LEMMA InitInv == Init => SchedInv
  <1> SUFFICES ASSUME Init PROVE SchedInv
    OBVIOUS
  <1> USE SchedulerConstants DEF Init, Slots
  <1>1. TypeOK
    BY SMTT(30) DEF TypeOK, States
  <1> QED
    BY <1>1 DEF SchedInv, SliceInv, BypassInv, Chosen

\* Every step keeps every variable in its range.
LEMMA TypeStep ==
    ASSUME SchedInv, [Next]_vars
    PROVE  TypeOK'
  <1> USE SchedulerConstants DEF SchedInv, TypeOK, States, sleep_vars
  <1>0. CASE UNCHANGED vars
    BY <1>0 DEF vars, sleep_vars
  <1> SUFFICES ASSUME Next PROVE TypeOK'
    BY <1>0
  <1>1. CASE \E i \in Slots : Select(i)
    BY <1>1 DEF Select
  <1>2. CASE Idle
    BY <1>2 DEF Idle
  <1>3. CASE Mark
    BY <1>3 DEF Mark, Chosen
  <1>4. CASE Switch
    BY <1>4 DEF Switch, Chosen
  <1>5. CASE After
    BY <1>5 DEF After, Chosen
  <1>6. CASE \E s \in Slots : Yield(s) \/ Block(s) \/ Exit(s)
    BY <1>6 DEF Yield, Block, Exit, Leave
  <1>7. CASE \E s \in Slots : KillSelf(s)
    BY <1>7 DEF KillSelf
  <1>8. CASE \E s \in Slots : SleepRead(s)
    BY <1>8 DEF SleepRead
  <1>12. CASE \E s \in Slots, n \in SleepTicks : sleep_now[s] # None /\ SleepStore(s, n)
    <2> PICK s \in Slots, n \in SleepTicks : sleep_now[s] # None /\ SleepStore(s, n)
      BY <1>12
    <2>1. (sleep_now[s] + n) % TickMod \in 0 .. TickMod - 1
      OBVIOUS
    <2> QED
      BY <2>1 DEF SleepStore, Leave
  <1>9. CASE \E s, t \in Slots : MakeReady(s, t)
    BY <1>9 DEF MakeReady
  <1>10. CASE Tick
    <2>1. (ticks + 1) % TickMod \in 0 .. TickMod - 1
      OBVIOUS
    <2> QED
      BY <1>10, <2>1 DEF Tick, AfterIrq, SliceOver
  <1>11. CASE \E w \in Slots \cup {None} : DeviceIrq(w)
    BY <1>11 DEF DeviceIrq, AfterIrq
  <1> QED
    BY NextCases, <1>1, <1>2, <1>3, <1>4, <1>5, <1>6, <1>7, <1>8, <1>12, <1>9, <1>10, <1>11

\* Where the loop stands and who was chosen.
LEMMA ControlStep ==
    ASSUME SchedInv, [Next]_vars
    PROVE  /\ Chosen' => current' \in Slots
           /\ loop' \in {"scan", "hlt"} => current' = None
           /\ loop' = "mark" => state'[current'] = "READY"
  <1> USE SchedulerConstants DEF SchedInv, TypeOK, Chosen
  <1>0. CASE UNCHANGED vars
    BY <1>0 DEF vars, sleep_vars
  <1> SUFFICES ASSUME Next
               PROVE  /\ Chosen' => current' \in Slots
                      /\ loop' \in {"scan", "hlt"} => current' = None
                      /\ loop' = "mark" => state'[current'] = "READY"
    BY <1>0
  <1>1. CASE \E i \in Slots : Select(i)
    BY <1>1 DEF Select, NextReady
  <1>2. CASE Idle \/ Mark \/ Switch \/ After
    BY <1>2 DEF Idle, Mark, Switch, After
  <1>3. CASE \E s \in Slots : Yield(s) \/ Block(s) \/ Exit(s) \/ KillSelf(s)
    BY <1>3 DEF Yield, Block, Exit, Leave, KillSelf
  <1>4. CASE (\E s \in Slots : SleepRead(s)) \/ \E s \in Slots, n \in SleepTicks : SleepStore(s, n)
    BY <1>4 DEF SleepRead, SleepStore, Leave
  <1>5. CASE \E s, t \in Slots : MakeReady(s, t)
    BY <1>5 DEF MakeReady
  <1>6. CASE Tick
    BY <1>6 DEF Tick, AfterIrq, SliceOver
  <1>7. CASE \E w \in Slots \cup {None} : DeviceIrq(w)
    BY <1>7 DEF DeviceIrq, AfterIrq
  <1> QED
    BY NextCases, <1>1, <1>2, <1>3, <1>4, <1>5, <1>6, <1>7

\* A tick on the stack of a process that is RUNNING: its time grows by one, and
\* at PREEMPT_TICKS it loses the CPU.
LEMMA SliceTick ==
    ASSUME SchedInv, Tick, loop = "process", state[current] = "RUNNING"
    PROVE  /\ held' = held + 1
           /\ SliceOver(ticks') <=> held' >= PREEMPT_TICKS
           /\ Elapsed(ticks', ticks_run[current]) = held'
  <1> USE SchedulerConstants
  <1>1. current \in Slots /\ current # None /\ held < PREEMPT_TICKS /\ held \in Nat
        /\ Elapsed(ticks, ticks_run[current]) = held
        /\ ticks \in 0 .. TickMod - 1 /\ ticks_run[current] \in 0 .. TickMod - 1
    BY DEF SchedInv, SliceInv, TypeOK, Chosen, Slots, None
  <1>2. held' = held + 1 /\ ticks' = (ticks + 1) % TickMod
    BY <1>1 DEF Tick
  <1>3. Elapsed(ticks', ticks_run[current]) = held + 1
    BY <1>1, <1>2, ElapsedTick, Zenon
  <1> QED
    BY <1>1, <1>2, <1>3 DEF SliceOver

\* The slice: Switch starts it, ticks count it, and nothing else touches it.
LEMMA SliceStep ==
    ASSUME SchedInv, [Next]_vars
    PROVE  SliceInv'
  <1> USE SchedulerConstants
  <1>0. CASE UNCHANGED vars
    BY <1>0 DEF vars, sleep_vars, SchedInv, SliceInv, Elapsed
  <1> SUFFICES ASSUME Next, loop' = "process", state'[current'] = "RUNNING"
               PROVE  held' < PREEMPT_TICKS /\ Elapsed(ticks', ticks_run'[current']) = held'
    BY <1>0 DEF SliceInv, Elapsed
  <1>1. CASE \E i \in Slots : Select(i)
    BY <1>1 DEF Select
  <1>2. CASE Idle \/ Mark \/ After
    BY <1>2 DEF Idle, Mark, After
  <1>3. CASE Switch
    <2>1. current \in Slots /\ ticks_run' = [ticks_run EXCEPT ![current] = ticks]
          /\ UNCHANGED <<current, ticks>> /\ held' = 0
      BY <1>3 DEF Switch, SchedInv, Chosen
    <2>2. ticks_run'[current'] = ticks /\ ticks \in 0 .. TickMod - 1
      BY <2>1 DEF SchedInv, TypeOK
    <2>3. Elapsed(ticks, ticks) = 0
      BY <2>2, ElapsedIs
    <2> QED
      BY <2>1, <2>2, <2>3
  <1>4. CASE \E s \in Slots : Yield(s) \/ Block(s) \/ Exit(s)
    BY <1>4 DEF Yield, Block, Exit, Leave
  <1>5. CASE \E s \in Slots : KillSelf(s)
    BY <1>5 DEF KillSelf, SchedInv, TypeOK
  <1>6. CASE (\E s \in Slots : SleepRead(s)) \/ \E s \in Slots, n \in SleepTicks : SleepStore(s, n)
    BY <1>6 DEF SleepRead, SleepStore, Leave, SchedInv, SliceInv
  <1>7. CASE \E s, t \in Slots : MakeReady(s, t)
    <2> PICK s \in Slots, t \in Slots : MakeReady(s, t)
      BY <1>7
    <2>1. state[current] = "RUNNING" /\ t # current
      BY DEF MakeReady, SchedInv, TypeOK
    <2>2. ticks_run'[current] = ticks_run[current] /\ UNCHANGED <<ticks, current, held, loop>>
      BY <2>1 DEF MakeReady, SchedInv, TypeOK
    <2> QED
      BY <2>1, <2>2 DEF SchedInv, SliceInv
  <1>8. CASE Tick
    <2>1. loop = "process" /\ ~SliceOver(ticks') /\ UNCHANGED <<current, ticks_run>>
      BY <1>8 DEF Tick, AfterIrq
    <2>2. current \in Slots
      BY <2>1 DEF SchedInv, Chosen
    <2>3. state[current] = "RUNNING"
      BY <1>8, <2>1, <2>2 DEF Tick
    <2>4. held' = held + 1 /\ held \in Nat
      BY <1>8, <2>1, <2>3, SliceTick DEF SchedInv, TypeOK
    <2> QED
      BY <1>8, <2>1, <2>3, <2>4, SliceTick
  <1>9. CASE \E w \in Slots \cup {None} : DeviceIrq(w)
    <2>1. UNCHANGED <<current, ticks, ticks_run, held>> /\ loop = "process"
      BY <1>9 DEF DeviceIrq, AfterIrq
    <2>2. state[current] = "RUNNING"
      BY <1>9, <2>1 DEF DeviceIrq, SchedInv, TypeOK, Chosen
    <2> QED
      BY <2>1, <2>2 DEF SchedInv, SliceInv
  <1> QED
    BY NextCases, <1>1, <1>2, <1>3, <1>4, <1>5, <1>6, <1>7, <1>8, <1>9

\* Moving the cursor to the first READY slot brings it nearer to any other.
LEMMA CursorMoves ==
    ASSUME NEW c \in Slots, NEW i \in Slots, NEW s \in Slots, i # s,
           Place(i, c) <= Place(s, c)
    PROVE  Place(s, i) + 1 <= Place(s, c) /\ Place(s, i) + 1 < PROCESS_MAX /\ Place(s, i) \in Nat
  BY SchedulerConstants DEF Place, Slots

\* The counts: only Select adds to them, and only for slots it comes nearer to.
LEMMA BypassStep ==
    ASSUME SchedInv, [Next]_vars
    PROVE  BypassInv'
  <1> USE SchedulerConstants
  <1>1. /\ BypassInv /\ TypeOK /\ (Chosen => current \in Slots)
        /\ (loop = "mark" => state[current] = "READY")
    BY DEF SchedInv
  \* A step that moves no cursor and counts nothing keeps READY what has a count.
  <1>2. ASSUME UNCHANGED <<bypassed, current_index>>,
               \A s \in Slots : state[s] = "READY" /\ ~(Chosen /\ s = current) => state'[s] = "READY",
               Chosen' => Chosen /\ current' = current /\ (loop = "mark" <=> loop' = "mark"),
               Chosen /\ ~Chosen' => loop # "mark"
        PROVE  BypassInv'
    BY <1>1, <1>2 DEF BypassInv, ScanOrder, TypeOK
  <1>3. CASE UNCHANGED vars
    BY <1>2, <1>3 DEF vars, sleep_vars, Chosen
  <1> SUFFICES ASSUME Next PROVE BypassInv'
    BY <1>3
  <1>4. CASE \E i \in Slots : Select(i)
    <2> PICK i \in Slots : Select(i)
      BY <1>4
    <2>1. /\ loop = "scan" /\ current_index' = i /\ current' = i /\ loop' = "mark"
          /\ state' = state /\ current_index \in Slots
          /\ bypassed' = [s \in Slots |-> IF s # i /\ state[s] = "READY" /\ bypassed[s] < PROCESS_MAX
                                    THEN bypassed[s] + 1 ELSE bypassed[s]]
      BY DEF Select, SchedInv, TypeOK
    <2> SUFFICES ASSUME NEW s \in Slots
                 PROVE  IF s = i THEN bypassed'[s] < PROCESS_MAX
                        ELSE bypassed'[s] = 0
                             \/ (state[s] = "READY" /\ bypassed'[s] + ScanOrder(s)' < PROCESS_MAX)
      BY <2>1 DEF BypassInv, Chosen
    <2>2. /\ bypassed[s] \in 0 .. PROCESS_MAX
          /\ bypassed[s] = 0 \/ (state[s] = "READY" /\ bypassed[s] + Place(s, current_index) < PROCESS_MAX)
          /\ Place(s, current_index) \in Nat
      <3>1. bypassed[s] = 0 \/ (state[s] = "READY" /\ bypassed[s] + ScanOrder(s) < PROCESS_MAX)
        BY <1>1, <2>1 DEF BypassInv, Chosen
      <3>2. ScanOrder(s) = Place(s, current_index)
        BY <2>1, ScanOrderIs
      <3> QED
        BY <1>1, <2>1, <3>1, <3>2 DEF TypeOK, Place, Slots
    <2>3. CASE s = i
      BY <2>1, <2>2, <2>3
    <2>4. CASE s # i /\ state[s] # "READY"
      BY <2>1, <2>2, <2>4
    <2>5. CASE s # i /\ state[s] = "READY"
      <3>1. ScanOrder(i) <= ScanOrder(s)
        BY <2>5 DEF Select, NextReady
      <3>2. Place(i, current_index) <= Place(s, current_index)
        BY <2>1, <3>1, ScanOrderIs
      <3>3. Place(s, i) + 1 <= Place(s, current_index) /\ Place(s, i) + 1 < PROCESS_MAX /\ Place(s, i) \in Nat
        BY <2>1, <2>5, <3>2, CursorMoves
      <3>4. ScanOrder(s)' = Place(s, i)
        <4>1. ScanOrder(s)' = (s - i - 1 + PROCESS_MAX) % PROCESS_MAX
          BY <2>1 DEF ScanOrder
        <4> DEFINE d == s - i - 1 + PROCESS_MAX
        <4>2. PROCESS_MAX \in Nat \ {0} /\ d \in 0 .. 2 * PROCESS_MAX - 1
          BY DEF Slots
        <4> HIDE DEF d
        <4>3. d % PROCESS_MAX = IF d < PROCESS_MAX THEN d ELSE d - PROCESS_MAX
          BY <4>2, Turn, Zenon
        <4> QED
          BY <4>1, <4>2, <4>3 DEF d, Slots, Place
      <3> QED
        BY <2>1, <2>2, <2>5, <3>3, <3>4
    <2> QED
      BY <2>3, <2>4, <2>5
  <1>5. CASE Idle
    BY <1>2, <1>5 DEF Idle, Chosen
  <1>6. CASE Mark
    <2>1. /\ current \in Slots /\ loop' = "refresh" /\ UNCHANGED <<current, current_index>>
          /\ bypassed' = [bypassed EXCEPT ![current] = 0]
          /\ \A s \in Slots : s # current => state'[s] = state[s]
      BY <1>1, <1>6 DEF Mark, Chosen, TypeOK
    <2> QED
      BY <1>1, <1>6, <2>1 DEF BypassInv, Chosen, TypeOK, ScanOrder, Mark
  <1>7. CASE Switch
    BY <1>2, <1>7 DEF Switch, Chosen
  <1>8. CASE After
    BY <1>1, <1>2, <1>8 DEF After, Chosen, TypeOK
  <1>9. CASE \E s \in Slots : Yield(s) \/ Block(s) \/ Exit(s)
    BY <1>1, <1>2, <1>9 DEF Yield, Block, Exit, Leave, Chosen, TypeOK
  <1>10. CASE \E s \in Slots : KillSelf(s)
    BY <1>1, <1>2, <1>10 DEF KillSelf, Chosen, TypeOK
  <1>11. CASE (\E s \in Slots : SleepRead(s)) \/ \E s \in Slots, n \in SleepTicks : SleepStore(s, n)
    BY <1>1, <1>2, <1>11 DEF SleepRead, SleepStore, Leave, Chosen, TypeOK
  <1>12. CASE \E s, t \in Slots : MakeReady(s, t)
    BY <1>1, <1>2, <1>12 DEF MakeReady, Chosen, TypeOK
  <1>13. CASE Tick
    BY <1>1, <1>2, <1>13 DEF Tick, AfterIrq, SliceOver, Chosen, TypeOK
  <1>14. CASE \E w \in Slots \cup {None} : DeviceIrq(w)
    BY <1>1, <1>2, <1>14 DEF DeviceIrq, AfterIrq, Chosen, TypeOK
  <1> QED
    BY NextCases, <1>4, <1>5, <1>6, <1>7, <1>8, <1>9, <1>10, <1>11, <1>12, <1>13, <1>14

-----------------------------------------------------------------------------
(* The theorems.                                                           *)

\* SchedInv is an inductive invariant.
THEOREM SchedInvariant == Spec => []SchedInv
  <1>1. SchedInv /\ [Next]_vars => SchedInv'
    BY TypeStep, ControlStep, SliceStep, BypassStep DEF SchedInv
  <1> QED
    BY InitInv, <1>1, PTL DEF Spec

\* timer_callback's unsigned difference bounds every slice, wherever the tick
\* counter wraps.
THEOREM SlicesBounded == Spec => []SliceBounded
  <1>1. SchedInv => SliceBounded
    BY DEF SchedInv, SliceInv, SliceBounded
  <1> QED
    BY SchedInvariant, <1>1, PTL

\* The scan of scheduler_run_once starts behind the cursor, so a READY process
\* is passed over at most once per other slot.
THEOREM BypassBounded == Spec => []BoundedBypass
  <1>1. SchedInv => BoundedBypass
    <2> SUFFICES ASSUME SchedInv, NEW s \in Slots PROVE bypassed[s] < PROCESS_MAX
      BY DEF BoundedBypass
    <2>1. ScanOrder(s) \in Nat /\ bypassed[s] \in 0 .. PROCESS_MAX
      <3>1. ScanOrder(s) = Place(s, current_index)
        BY ScanOrderIs DEF SchedInv, TypeOK
      <3> QED
        BY <3>1, SchedulerConstants DEF Place, Slots, SchedInv, TypeOK
    <2> QED
      BY <2>1, SchedulerConstants DEF SchedInv, BypassInv
  <1> QED
    BY SchedInvariant, <1>1, PTL

\* timer_callback preempts a process only at the end of a full slice.
THEOREM SlicesFull == Spec => FullSlice
  <1>1. SchedInv /\ [Next]_vars =>
          [loop = "process" /\ loop' = "after" /\ ticks' # ticks => held' = PREEMPT_TICKS]_vars
    <2> SUFFICES ASSUME SchedInv, Next, loop = "process", loop' = "after", ticks' # ticks
                 PROVE  held' = PREEMPT_TICKS
      OBVIOUS
    <2>1. Tick
      BY NextCases, Zenon DEF Select, Idle, Mark, Switch, After, Yield, Block, Exit, Leave, KillSelf,
                       SleepRead, SleepStore, MakeReady, DeviceIrq
    <2>2. SliceOver(ticks')
      BY <2>1 DEF Tick, AfterIrq
    <2>3. held' = held + 1 /\ held' >= PREEMPT_TICKS
      BY <2>1, <2>2, SliceTick DEF SliceOver
    <2> QED
      BY <2>2, <2>3, SchedulerConstants DEF SliceOver, SchedInv, SliceInv, TypeOK
  <1> QED
    BY SchedInvariant, <1>1, PTL DEF Spec, FullSlice

\* A sleeper's tick is the next one, when programs sleep for one tick only and the
\* deadline was not over when it was stored.
SleepInv ==
    \A s \in Slots \ late : state[s] = "SLEEPING" => wake_tick[s] = (ticks + 1) % TickMod

\* scheduler_sleep_current(1), the only sleep syscall.c asks for, lasts until the
\* next tick and no longer, also across the wrap of the tick counter, unless a tick
\* came between the read of the counter and the store of the deadline.
THEOREM SleepsEnd == SleepTicks = {1} /\ Spec => SleepOneTick
  <1> SUFFICES ASSUME SleepTicks = {1} PROVE Spec => SleepOneTick
    OBVIOUS
  <1>1. Init => SleepInv
    BY DEF Init, SleepInv
  <1>2. SchedInv /\ SleepInv /\ [Next]_vars
          => SleepInv' /\ [ticks' # ticks => \A s \in Slots : state'[s] = "SLEEPING" => s \in late]_vars
    <2> USE SchedulerConstants DEF sleep_vars
    <2> SUFFICES ASSUME SchedInv, SleepInv, [Next]_vars
                 PROVE  /\ SleepInv'
                        /\ [ticks' # ticks => \A s \in Slots : state'[s] = "SLEEPING" => s \in late]_vars
      OBVIOUS
    \* Without a tick and without a new sleeper.
    <2>1. ASSUME UNCHANGED <<ticks, wake_tick, late>>,
                 \A s \in Slots : state'[s] = "SLEEPING" => state[s] = "SLEEPING"
          PROVE  SleepInv'
      BY <2>1 DEF SleepInv
    <2>2. CASE UNCHANGED vars
      BY <2>1, <2>2 DEF vars, sleep_vars
    <2>3. CASE \E s \in Slots, n \in SleepTicks : sleep_now[s] # None /\ SleepStore(s, n)
      <3> PICK s \in Slots : sleep_now[s] # None /\ SleepStore(s, 1)
        BY <2>3
      <3>1. /\ ticks' = ticks /\ late \subseteq late'
            /\ \A t \in Slots : t # s => state'[t] = state[t] /\ wake_tick'[t] = wake_tick[t]
            /\ state'[s] = "SLEEPING" => wake_tick'[s] = (sleep_now[s] + 1) % TickMod
            /\ state'[s] = "SLEEPING" /\ s \notin late' => ~(Elapsed(ticks, sleep_now[s]) >= 1)
        BY DEF SleepStore, Leave, SchedInv, TypeOK
      <3>2. ticks \in 0 .. TickMod - 1 /\ sleep_now[s] \in 0 .. TickMod - 1
        BY DEF SchedInv, TypeOK
      <3>3. ASSUME ~(Elapsed(ticks, sleep_now[s]) >= 1) PROVE sleep_now[s] = ticks
        <4>1. Elapsed(ticks, sleep_now[s])
                = IF ticks < sleep_now[s] THEN ticks - sleep_now[s] + TickMod ELSE ticks - sleep_now[s]
          BY <3>2, ElapsedIs
        <4> QED
          BY <3>2, <3>3, <4>1
      <3> QED
        BY <3>1, <3>3 DEF SleepInv
    <2>4. CASE Tick
      <3> DEFINE now == (ticks + 1) % TickMod
      <3>1. now \in Nat /\ ticks' = now
        BY <2>4 DEF Tick, SchedInv, TypeOK
      <3>2. \A s \in Slots \ late : state[s] = "SLEEPING" => s \in Woken(now)
        BY <3>1 DEF Woken, SleepInv
      <3> HIDE DEF now
      <3>3. \A s \in Slots : state'[s] = "SLEEPING" => s \in late /\ s \in late'
        BY <2>4, <3>2 DEF Tick, now
      <3> QED
        BY <3>3 DEF SleepInv
    <2>5. CASE (\E i \in Slots : Select(i)) \/ Idle \/ Mark \/ Switch \/ After
      BY <2>1, <2>5 DEF Select, Idle, Mark, Switch, After, SchedInv, TypeOK
    <2>6. CASE \E s \in Slots : Yield(s) \/ SleepRead(s) \/ Block(s) \/ Exit(s) \/ KillSelf(s)
      BY <2>1, <2>6 DEF Yield, SleepRead, Block, Exit, Leave, KillSelf, SchedInv, TypeOK
    <2>7. CASE \E s, t \in Slots : MakeReady(s, t)
      BY <2>1, <2>7 DEF MakeReady, SchedInv, TypeOK
    <2>8. CASE \E w \in Slots \cup {None} : DeviceIrq(w)
      BY <2>1, <2>8 DEF DeviceIrq, SchedInv, TypeOK
    <2> QED
      BY NextCases, <2>2, <2>3, <2>4, <2>5, <2>6, <2>7, <2>8
  <1> QED
    BY SchedInvariant, <1>1, <1>2, PTL DEF Spec, SleepOneTick
=============================================================================
