----------------------------- MODULE PipeProofs -----------------------------
(***************************************************************************)
(* Theorems about Pipe, for every set of processes, every buffer size and  *)
(* every bound: the ring keeps its bytes in order, the reference counts    *)
(* match the holders, no wakeup is lost, and the ring with its counts and  *)
(* waiters implements the safety part of PipeSpec.  For the last: by       *)
(* FifoContents the bytes in flight are consecutive numbers that end with  *)
(* sent, so what a step does to the queue follows from count and sent and  *)
(* the ring's indices play no part any more.                               *)
(***************************************************************************)
EXTENDS Pipe, Sequences, FiniteSetTheorems, TLAPS

-----------------------------------------------------------------------------
(* Positions in the ring.                                                  *)

\* The place a bytes after place t, when a is no more than a whole turn.
LEMMA RingPlace ==
    ASSUME NEW n \in Nat \ {0}, NEW t \in 0 .. n - 1, NEW a \in Nat, a <= n
    PROVE  (t + a) % n = IF t + a < n THEN t + a ELSE t + a - n
  <1>1. CASE t + a < n
    BY <1>1
  <1>2. CASE ~(t + a < n)
    BY <1>2
  <1> QED
    BY <1>1, <1>2

\* Walking a bytes and then b bytes from t is walking a + b bytes.
LEMMA RingWalk ==
    ASSUME NEW n \in Nat \ {0}, NEW t \in 0 .. n - 1,
           NEW a \in Nat, NEW b \in Nat, a + b <= n
    PROVE  (((t + a) % n) + b) % n = (t + (a + b)) % n
  <1> DEFINE u == (t + a) % n
  <1>0. a <= n /\ b <= n /\ a + b \in Nat
    OBVIOUS
  <1>1. u = IF t + a < n THEN t + a ELSE t + a - n
    BY <1>0, RingPlace, Zenon
  <1>2. (t + (a + b)) % n = IF t + (a + b) < n THEN t + (a + b) ELSE t + (a + b) - n
    BY <1>0, RingPlace, Zenon
  <1> HIDE DEF u
  <1>3. (u + b) % n = IF u + b < n THEN u + b ELSE u + b - n
    <2>1. u \in 0 .. n - 1
      BY <1>0, <1>1
    <2> QED
      BY <1>0, <2>1, RingPlace, Zenon
  <1>4. (u + b) % n = (t + (a + b)) % n
    BY <1>1, <1>2, <1>3
  <1> QED
    BY <1>4 DEF u

\* The remainder of less than two whole turns.
LEMMA RingTurn ==
    ASSUME NEW n \in Nat \ {0}, NEW d \in 0 .. 2 * n - 1
    PROVE  d % n = IF d < n THEN d ELSE d - n
  <1>1. CASE d < n
    BY <1>1
  <1>2. CASE ~(d < n)
    BY <1>2
  <1> QED
    BY <1>1, <1>2

\* A place in the ring is an index of buf.
LEMMA RingIndex ==
    ASSUME NEW a \in Nat
    PROVE  a % PIPE_BUF_SIZE \in Index
  BY PipeConstants DEF Index

-----------------------------------------------------------------------------
(* The inductive invariant.                                                *)

\* A process in a call holds the end it uses, and nobody else is in that call.
CallsMatch ==
    /\ \A p \in Procs : op[p] = "read" => p \in readers
    /\ \A p \in Procs : op[p] = "write" => p \in writers
    /\ \A p, q \in Procs : op[p] # "none" /\ op[p] = op[q] => p = q

PipeInv == TypeOK /\ FifoContents /\ RefsMatch /\ NoLostWakeup /\ CallsMatch

\* A step of process p.
Step(p) ==
    \/ Create(p) \/ CloseRead(p) \/ CloseWrite(p)
    \/ ReadSome(p) \/ ReadEof(p) \/ ReadBlock(p)
    \/ WriteBroken(p) \/ WriteSome(p) \/ WriteBlock(p)
    \/ \E q \in Procs : DupRead(p, q)
    \/ \E q \in Procs : DupWrite(p, q)
    \/ \E n \in 1 .. MaxLen : ReadCall(p, n) \/ WriteCall(p, n)

\* Every step of the system is a step of one process.
LEMMA NextCases ==
    ASSUME Next
    PROVE  \E p \in Procs : Step(p)
  BY DEF Next, InCall, Step

\* The initial state: no pipe, nobody in a call.
LEMMA InitInv == Init => PipeInv
  <1> SUFFICES ASSUME Init PROVE PipeInv
    OBVIOUS
  <1> USE PipeConstants DEF Init
  <1>1. TypeOK
    <2>1. buf \in [Index -> Nat] /\ 0 \in Index /\ 0 \in 0 .. PIPE_BUF_SIZE
      BY DEF Index
    <2>2. left \in [Procs -> 0 .. MaxLen]
      OBVIOUS
    <2> QED
      BY <2>1, <2>2 DEF TypeOK
  <1>2. FifoContents
    <2>1. (0 + 0) % PIPE_BUF_SIZE = 0
      OBVIOUS
    <2> QED
      BY <2>1 DEF FifoContents
  <1>3. RefsMatch
    BY FS_EmptySet DEF RefsMatch
  <1>4. NoLostWakeup
    BY DEF NoLostWakeup
  <1>5. CallsMatch
    BY DEF CallsMatch
  <1> QED
    BY <1>1, <1>2, <1>3, <1>4, <1>5 DEF PipeInv

\* Waking a process keeps the states typed.
LEMMA WakeType ==
    ASSUME NEW w, TypeOK, Wake(w)
    PROVE  state' \in [Procs -> {"READY", "BLOCKED"}]
  BY Zenon DEF TypeOK, Wake

\* Every step keeps every variable in its range: the ring never overfills.
LEMMA TypeStep ==
    ASSUME TypeOK, [Next]_vars
    PROVE  TypeOK'
  <1> USE PipeConstants DEF TypeOK
  <1>0. CASE UNCHANGED vars
    BY <1>0 DEF vars, ring, refs, calls
  <1> SUFFICES ASSUME Next PROVE TypeOK'
    BY <1>0
  <1> PICK p \in Procs : Step(p)
    BY NextCases
  <1>1. CASE Create(p)
    BY <1>1 DEF Create, calls, Index
  <1>2. CASE CloseRead(p)
    <2>1. state' \in [Procs -> {"READY", "BLOCKED"}]
      BY <1>2, WakeType DEF CloseRead
    <2> QED
      BY <1>2, <2>1 DEF CloseRead, ring, calls
  <1>3. CASE CloseWrite(p)
    <2>1. state' \in [Procs -> {"READY", "BLOCKED"}]
      BY <1>3, WakeType DEF CloseWrite
    <2> QED
      BY <1>3, <2>1 DEF CloseWrite, ring, calls
  <1>4. CASE ReadSome(p)
    <2> DEFINE n == Min2(left[p], count)
    <2>1. n \in Nat /\ n <= count /\ n <= left[p]
      BY DEF Min2
    <2> HIDE DEF n
    <2>2. tail' = (tail + n) % PIPE_BUF_SIZE /\ count' = count - n
      BY <1>4 DEF ReadSome, n
    <2>3. tail' \in Index
      <3>1. tail + n \in Nat
        BY <2>1 DEF Index
      <3> QED
        BY <2>2, <3>1, RingIndex, Zenon
    <2>4. state' \in [Procs -> {"READY", "BLOCKED"}]
      BY <1>4, WakeType, Zenon DEF ReadSome
    <2>5. left' \in [Procs -> 0 .. MaxLen] /\ op' \in [Procs -> {"none", "read", "write"}]
          /\ result' \in [Procs -> {"none", "data", "eof", "ok", "broken"}]
      BY <1>4 DEF ReadSome, Finish
    <2>6. count' \in 0 .. PIPE_BUF_SIZE
      BY <2>1, <2>2
    <2>7. UNCHANGED <<buf, head, refs, read_waiter, sent>> /\ write_waiter' = NoProc
      BY <1>4 DEF ReadSome
    <2> QED
      BY <2>3, <2>4, <2>5, <2>6, <2>7 DEF refs
  <1>5. CASE ReadEof(p)
    BY <1>5 DEF ReadEof, ring, refs, Finish
  <1>6. CASE ReadBlock(p)
    BY <1>6 DEF ReadBlock, ring, refs, calls
  <1>7. CASE WriteBroken(p)
    BY <1>7 DEF WriteBroken, ring, refs, Finish
  <1>8. CASE WriteSome(p)
    <2> DEFINE n == Min2(left[p], PIPE_BUF_SIZE - count)
    <2>1. n \in Nat /\ n <= PIPE_BUF_SIZE - count /\ n <= left[p]
      BY DEF Min2
    <2> HIDE DEF n
    <2>2. /\ head' = (head + n) % PIPE_BUF_SIZE /\ count' = count + n /\ sent' = sent + n
          /\ IF n = left[p] THEN Finish(p, "ok")
             ELSE /\ left' = [left EXCEPT ![p] = @ - n]
                  /\ UNCHANGED <<op, result>>
      BY <1>8 DEF WriteSome, n
    <2>3. head' \in Index
      <3>1. head + n \in Nat
        BY <2>1 DEF Index
      <3> QED
        BY <2>2, <3>1, RingIndex, Zenon
    <2>4. buf' \in [Index -> Nat]
      <3> SUFFICES ASSUME NEW i \in Index
                   PROVE  /\ (i - head + PIPE_BUF_SIZE) % PIPE_BUF_SIZE \in Nat
        BY <1>8 DEF WriteSome
      <3>1. i - head + PIPE_BUF_SIZE \in Nat
        BY DEF Index
      <3> QED
        BY <3>1, RingIndex DEF Index
    <2>5. state' \in [Procs -> {"READY", "BLOCKED"}]
      BY <1>8, WakeType DEF WriteSome
    <2>6. left' \in [Procs -> 0 .. MaxLen] /\ op' \in [Procs -> {"none", "read", "write"}]
          /\ result' \in [Procs -> {"none", "data", "eof", "ok", "broken"}]
      BY <2>1, <2>2 DEF Finish
    <2> QED
      BY <1>8, <2>1, <2>2, <2>3, <2>4, <2>5, <2>6, SMTT(30) DEF WriteSome, refs
  <1>9. CASE WriteBlock(p)
    BY <1>9 DEF WriteBlock, ring, refs, calls
  <1>10. CASE \E q \in Procs : DupRead(p, q)
    BY <1>10 DEF DupRead, ring, calls
  <1>11. CASE \E q \in Procs : DupWrite(p, q)
    BY <1>11 DEF DupWrite, ring, calls
  <1>12. CASE \E n \in 1 .. MaxLen : ReadCall(p, n) \/ WriteCall(p, n)
    BY <1>12 DEF ReadCall, WriteCall, Call, ring, refs
  <1> QED
    BY <1>1, <1>2, <1>3, <1>4, <1>5, <1>6, <1>7, <1>8, <1>9, <1>10, <1>11, <1>12, ZenonT(60) DEF Step

\* The ring: a read moves the tail over the bytes it returns, a write puts its
\* bytes between the old head and the new one and touches no byte in flight.
LEMMA FifoStep ==
    ASSUME TypeOK, FifoContents, [Next]_vars
    PROVE  FifoContents'
  <1> USE PipeConstants
  <1>0. ASSUME UNCHANGED <<ring, sent>> PROVE FifoContents'
    BY <1>0 DEF FifoContents, ring
  <1>1. CASE UNCHANGED vars
    BY <1>0, <1>1 DEF vars
  <1> SUFFICES ASSUME Next PROVE FifoContents'
    BY <1>1
  <1> PICK p \in Procs : Step(p)
    BY NextCases
  <1>2. CASE Create(p)
    <2>1. (0 + 0) % PIPE_BUF_SIZE = 0
      OBVIOUS
    <2> QED
      BY <1>2, <2>1 DEF Create, FifoContents
  <1>3. CASE ReadSome(p)
    <2> DEFINE n == Min2(left[p], count)
    <2>1. n \in Nat /\ n <= count
      BY DEF Min2, TypeOK
    <2>2. /\ tail' = (tail + n) % PIPE_BUF_SIZE /\ count' = count - n
          /\ buf' = buf /\ head' = head /\ sent' = sent
      BY <1>3 DEF ReadSome
    <2> HIDE DEF n
    <2>3. ASSUME NEW k \in 0 .. count - n
          PROVE  (tail' + k) % PIPE_BUF_SIZE = (tail + (n + k)) % PIPE_BUF_SIZE
      <3>1. tail \in 0 .. PIPE_BUF_SIZE - 1 /\ k \in Nat /\ n + k <= PIPE_BUF_SIZE
        BY <2>1 DEF TypeOK, Index
      <3> QED
        BY <2>1, <2>2, <3>1, RingWalk, ZenonT(60)
    <2>4. head' = (tail' + count') % PIPE_BUF_SIZE
      <3>1. count - n \in 0 .. count - n /\ n + (count - n) = count
        BY <2>1 DEF TypeOK
      <3>2. (tail' + (count - n)) % PIPE_BUF_SIZE = (tail + count) % PIPE_BUF_SIZE
        BY <2>3, <3>1, Zenon
      <3> QED
        BY <2>2, <3>2 DEF FifoContents
    <2>5. ASSUME NEW k \in 0 .. count' - 1
          PROVE  buf'[(tail' + k) % PIPE_BUF_SIZE] = sent' - count' + k + 1
      <3>1. k \in 0 .. count - n /\ n + k \in 0 .. count - 1
        BY <2>1, <2>2 DEF TypeOK
      <3>2. (tail' + k) % PIPE_BUF_SIZE = (tail + (n + k)) % PIPE_BUF_SIZE
        BY <2>3, <3>1, Zenon
      <3>3. buf[(tail + (n + k)) % PIPE_BUF_SIZE] = sent - count + (n + k) + 1
        BY <3>1, Zenon DEF FifoContents
      <3>4. sent - count + (n + k) + 1 = sent' - count' + k + 1
        BY <2>1, <2>2, <3>1, SMTT(30) DEF TypeOK
      <3> QED
        BY <2>2, <3>2, <3>3, <3>4, Zenon
    <2> QED
      BY <2>4, <2>5, Zenon DEF FifoContents
  <1>4. CASE WriteSome(p)
    <2> DEFINE n == Min2(left[p], PIPE_BUF_SIZE - count)
    <2>1. n \in Nat /\ n <= PIPE_BUF_SIZE - count
      BY DEF Min2, TypeOK
    <2>2. /\ head' = (head + n) % PIPE_BUF_SIZE /\ count' = count + n
          /\ sent' = sent + n /\ tail' = tail
      BY <1>4 DEF WriteSome
    <2>3. buf' = [i \in Index |->
                    LET k == (i - head + PIPE_BUF_SIZE) % PIPE_BUF_SIZE
                    IN IF k < n THEN sent + k + 1 ELSE buf[i]]
      BY <1>4 DEF WriteSome
    <2> HIDE DEF n
    <2>4. /\ tail \in 0 .. PIPE_BUF_SIZE - 1 /\ tail \in Nat
          /\ count \in Nat /\ count \in 0 .. PIPE_BUF_SIZE /\ count + n <= PIPE_BUF_SIZE
      BY <2>1 DEF TypeOK, Index
    <2>5. head' = (tail' + count') % PIPE_BUF_SIZE
      <3>1. head = (tail + count) % PIPE_BUF_SIZE
        BY DEF FifoContents
      <3> QED
        BY <2>1, <2>2, <2>4, <3>1, RingWalk, ZenonT(60)
    <2>6. ASSUME NEW k \in 0 .. count' - 1
          PROVE  buf'[(tail' + k) % PIPE_BUF_SIZE] = sent' - count' + k + 1
      <3> DEFINE i == (tail + k) % PIPE_BUF_SIZE
                 d == (i - head + PIPE_BUF_SIZE) % PIPE_BUF_SIZE
      <3>1. k \in 0 .. PIPE_BUF_SIZE - 1 /\ tail + k \in Nat
        BY <2>1, <2>2, <2>4
      <3>2. i \in Index /\ i = (tail + k) % PIPE_BUF_SIZE
        BY <3>1, RingIndex, Zenon
      <3> HIDE DEF i
      <3>3. d = IF k < count THEN PIPE_BUF_SIZE + k - count ELSE k - count
        <4> DEFINE e == i - head + PIPE_BUF_SIZE
        <4>1. k \in Nat /\ k <= PIPE_BUF_SIZE /\ count <= PIPE_BUF_SIZE
          BY <2>4, <3>1
        <4>2. i = IF tail + k < PIPE_BUF_SIZE THEN tail + k ELSE tail + k - PIPE_BUF_SIZE
          BY <2>4, <3>2, <4>1, RingPlace, Zenon
        <4>3. head = IF tail + count < PIPE_BUF_SIZE THEN tail + count
                     ELSE tail + count - PIPE_BUF_SIZE
          BY <2>4, <4>1, RingPlace, Zenon DEF FifoContents
        <4>4. /\ e \in 0 .. 2 * PIPE_BUF_SIZE - 1
              /\ e = k - count \/ e = k - count + PIPE_BUF_SIZE
                 \/ e = k - count + 2 * PIPE_BUF_SIZE
          BY <2>4, <3>1, <4>2, <4>3
        <4> HIDE DEF e
        <4>5. e % PIPE_BUF_SIZE = IF e < PIPE_BUF_SIZE THEN e ELSE e - PIPE_BUF_SIZE
          BY <4>4, RingTurn, Zenon
        <4>6. e % PIPE_BUF_SIZE = IF k < count THEN PIPE_BUF_SIZE + k - count ELSE k - count
          BY <2>4, <3>1, <4>4, <4>5
        <4> QED
          BY <4>6, Zenon DEF e
      <3>4. buf'[i] = IF d < n THEN sent + d + 1 ELSE buf[i]
        BY <2>3, <3>2, Zenon
      <3> HIDE DEF d
      <3>5. CASE k < count
        <4>1. k \in 0 .. count - 1 /\ ~(d < n)
          BY <2>1, <2>4, <3>1, <3>3, <3>5
        <4>2. buf[i] = sent - count + k + 1
          BY <3>2, <4>1, Zenon DEF FifoContents
        <4>3. sent - count + k + 1 = sent' - count' + k + 1
          BY <2>1, <2>2, <2>4, <3>1 DEF TypeOK
        <4> QED
          BY <2>2, <3>2, <3>4, <4>1, <4>2, <4>3, Zenon
      <3>6. CASE ~(k < count)
        <4>1. d < n /\ sent + d + 1 = sent' - count' + k + 1
          BY <2>1, <2>2, <2>4, <3>1, <3>3, <3>6, SMTT(30) DEF TypeOK
        <4> QED
          BY <2>2, <3>2, <3>4, <4>1, Zenon
      <3> QED
        BY <3>5, <3>6
    <2> QED
      BY <2>5, <2>6, Zenon DEF FifoContents
  <1>5. CASE CloseRead(p) \/ CloseWrite(p)
    BY <1>0, <1>5 DEF CloseRead, CloseWrite
  <1>6. CASE ReadEof(p) \/ ReadBlock(p) \/ WriteBroken(p) \/ WriteBlock(p)
    BY <1>0, <1>6 DEF ReadEof, ReadBlock, WriteBroken, WriteBlock
  <1>7. CASE \E q \in Procs : DupRead(p, q)
    BY <1>0, <1>7 DEF DupRead
  <1>8. CASE \E q \in Procs : DupWrite(p, q)
    BY <1>0, <1>8 DEF DupWrite
  <1>9. CASE \E n \in 1 .. MaxLen : ReadCall(p, n) \/ WriteCall(p, n)
    BY <1>0, <1>9 DEF ReadCall, WriteCall, Call
  <1> QED
    BY <1>2, <1>3, <1>4, <1>5, <1>6, <1>7, <1>8, <1>9, ZenonT(30) DEF Step

\* The counts: an end handed on or given up adds or removes one holder.
LEMMA RefsStep ==
    ASSUME TypeOK, RefsMatch, [Next]_vars
    PROVE  RefsMatch'
  <1> USE PipeConstants
  <1>0. ASSUME UNCHANGED refs PROVE RefsMatch'
    BY <1>0 DEF RefsMatch, refs
  <1>1. CASE UNCHANGED vars
    BY <1>0, <1>1 DEF vars
  <1> SUFFICES ASSUME Next PROVE RefsMatch'
    BY <1>1
  <1>2. IsFiniteSet(readers) /\ IsFiniteSet(writers)
    BY FS_Subset DEF TypeOK
  <1> PICK p \in Procs : Step(p)
    BY NextCases
  <1>3. CASE Create(p)
    <2>1. Cardinality({p}) = 1
      BY FS_Singleton, Zenon
    <2> QED
      BY <1>3, <2>1 DEF Create, RefsMatch
  <1>4. CASE CloseRead(p)
    <2>1. p \in readers /\ readers' = readers \ {p}
      BY <1>4 DEF CloseRead
    <2>2. /\ IsFiniteSet(readers') /\ Cardinality(readers) \in Nat
          /\ Cardinality(readers) # 0
          /\ Cardinality(readers') = Cardinality(readers) - 1
      BY <1>2, <2>1, FS_RemoveElement, FS_CardinalityType, FS_EmptySet, SMTT(30)
    <2>3. read_refs' = Cardinality(readers') /\ (read_refs' = 0 <=> readers' = {})
      BY <1>4, <2>2, FS_EmptySet DEF CloseRead, RefsMatch
    <2>4. write_refs = 0 <=> writers = {}
      BY <1>2, FS_EmptySet DEF RefsMatch
    <2>5. used
      BY <2>1 DEF RefsMatch
    <2> QED
      BY <1>4, <2>3, <2>4, <2>5, Zenon DEF CloseRead, RefsMatch
  <1>5. CASE CloseWrite(p)
    <2>1. p \in writers /\ writers' = writers \ {p}
      BY <1>5 DEF CloseWrite
    <2>2. /\ IsFiniteSet(writers') /\ Cardinality(writers) \in Nat
          /\ Cardinality(writers) # 0
          /\ Cardinality(writers') = Cardinality(writers) - 1
      BY <1>2, <2>1, FS_RemoveElement, FS_CardinalityType, FS_EmptySet
    <2>3. write_refs' = Cardinality(writers') /\ (write_refs' = 0 <=> writers' = {})
      BY <1>5, <2>2, FS_EmptySet DEF CloseWrite, RefsMatch
    <2>4. read_refs = 0 <=> readers = {}
      BY <1>2, FS_EmptySet DEF RefsMatch
    <2>5. used
      BY <2>1 DEF RefsMatch
    <2> QED
      BY <1>5, <2>3, <2>4, <2>5, Zenon DEF CloseWrite, RefsMatch
  <1>6. CASE \E q \in Procs : DupRead(p, q)
    <2> PICK q \in Procs : DupRead(p, q)
      BY <1>6
    <2>1. Cardinality(readers \cup {q}) = Cardinality(readers) + 1
      BY <1>2, FS_AddElement, Zenon DEF DupRead
    <2> QED
      BY <2>1 DEF DupRead, RefsMatch
  <1>7. CASE \E q \in Procs : DupWrite(p, q)
    <2> PICK q \in Procs : DupWrite(p, q)
      BY <1>7
    <2>1. Cardinality(writers \cup {q}) = Cardinality(writers) + 1
      BY <1>2, FS_AddElement DEF DupWrite
    <2> QED
      BY <2>1 DEF DupWrite, RefsMatch
  <1>8. CASE ReadSome(p) \/ ReadEof(p) \/ ReadBlock(p)
    BY <1>0, <1>8 DEF ReadSome, ReadEof, ReadBlock
  <1>9. CASE WriteBroken(p) \/ WriteSome(p) \/ WriteBlock(p)
    BY <1>0, <1>9 DEF WriteBroken, WriteSome, WriteBlock
  <1>10. CASE \E n \in 1 .. MaxLen : ReadCall(p, n) \/ WriteCall(p, n)
    BY <1>0, <1>10, Zenon DEF ReadCall, WriteCall, Call
  <1> QED
    BY <1>3, <1>4, <1>5, <1>6, <1>7, <1>8, <1>9, <1>10, ZenonT(30) DEF Step

\* A call starts only where nobody is in it, and no end is closed by a process
\* that is in a call.
LEMMA CallsStep ==
    ASSUME TypeOK, CallsMatch, RefsMatch, [Next]_vars
    PROVE  CallsMatch'
  <1> USE DEF TypeOK, CallsMatch
  <1>0. ASSUME UNCHANGED <<op, readers, writers>> PROVE CallsMatch'
    BY <1>0, Zenon
  <1>1. CASE UNCHANGED vars
    BY <1>0, <1>1, Zenon DEF vars, refs, calls
  <1> SUFFICES ASSUME Next PROVE CallsMatch'
    BY <1>1
  <1> PICK p \in Procs : Step(p)
    BY NextCases
  <1>2. CASE Create(p)
    BY <1>2, Zenon DEF Create, RefsMatch, calls
  <1>3. CASE CloseRead(p) \/ CloseWrite(p)
    BY <1>3 DEF CloseRead, CloseWrite, Runs, calls
  <1>4. ASSUME op' = [op EXCEPT ![p] = "none"], UNCHANGED <<readers, writers>>
        PROVE  CallsMatch'
    BY <1>4, ZenonT(30)
  <1>5. CASE ReadSome(p) \/ ReadEof(p) \/ WriteBroken(p)
    BY <1>4, <1>5, ZenonT(30) DEF ReadSome, ReadEof, WriteBroken, Finish, refs
  <1>6. CASE ReadBlock(p) \/ WriteBlock(p)
    BY <1>0, <1>6, ZenonT(30) DEF ReadBlock, WriteBlock, calls, refs
  <1>7. CASE WriteSome(p)
    BY <1>0, <1>4, <1>7, ZenonT(30) DEF WriteSome, Finish, refs
  <1>8. CASE \E q \in Procs : DupRead(p, q)
    BY <1>8 DEF DupRead, calls
  <1>9. CASE \E q \in Procs : DupWrite(p, q)
    BY <1>9 DEF DupWrite, calls
  <1>10. CASE \E n \in 1 .. MaxLen : ReadCall(p, n) \/ WriteCall(p, n)
    BY <1>10, SMTT(30) DEF ReadCall, WriteCall, Call, refs
  <1> QED
    BY <1>2, <1>3, <1>5, <1>6, <1>7, <1>8, <1>9, <1>10, ZenonT(30) DEF Step

\* Whoever removes the reason to wait wakes the registered waiter in the same
\* step, and a process registers in the step in which it blocks.
LEMMA WakeupStep ==
    ASSUME TypeOK, RefsMatch, CallsMatch, NoLostWakeup, [Next]_vars
    PROVE  NoLostWakeup'
  <1> USE PipeConstants DEF TypeOK, NoLostWakeup
  <1>1. CASE UNCHANGED vars
    BY <1>1, Zenon DEF vars, ring, refs, calls
  <1> SUFFICES ASSUME Next PROVE NoLostWakeup'
    BY <1>1
  <1> PICK p \in Procs : Step(p)
    BY NextCases, Zenon
  <1>2. CASE Create(p)
    <2>1. read_refs = 0 /\ write_refs = 0
      BY <1>2, FS_EmptySet, ZenonT(30) DEF Create, RefsMatch
    <2> QED
      BY <1>2, <2>1, ZenonT(30) DEF Create
  <1>3. CASE CloseRead(p)
    BY <1>3 DEF CloseRead, Wake, ring, calls
  <1>4. CASE CloseWrite(p)
    BY <1>4, SMTT(30) DEF CloseWrite, Wake, ring, calls
  <1>5. CASE ReadSome(p)
    <2>1. \A q \in Procs : state[q] = "BLOCKED" => q = write_waiter
      BY <1>5, SMTT(30) DEF ReadSome
    <2> QED
      BY <1>5, <2>1, ZenonT(30) DEF ReadSome, Wake
  <1>6. CASE ReadEof(p) \/ WriteBroken(p)
    BY <1>6 DEF ReadEof, WriteBroken, Finish, Runs, ring, refs
  <1>7. CASE ReadBlock(p)
    <2>1. \A q \in Procs : op[q] = "read" => q = p
      BY <1>7, ZenonT(30) DEF ReadBlock, Runs, CallsMatch
    <2> QED
      BY <1>7, <2>1 DEF ReadBlock, Runs, ring, refs, calls
  <1>8. CASE WriteSome(p)
    <2>1. \A q \in Procs : state[q] = "BLOCKED" => q = read_waiter
      BY <1>8 DEF WriteSome
    <2> QED
      BY <1>8, <2>1, ZenonT(60) DEF WriteSome, Wake
  <1>9. CASE WriteBlock(p)
    <2>1. \A q \in Procs : op[q] = "write" => q = p
      BY <1>9 DEF WriteBlock, Runs, CallsMatch
    <2> QED
      BY <1>9, <2>1 DEF WriteBlock, Runs, ring, refs, calls
  <1>10. CASE \E q \in Procs : DupRead(p, q)
    BY <1>10, SMTT(30) DEF DupRead, ring, calls
  <1>11. CASE \E q \in Procs : DupWrite(p, q)
    BY <1>11, SMTT(30) DEF DupWrite, ring, calls
  <1>12. CASE \E n \in 1 .. MaxLen : ReadCall(p, n) \/ WriteCall(p, n)
    BY <1>12 DEF ReadCall, WriteCall, Call, Runs, ring, refs
  <1> QED
    BY <1>2, <1>3, <1>4, <1>5, <1>6, <1>7, <1>8, <1>9, <1>10, <1>11, <1>12, ZenonT(60) DEF Step

-----------------------------------------------------------------------------
(* The theorems.                                                           *)

\* PipeInv is an inductive invariant of the pipe.
THEOREM PipeInvariant == Spec => []PipeInv
  <1>1. PipeInv /\ [Next]_vars => PipeInv'
    BY TypeStep, FifoStep, RefsStep, CallsStep, WakeupStep DEF PipeInv
  <1> QED
    BY InitInv, <1>1, PTL DEF Spec

\* pipe_read and pipe_write keep head, tail and count within the buffer.
THEOREM PipeTypes == Spec => []TypeOK
  BY PipeInvariant, PTL DEF PipeInv

\* The bytes between tail and head are the last ones written, in order: what
\* pipe_read copies out is what pipe_write put in, however often both wrap.
THEOREM PipeIsFifo == Spec => []FifoContents
  BY PipeInvariant, PTL DEF PipeInv

\* The reference counts are the numbers of holders, so pipe_release_read and
\* pipe_release_write free the slot with the last end and never earlier.
THEOREM PipeRefsMatch == Spec => []RefsMatch
  BY PipeInvariant, PTL DEF PipeInv

\* A process blocked in pipe_read or pipe_write still has reason to wait and is
\* registered with the pipe, so the step that ends the reason wakes it.
THEOREM PipeNoLostWakeup == Spec => []NoLostWakeup
  BY PipeInvariant, PTL DEF PipeInv

-----------------------------------------------------------------------------
(* Queues of consecutive numbers.                                          *)

\* The c numbers that end with s.
LastOf(s, c) == [k \in 1 .. c |-> s - c + k]

\* Appending the next m numbers.
LEMMA LastOfAppend ==
    ASSUME NEW s \in Nat, NEW c \in Nat, NEW m \in Nat
    PROVE  LastOf(s, c) \o [k \in 1 .. m |-> s + k] = LastOf(s + m, c + m)
  BY DEF LastOf

\* There is nothing in flight when there are none.
LEMMA LastOfNone ==
    ASSUME NEW s \in Nat, NEW c \in Nat
    PROVE  LastOf(s, c) = <<>> <=> c = 0
  BY DEF LastOf

-----------------------------------------------------------------------------
(* The mapping.                                                            *)

\* The ring's contents under the invariant.
LEMMA ContentsAre ==
    ASSUME TypeOK, FifoContents
    PROVE  Contents = LastOf(sent, count)
  <1> SUFFICES ASSUME NEW k \in 1 .. count
               PROVE  buf[(tail + k - 1) % PIPE_BUF_SIZE] = sent - count + k
    BY DEF Contents, LastOf
  <1>1. k - 1 \in 0 .. count - 1 /\ tail + k - 1 = tail + (k - 1)
        /\ sent - count + (k - 1) + 1 = sent - count + k
    BY PipeConstants DEF TypeOK, Index
  <1>2. buf[(tail + (k - 1)) % PIPE_BUF_SIZE] = sent - count + (k - 1) + 1
    BY <1>1, ZenonT(40) DEF FifoContents
  <1> QED
    BY <1>1, <1>2

\* A process that still writes has something left to write.
LeftToWrite == \A p \in Procs : op[p] = "write" => left[p] > 0

RefineInv == PipeInv /\ LeftToWrite

\* WriteSome goes on only with bytes left; a call starts with at least one.
LEMMA LeftStep ==
    ASSUME TypeOK, LeftToWrite, [Next]_vars
    PROVE  LeftToWrite'
  <1> USE PipeConstants DEF TypeOK, LeftToWrite
  <1>0. ASSUME UNCHANGED calls PROVE LeftToWrite'
    BY <1>0, SMTT(30) DEF calls
  <1>1. CASE UNCHANGED vars
    BY <1>0, <1>1, ZenonT(30) DEF vars
  <1> SUFFICES ASSUME Next PROVE LeftToWrite'
    BY <1>1
  <1> PICK p \in Procs : Step(p)
    BY NextCases, Zenon
  <1>2. CASE Create(p) \/ CloseRead(p) \/ CloseWrite(p) \/ ReadBlock(p) \/ WriteBlock(p)
    BY <1>0, <1>2, ZenonT(30) DEF Create, CloseRead, CloseWrite, ReadBlock, WriteBlock
  <1>3. CASE ReadSome(p) \/ ReadEof(p) \/ WriteBroken(p)
    BY <1>3, ZenonT(60) DEF ReadSome, ReadEof, WriteBroken, Finish
  <1>4. CASE WriteSome(p)
    <2> DEFINE m == Min2(left[p], PIPE_BUF_SIZE - count)
    <2>1. m \in Nat /\ m <= left[p]
      BY SMTT(30) DEF Min2
    <2>2. IF m = left[p] THEN Finish(p, "ok")
          ELSE left' = [left EXCEPT ![p] = @ - m] /\ UNCHANGED <<op, result>>
      BY <1>4, SMTT(30) DEF WriteSome
    <2> HIDE DEF m
    <2> QED
      BY <2>1, <2>2, SMTT(30) DEF Finish
  <1>5. CASE \E q \in Procs : DupRead(p, q) \/ DupWrite(p, q)
    BY <1>0, <1>5, Zenon DEF DupRead, DupWrite
  <1>6. CASE \E m \in 1 .. MaxLen : ReadCall(p, m) \/ WriteCall(p, m)
    BY <1>6 DEF ReadCall, WriteCall, Call
  <1> QED
    BY <1>2, <1>3, <1>4, <1>5, <1>6, ZenonT(60) DEF Step

\* The empty ring is the empty queue.
LEMMA InitRefines == Init => Promise!Init
  <1> SUFFICES ASSUME Init PROVE Contents = <<>>
    BY Zenon DEF Init, Promise!Init
  <1> QED
    BY DEF Init, Contents

\* Every step of the ring is a step of the queue or leaves it alone: blocking
\* and waking are invisible, and each copy of bytes takes or adds exactly the
\* bytes PipeSpec allows.
LEMMA StepRefines ==
    ASSUME RefineInv, RefineInv', [Next]_vars
    PROVE  [Promise!Next]_(Promise!vars)
  <1> USE PipeConstants
  <1>1. /\ Contents = LastOf(sent, count) /\ Contents' = LastOf(sent', count')
        /\ sent \in Nat /\ count \in Nat /\ sent' \in Nat /\ count' \in Nat
    <2>1. Contents = LastOf(sent, count)
      BY ContentsAre DEF RefineInv, PipeInv
    <2>2. (TypeOK /\ FifoContents => Contents = LastOf(sent, count))'
      BY ContentsAre, PTL
    <2>3. TypeOK /\ TypeOK' /\ FifoContents'
      BY DEF RefineInv, PipeInv
    <2>4. sent \in Nat /\ count \in Nat /\ sent' \in Nat /\ count' \in Nat
      BY <2>3 DEF TypeOK
    <2>5. Contents' = LastOf(sent', count')
      BY <2>2, <2>3, Zenon DEF LastOf
    <2> QED
      BY <2>1, <2>4, <2>5
  <1>2. Contents # <<>> <=> count # 0
    BY <1>1, LastOfNone
  <1>3. (readers = {} <=> read_refs = 0) /\ (writers = {} <=> write_refs = 0)
    <2>1. IsFiniteSet(readers) /\ IsFiniteSet(writers)
      BY FS_Subset DEF RefineInv, PipeInv, TypeOK
    <2> QED
      BY <2>1, FS_EmptySet, Zenon DEF RefineInv, PipeInv, RefsMatch
  <1>4. used' <=> readers' # {} \/ writers' # {}
    BY Zenon DEF RefineInv, PipeInv, RefsMatch
  <1>5. used \in BOOLEAN /\ used' \in BOOLEAN
    BY DEF RefineInv, PipeInv, TypeOK
  <1>6. ASSUME UNCHANGED <<count, sent>> PROVE UNCHANGED Contents
    BY <1>1, <1>6
  <1>7. ASSUME UNCHANGED <<ring, refs, calls, got, sent>> PROVE UNCHANGED Promise!vars
    BY <1>6, <1>7 DEF ring, refs, calls, Promise!vars
  <1>8. CASE UNCHANGED vars
    BY <1>7, <1>8 DEF vars
  <1> SUFFICES ASSUME Next PROVE Promise!Next \/ UNCHANGED Promise!vars
    BY <1>8
  <1> PICK p \in Procs : Step(p)
    BY NextCases
  <1>9. CASE Create(p)
    <2>1. Contents' = <<>>
      BY <1>1, <1>9, LastOfNone, ZenonT(30) DEF Create
    <2>2. Promise!Create(p)
      BY <1>9, <2>1, SMTT(30) DEF Create, Runs, calls, Promise!Create, Promise!calls
    <2> QED
      BY <2>2 DEF Promise!Next
  <1>10. CASE CloseRead(p)
    <2>1. UNCHANGED <<ring, writers, calls, got, sent>> /\ p \in readers /\ op[p] = "none"
          /\ readers' = readers \ {p}
      BY <1>10 DEF CloseRead, Runs
    <2>2. Promise!CloseRead(p)
      BY <1>4, <1>5, <1>6, <2>1 DEF ring, calls, Promise!CloseRead, Promise!calls
    <2> QED
      BY <2>2, ZenonT(30) DEF Promise!Next
  <1>11. CASE CloseWrite(p)
    <2>1. UNCHANGED <<ring, readers, calls, got, sent>> /\ p \in writers /\ op[p] = "none"
          /\ writers' = writers \ {p}
      BY <1>11, Zenon DEF CloseWrite, Runs
    <2>2. Promise!CloseWrite(p)
      BY <1>4, <1>5, <1>6, <2>1, ZenonT(30) DEF ring, calls, Promise!CloseWrite, Promise!calls
    <2> QED
      BY <2>2, SMTT(30) DEF Promise!Next
  <1>12. CASE ReadSome(p)
    <2> DEFINE m == Min2(left[p], count)
    <2>1. m \in Nat /\ m <= count /\ left[p] \in Nat
      BY <1>1, SMTT(30) DEF Min2, RefineInv, PipeInv, TypeOK
    <2>2. /\ got' = [k \in 1 .. m |-> buf[(tail + k - 1) % PIPE_BUF_SIZE]]
          /\ count' = count - m /\ count > 0 /\ sent' = sent
          /\ op[p] = "read" /\ Finish(p, "data") /\ UNCHANGED refs
      BY <1>12, Zenon DEF ReadSome, Runs
    <2> HIDE DEF m
    <2>3. Len(Contents) = count
          /\ SubSeq(Contents, 1, m) = [k \in 1 .. m |-> sent - count + k]
          /\ SubSeq(Contents, m + 1, count) = LastOf(sent, count - m)
      <3>1. Len(Contents) = count
        BY <1>1 DEF LastOf
      <3>2. SubSeq(LastOf(sent, count), 1, m) = [k \in 1 .. m |-> sent - count + k]
        BY <1>1, <2>1 DEF LastOf
      <3>3. SubSeq(LastOf(sent, count), m + 1, count) = LastOf(sent, count - m)
        BY <1>1, <2>1, SMTT(30) DEF LastOf
      <3> QED
        BY <1>1, <3>1, <3>2, <3>3, Zenon
    <2>4. m = IF left[p] < Len(Contents) THEN left[p] ELSE Len(Contents)
      BY <2>3 DEF Min2, m
    <2>5. got' = SubSeq(Contents, 1, m)
      <3> SUFFICES ASSUME NEW k \in 1 .. m
                   PROVE  buf[(tail + k - 1) % PIPE_BUF_SIZE] = sent - count + k
        BY <2>2, <2>3
      <3>1. k \in 1 .. count
        BY <1>1, <2>1, SMTT(30)
      <3>2. Contents[k] = buf[(tail + k - 1) % PIPE_BUF_SIZE]
        BY <3>1 DEF Contents
      <3>3. Contents[k] = sent - count + k
        BY <1>1, <3>1, ZenonT(30) DEF LastOf
      <3> QED
        BY <3>2, <3>3, SMTT(30)
    <2>6. Contents' = SubSeq(Contents, m + 1, Len(Contents))
      BY <1>1, <2>2, <2>3, ZenonT(30)
    <2>7. Promise!Finish(p, "data")
      BY <2>2, Zenon DEF Finish, Promise!Finish
    <2>8. Promise!Read(p)
      BY <1>1, <1>2, <2>2, <2>4, <2>5, <2>6, <2>7, SMTT(30) DEF refs, Promise!Read
    <2> QED
      BY <2>8, ZenonT(30) DEF Promise!Next, Promise!Progress
  <1>13. CASE ReadEof(p)
    <2>1. Promise!Eof(p)
      BY <1>2, <1>3, <1>6, <1>13, ZenonT(30) DEF ReadEof, Runs, Finish, ring, refs, Promise!Eof, Promise!Finish
    <2> QED
      BY <2>1, ZenonT(30) DEF Promise!Next, Promise!Progress
  <1>14. CASE ReadBlock(p) \/ WriteBlock(p)
    BY <1>7, <1>14, SMTT(30) DEF ReadBlock, WriteBlock
  <1>15. CASE WriteBroken(p)
    <2>1. Promise!Broken(p)
      BY <1>3, <1>6, <1>15 DEF WriteBroken, Runs, Finish, ring, refs, Promise!Broken, Promise!Finish
    <2> QED
      BY <2>1 DEF Promise!Next, Promise!Progress
  <1>16. CASE WriteSome(p)
    <2> DEFINE m == Min2(left[p], PIPE_BUF_SIZE - count)
    <2>1. op[p] = "write" /\ read_refs # 0 /\ count < PIPE_BUF_SIZE
      BY <1>16, Zenon DEF WriteSome, Runs
    <2>2. m \in 1 .. left[p] /\ m \in Nat /\ count + m <= PIPE_BUF_SIZE
      BY <1>1, <2>1, SMTT(30) DEF Min2, RefineInv, PipeInv, TypeOK, LeftToWrite
    <2>3. /\ count' = count + m /\ sent' = sent + m /\ UNCHANGED <<refs, got>>
          /\ IF m = left[p] THEN Finish(p, "ok")
             ELSE left' = [left EXCEPT ![p] = @ - m] /\ UNCHANGED <<op, result>>
      BY <1>16 DEF WriteSome
    <2> HIDE DEF m
    <2>4. Len(Contents) = count
      BY <1>1 DEF LastOf
    <2>5. Contents' = Contents \o [k \in 1 .. m |-> sent + k]
      <3>1. LastOf(sent, count) \o [k \in 1 .. m |-> sent + k] = LastOf(sent + m, count + m)
        BY <1>1, <2>2, LastOfAppend, ZenonT(60)
      <3>2. LastOf(sent', count') = LastOf(sent + m, count + m)
        BY <2>3
      <3> QED
        BY <1>1, <3>1, <3>2, Zenon
    <2>6. IF m = left[p] THEN Promise!Finish(p, "ok")
          ELSE left' = [left EXCEPT ![p] = @ - m] /\ UNCHANGED <<op, result>>
      BY <2>3 DEF Finish, Promise!Finish
    <2>7. Promise!Accept(p)
      BY <1>3, <2>1, <2>2, <2>3, <2>4, <2>5, <2>6, Zenon DEF refs, Promise!Accept
    <2> QED
      BY <2>7, ZenonT(30) DEF Promise!Next, Promise!Progress
  <1>17. CASE \E q \in Procs : DupRead(p, q)
    <2> PICK q \in Procs : DupRead(p, q)
      BY <1>17
    <2>1. Promise!DupRead(p, q)
      BY <1>6 DEF DupRead, ring, calls, Promise!DupRead, Promise!calls
    <2> QED
      BY <2>1 DEF Promise!Next
  <1>18. CASE \E q \in Procs : DupWrite(p, q)
    <2> PICK q \in Procs : DupWrite(p, q)
      BY <1>18
    <2>1. Promise!DupWrite(p, q)
      BY <1>6 DEF DupWrite, ring, calls, Promise!DupWrite, Promise!calls
    <2> QED
      BY <2>1, Zenon DEF Promise!Next
  <1>19. CASE \E m \in 1 .. MaxLen : ReadCall(p, m) \/ WriteCall(p, m)
    <2> PICK m \in 1 .. MaxLen : ReadCall(p, m) \/ WriteCall(p, m)
      BY <1>19, Zenon
    <2>1. Promise!ReadCall(p, m) \/ Promise!WriteCall(p, m)
      BY <1>6 DEF ReadCall, WriteCall, Call, Runs, ring, refs,
                  Promise!ReadCall, Promise!WriteCall, Promise!Call
    <2> QED
      BY <2>1 DEF Promise!Next
  <1> QED
    BY <1>9, <1>10, <1>11, <1>12, <1>13, <1>14, <1>15, <1>16, <1>17, <1>18, <1>19, ZenonT(60) DEF Step

-----------------------------------------------------------------------------
\* pipe.c keeps every safety promise of pipe.h (PipeSpec without its fairness):
\* bytes come out once and in order, a read ends without data only when no
\* write end is left, a write fails only when no read end is left, and the
\* slot is given back with its last end.
THEOREM PipeImplements == Spec => Promise!Safety
  <1>1. Init => RefineInv
    BY InitInv DEF Init, RefineInv, LeftToWrite
  <1>2. RefineInv /\ [Next]_vars => RefineInv'
    BY TypeStep, FifoStep, RefsStep, CallsStep, WakeupStep, LeftStep DEF RefineInv, PipeInv
  <1>3. RefineInv /\ RefineInv' /\ [Next]_vars => [Promise!Next]_(Promise!vars)
    BY StepRefines
  <1> QED
    BY InitRefines, <1>1, <1>2, <1>3, PTL DEF Spec, Promise!Safety
=============================================================================
