------------------------------- MODULE Fat16 -------------------------------
(***************************************************************************)
(* The FAT16 file system (kernel/fs/fat16.c) under the calls of one        *)
(* process (kernel/fs/vfs.c, kernel/syscall.c): the FAT is cached in       *)
(* memory (g_fat) and written back by fat16_flush_fat; data, directory     *)
(* sectors and the FAT reach the disk one sector at a time, each write may *)
(* fail, and power may be lost between any two of them.                    *)
(*                                                                         *)
(* A sector holds Bpc units.  A unit is a byte of a file or one directory  *)
(* entry; a cluster is one sector.  File names are abstract, To83 is the   *)
(* conversion to 8.3 names.  Files are never deleted, so no entry ever     *)
(* carries DIRENT_DELETED.                                                 *)
(***************************************************************************)
EXTENDS Integers, Sequences, FiniteSets, SequencesExt

CONSTANTS
    TotalClusters,  \* g_total_clusters: data clusters are 2..TotalClusters-1
    Bpc,            \* units per sector, and sectors per cluster is one
    FatPerSector,   \* FAT entries per FAT sector
    NumFats,        \* g_num_fats
    RootEntries,    \* entries of the fixed root directory
    PathMaxDepth,   \* FAT16_PATH_MAX_DEPTH
    Chunk,          \* SYS_WRITE_CHUNK
    Names, To83,    \* file names, and their 8.3 form
    Shown,          \* what an 8.3 name is shown as: it ends at its first space
    Paths,          \* the paths programs open and make: [abs, comps]
    DirPaths,       \* the paths they change to
    Fds,            \* descriptors of the process
    Lens,           \* lengths programs write
    Images,         \* the disks a boot may find: [fat, root, data]
    MaxCalls,       \* bound: calls that write or change directory
    MaxFaults       \* bound: failed writes and power losses

ASSUME FatAssumption ==
    /\ TotalClusters > 2 /\ Bpc >= 2 /\ Chunk > 0 /\ NumFats > 0
    /\ To83 \in [Names -> Names]
    /\ \A n \in Names : To83[To83[n]] = To83[n]
    /\ {".", ".."} \subseteq Names
    /\ To83["."] = "." /\ To83[".."] = ".."
    /\ Shown \in [Names -> Names]

Clusters == 2 .. TotalClusters - 1
FatSectors == ((TotalClusters - 1) \div FatPerSector) + 1
Free == 0
Eoc == 65535
None == <<>>

VARIABLES
    disk,      \* [fat, root, data]: what the disk holds
    g_fat,     \* the FAT cached in the heap
    fds,       \* the vfs_fd_t of each descriptor
    cwd,       \* cwd_cluster
    call,      \* the writing call in progress
    calls,     \* calls counted against MaxCalls
    faults,    \* failed writes and power losses so far
    behind,    \* history: the entries whose chain the disk's FAT may lack, as the
               \* flush of it failed and none has succeeded since
    torn,      \* history: a replacement or a mkdir was cut short
    saved      \* history: what each file held when the last call returned

vars == <<disk, g_fat, fds, cwd, call, calls, faults, behind, torn, saved>>

Empty == [kind |-> "zero"]
Junk == [kind |-> "junk"]
Byte(v) == [kind |-> "byte", v |-> v]
Entry(n, isdir, first, size) ==
    [kind |-> "ent", name |-> n, dir |-> isdir, first |-> first, size |-> size]

Zeros == [i \in 1 .. Bpc |-> Empty]
Closed == [used |-> FALSE, dir |-> 0, name |-> ".", first |-> 0, size |-> 0,
           pos |-> 0, old |-> FALSE]
NoCall == [op |-> "none", pc |-> "done", ret |-> 0]

(***************************************************************************)
(* The FAT                                                                 *)
(***************************************************************************)

IsCluster(c) == c >= 2 /\ c < 65528

NextCluster(fat, c) == IF c \in Clusters THEN fat[c] ELSE Eoc

RECURSIVE Walk(_, _, _)
Walk(fat, c, n) ==
    IF n = 0 \/ ~IsCluster(c) THEN <<>> ELSE <<c>> \o Walk(fat, fat[c], n - 1)

Chain(fat, c) == Walk(fat, c, TotalClusters)

\* fat16_alloc_cluster: the lowest free cluster, 0 when the disk is full.
Alloc(fat) ==
    LET free == {c \in Clusters : fat[c] = Free}
    IN IF free = {} THEN 0 ELSE CHOOSE c \in free : \A d \in free : c <= d

FreeChain(fat, c) ==
    LET chain == ToSet(Chain(fat, c))
    IN [d \in Clusters |-> IF d \in chain THEN Free ELSE fat[d]]

(***************************************************************************)
(* Directories.  A position is <<0, i>> in the root, <<cluster, i>> below. *)
(***************************************************************************)

Positions(fat, d) ==
    IF d = 0 THEN [i \in 1 .. RootEntries |-> <<0, i>>]
    ELSE LET chain == Chain(fat, d)
         IN [i \in 1 .. Len(chain) * Bpc |->
               <<chain[((i - 1) \div Bpc) + 1], ((i - 1) % Bpc) + 1>>]

UnitAt(p) == IF p[1] = 0 THEN disk.root[p[2]] ELSE disk.data[p[1]][p[2]]

Put(p, u) == IF p[1] = 0 THEN [disk EXCEPT !.root[p[2]] = u]
             ELSE [disk EXCEPT !.data[p[1]][p[2]] = u]

\* The entries a scan of directory d meets before the first empty one.
Scan(fat, d) ==
    LET ps == Positions(fat, d)
        stops == {i \in 1 .. Len(ps) : UnitAt(ps[i]) = Empty}
        end == IF stops = {} THEN Len(ps) ELSE Min(stops) - 1
    IN SubSeq(ps, 1, end)

\* Those that name a file or a directory, and among them all but "." and "..".
InUse(fat, d) == SelectSeq(Scan(fat, d), LAMBDA p : UnitAt(p).kind = "ent")
Children(fat, d) == SelectSeq(InUse(fat, d), LAMBDA p : UnitAt(p).name \notin {".", ".."})

dir_lookup(fat, d, n) ==
    LET hits == SelectSeq(InUse(fat, d), LAMBDA p : UnitAt(p).name = n)
    IN IF hits = <<>> THEN None ELSE hits[1]

FreePosition(fat, d) ==
    LET ps == Positions(fat, d)
        free == {i \in 1 .. Len(ps) : UnitAt(ps[i]) = Empty}
    IN IF free = {} THEN None ELSE ps[Min(free)]

\* The directory that holds the last component of path p; -1 if a component
\* before it is missing or is not a directory.
resolve_path(fat, base, p) ==
    FoldLeft(LAMBDA d, n :
               LET q == IF d < 0 THEN None ELSE dir_lookup(fat, d, To83[n])
               IN IF q = None \/ ~UnitAt(q).dir THEN -1 ELSE UnitAt(q).first,
             IF p.abs THEN 0 ELSE base, Front(p.comps))

Target(fat, base, p) ==
    LET d == resolve_path(fat, base, p)
    IN IF d < 0 THEN None ELSE dir_lookup(fat, d, To83[Last(p.comps)])

fat16_resolve_dir(fat, base, p) ==
    IF p.comps = <<>> THEN 0
    ELSE LET q == Target(fat, base, p)
         IN IF q = None \/ ~UnitAt(q).dir THEN -1 ELSE UnitAt(q).first

fat16_find(fat, base, p) ==
    LET q == IF p.comps = <<>> THEN None ELSE Target(fat, base, p)
    IN IF q = None \/ UnitAt(q).dir THEN None ELSE q

\* What ls shows of directory d: the names, without "." and "..".
fat16_readdir(fat, d) ==
    LET shown == Children(fat, d)
    IN [i \in 1 .. Len(shown) |-> Shown[UnitAt(shown[i]).name]]

dir_find_child_name(fat, parent, child) ==
    LET hits == SelectSeq(Children(fat, parent),
                          LAMBDA p : UnitAt(p).dir /\ UnitAt(p).first = child)
    IN IF hits = <<>> THEN "?" ELSE Shown[UnitAt(hits[1]).name]

RECURSIVE PathUp(_, _, _)
PathUp(fat, c, depth) ==
    IF c = 0 THEN <<>>
    ELSE LET up == dir_lookup(fat, c, "..")
         IN IF depth >= PathMaxDepth \/ up = None THEN <<"?">>
            ELSE PathUp(fat, UnitAt(up).first, depth + 1)
                   \o <<dir_find_child_name(fat, UnitAt(up).first, c)>>

fat16_get_path(fat, c) == [abs |-> TRUE, comps |-> PathUp(fat, c, 0)]

(***************************************************************************)
(* Reading                                                                 *)
(***************************************************************************)

\* The units fat16_read_at returns from a file it believes starts at cluster
\* first and has the given size.  Below cluster 2 it reads outside the data.
fat16_read_at(fat, first, pos, len, size) ==
    LET n == IF pos >= size THEN 0 ELSE Min({len, size - pos})
        at[k \in 0 .. TotalClusters] ==
            IF k = 0 THEN first ELSE NextCluster(fat, at[k - 1])
        ends == {k \in 0 .. TotalClusters : at[k] >= 65528}
        avail == IF ends = {} THEN size ELSE Min(ends) * Bpc
        unit(i) == IF at[i \div Bpc] < 2 THEN Junk
                   ELSE disk.data[at[i \div Bpc]][(i % Bpc) + 1]
        last == Min({pos + n, avail})
    IN [i \in 1 .. (IF last > pos THEN last - pos ELSE 0) |-> unit(pos + i - 1)]

Content(fat, e) == fat16_read_at(fat, e.first, 0, e.size, e.size)

(***************************************************************************)
(* Everything a mounted disk shows                                         *)
(***************************************************************************)

RECURSIVE Reach(_, _)
Reach(fat, ds) ==
    LET below == UNION {ToSet(Children(fat, d)) : d \in ds}
        more == ds \cup {UnitAt(p).first : p \in {q \in below : UnitAt(q).dir}}
    IN IF more = ds THEN ds ELSE Reach(fat, more)

Dirs(fat) == Reach(fat, {0})

Entries(fat) == UNION {ToSet(Children(fat, d)) : d \in Dirs(fat)}

Files(fat) == {p \in Entries(fat) : ~UnitAt(p).dir}

----------------------------------------------------------------------------
(***************************************************************************)
(* Mounting and the calls that only read                                   *)
(***************************************************************************)

Init ==
    /\ disk \in Images
    /\ g_fat = disk.fat[1]
    /\ fds = [f \in Fds |-> Closed]
    /\ cwd = 0
    /\ call = NoCall
    /\ calls = 0
    /\ faults = 0
    /\ behind = {}
    /\ torn = FALSE
    /\ saved = [p \in Files(g_fat) |-> Content(g_fat, UnitAt(p))]

Idle == call.pc = "done"

\* A call enters the kernel: MaxCalls bounds how many do.
Enter == Idle /\ calls < MaxCalls /\ calls' = calls + 1

Opened(d, n, e) == [Closed EXCEPT !.used = TRUE, !.dir = d, !.name = n,
                                  !.first = e.first, !.size = e.size]

\* vfs_open on a FAT16 path.
Open(f, p) ==
    /\ Idle /\ ~fds[f].used
    /\ fat16_find(g_fat, cwd, p) # None
    /\ fds' = [fds EXCEPT ![f] = Opened(resolve_path(g_fat, cwd, p), Last(p.comps),
                                        UnitAt(fat16_find(g_fat, cwd, p)))]
    /\ UNCHANGED <<disk, g_fat, cwd, call, calls, faults, behind, torn, saved>>

Close(f) ==
    /\ Idle /\ fds[f].used
    /\ fds' = [fds EXCEPT ![f] = Closed]
    /\ UNCHANGED <<disk, g_fat, cwd, call, calls, faults, behind, torn, saved>>

\* vfs_read: the position advances by what fat16_read_at returned.
Read(f, len) ==
    /\ Idle /\ fds[f].used
    /\ fds' = [fds EXCEPT ![f].pos = @ +
                 Len(fat16_read_at(g_fat, fds[f].first, @, len, fds[f].size))]
    /\ UNCHANGED <<disk, g_fat, cwd, call, calls, faults, behind, torn, saved>>

Chdir(p) ==
    /\ Enter
    /\ fat16_resolve_dir(g_fat, cwd, p) >= 0
    /\ cwd' = fat16_resolve_dir(g_fat, cwd, p)
    /\ UNCHANGED <<disk, g_fat, fds, call, faults, behind, torn, saved>>

(***************************************************************************)
(* What every writing call shares                                          *)
(***************************************************************************)

Finish(c, r) == call' = [c EXCEPT !.pc = "returned", !.ret = r]

\* Mutant: the entry is looked up from the working directory of the moment.
FdPositionFromCwd(f) == dir_lookup(g_fat, cwd, To83[fds[f].name])

FdPosition(f) == dir_lookup(g_fat, fds[f].dir, To83[fds[f].name])

\* What the file a descriptor was opened on holds.
FileContent(f) == Content(g_fat, UnitAt(FdPosition(f)))

\* The bytes the call with number id writes, and its i-th.
Datum(id, i) == Byte((10 * id) + i)

NewSize(c) == IF c.pos + c.written > c.size THEN c.pos + c.written ELSE c.size

Changed(c) == NewSize(c) # c.size \/ c.first # c.old

\* Mutant: the offset within the sector is forgotten.
SpanFromStart(c) == Min({Bpc, c.want - c.written})

\* The part of the current sector a positional write fills.
Span(c) == Min({Bpc - c.off, c.want - c.written})

\* FAT sector k \div FatSectors of copy k % FatSectors, as fat16_flush_fat
\* counts them: all sectors of the first copy, then the second.
Flushed(k) ==
    LET copy == (k \div FatSectors) + 1
    IN [disk EXCEPT !.fat[copy] =
          [c \in Clusters |-> IF c \div FatPerSector = k % FatSectors
                              THEN g_fat[c] ELSE @[c]]]

\* The disk once the sector write the call is at has landed.
Wrote ==
    CASE call.pc \in {"mk_zero", "grow_zero"} -> [disk EXCEPT !.data[call.cl] = Zeros]
      [] call.pc = "mk_dots" ->
           [disk EXCEPT !.data[call.cl] =
              [Zeros EXCEPT ![1] = Entry(".", TRUE, call.cl, 0),
                            ![2] = Entry("..", TRUE, call.dir, 0)]]
      [] call.pc = "insert" -> Put(call.at, call.ent)
      [] call.pc = "grow_entry" -> [disk EXCEPT !.data[call.cl] = [Zeros EXCEPT ![1] = call.ent]]
      [] call.pc = "cluster" ->
           [disk EXCEPT !.data[call.cl] =
              [i \in 1 .. Bpc |-> IF call.written + i <= call.len
                                  THEN Datum(call.id, call.written + i) ELSE Empty]]
      [] call.pc = "data" ->
           [disk EXCEPT !.data[call.cl] =
              [i \in 1 .. Bpc |->
                 IF i \in call.off + 1 .. call.off + Span(call)
                 THEN Datum(call.id, call.total + call.written + i - call.off)
                 ELSE IF call.fresh THEN Empty ELSE @[i]]]
      [] call.pc = "dirent" /\ call.op = "write" ->
           LET p == FdPosition(call.f)
           IN Put(p, [UnitAt(p) EXCEPT !.first = call.first, !.size = NewSize(call)])
      [] call.pc = "dirent" /\ call.op = "write_file" ->
           Put(call.at, [UnitAt(call.at) EXCEPT !.first = call.first, !.size = call.len])
      [] call.pc = "flush" -> Flushed(call.k)
      [] OTHER -> disk

Flush(c, stage) == [c EXCEPT !.pc = "flush", !.k = 0, !.stage = stage]

MidFlush == call.pc = "flush" /\ call.k > 0 /\ call.k < FatSectors

\* The entry of the file, or of the directory, for which the FAT is flushed.
Flushing ==
    IF call.op \in {"write", "write_file"} THEN {FdPosition(call.f)}
    ELSE {p \in Entries(g_fat) : UnitAt(p).dir /\ UnitAt(p).first = call.dir}

(***************************************************************************)
(* dir_insert, and fat16_create and fat16_mkdir on top of it               *)
(***************************************************************************)

InsertFailed(c, fat) ==
    /\ Finish(c, -1)
    /\ g_fat' = IF c.op = "mkdir" THEN FreeChain(fat, c.new) ELSE fat

BeginInsert(c, fat) ==
    LET p == FreePosition(fat, c.dir)
        new == Alloc(fat)
    IN \/ /\ p # None
          /\ call' = [c EXCEPT !.pc = "insert", !.at = p]
          /\ g_fat' = fat
       \/ /\ p = None /\ (c.dir = 0 \/ new = 0)
          /\ InsertFailed(c, fat)
       \/ /\ p = None /\ c.dir # 0 /\ new # 0
          /\ call' = [c EXCEPT !.pc = "grow_zero", !.cl = new]
          /\ g_fat' = [fat EXCEPT ![new] = Eoc]

\* The entry is in place: vfs_create opens it, fat16_mkdir flushes the FAT.
InsertDone(c) ==
    \/ /\ c.op = "create"
       /\ fds' = [fds EXCEPT ![c.f] = Opened(c.dir, Last(c.path.comps), c.ent)]
       /\ Finish(c, 0)
    \/ /\ c.op = "mkdir"
       /\ call' = Flush(c, "final")
       /\ UNCHANGED fds

\* Mutant: the name goes into the entry as the program wrote it.
DirCallRawName(op, f, p, new) ==
    [op |-> op, pc |-> "insert", ret |-> 0, f |-> f, path |-> p, new |-> new, cl |-> new,
     dir |-> resolve_path(g_fat, cwd, p), at |-> None, k |-> 0, stage |-> "none",
     ent |-> Entry(Last(p.comps), op = "mkdir", new, 0)]

DirCall(op, f, p, new) ==
    [op |-> op, pc |-> "insert", ret |-> 0, f |-> f, path |-> p, new |-> new, cl |-> new,
     dir |-> resolve_path(g_fat, cwd, p), at |-> None, k |-> 0, stage |-> "none",
     ent |-> Entry(To83[Last(p.comps)], op = "mkdir", new, 0)]

\* vfs_create of a name that does not exist yet (of one that does, it is Open).
Create(f, p) ==
    /\ Enter /\ ~fds[f].used /\ p.comps # <<>>
    /\ resolve_path(g_fat, cwd, p) >= 0 /\ Target(g_fat, cwd, p) = None
    /\ BeginInsert(DirCall("create", f, p, 0), g_fat)
    /\ UNCHANGED <<disk, fds, cwd, faults, behind, torn, saved>>

Mkdir(p) ==
    /\ Enter /\ p.comps # <<>>
    /\ resolve_path(g_fat, cwd, p) >= 0 /\ Target(g_fat, cwd, p) = None
    /\ Alloc(g_fat) # 0
    /\ g_fat' = [g_fat EXCEPT ![Alloc(g_fat)] = Eoc]
    /\ call' = [DirCall("mkdir", None, p, Alloc(g_fat)) EXCEPT !.pc = "mk_zero"]
    /\ UNCHANGED <<disk, fds, cwd, faults, behind, torn, saved>>

ZeroNewDir ==
    /\ call.pc = "mk_zero"
    /\ disk' = Wrote
    /\ call' = [call EXCEPT !.pc = "mk_dots"]
    /\ UNCHANGED <<g_fat, fds, cwd, calls, faults, behind, torn, saved>>

WriteDots ==
    /\ call.pc = "mk_dots"
    /\ disk' = Wrote
    /\ BeginInsert(call, g_fat)
    /\ UNCHANGED <<fds, cwd, calls, faults, behind, torn, saved>>

InsertEntry ==
    /\ call.pc = "insert"
    /\ disk' = Wrote
    /\ InsertDone(call)
    /\ UNCHANGED <<g_fat, cwd, calls, faults, behind, torn, saved>>

ZeroGrown ==
    /\ call.pc = "grow_zero"
    /\ disk' = Wrote
    /\ call' = [call EXCEPT !.pc = "grow_entry"]
    /\ UNCHANGED <<g_fat, fds, cwd, calls, faults, behind, torn, saved>>

GrowEntry ==
    /\ call.pc = "grow_entry"
    /\ disk' = Wrote
    /\ g_fat' = [g_fat EXCEPT ![Last(Chain(g_fat, call.dir))] = call.cl, ![call.cl] = Eoc]
    /\ call' = Flush(call, "grow")
    /\ UNCHANGED <<fds, cwd, calls, faults, behind, torn, saved>>

(***************************************************************************)
(* sys_write: fat16_write_at for each chunk, at the descriptor's position  *)
(***************************************************************************)

\* Mutant: the cluster a chain grows by is not marked as taken.
NextOrNewUnmarked(st) ==
    LET next == st.fat[st.cl]
        new == Alloc(st.fat)
    IN IF IsCluster(next) THEN [st EXCEPT !.cl = next, !.fresh = FALSE]
       ELSE IF new = 0 THEN [st EXCEPT !.cl = 0]
       ELSE [fat |-> [st.fat EXCEPT ![st.cl] = new], cl |-> new, fresh |-> TRUE, dirty |-> TRUE]

\* The next cluster of the chain, allocated and linked if the chain ends
\* here; cl = 0 when the disk is full.
NextOrNew(st) ==
    LET next == st.fat[st.cl]
        new == Alloc(st.fat)
    IN IF IsCluster(next) THEN [st EXCEPT !.cl = next, !.fresh = FALSE]
       ELSE IF new = 0 THEN [st EXCEPT !.cl = 0]
       ELSE [fat |-> [st.fat EXCEPT ![st.cl] = new, ![new] = Eoc],
             cl |-> new, fresh |-> TRUE, dirty |-> TRUE]

RECURSIVE Locate(_, _)
Locate(st, n) == IF n = 0 \/ st.cl = 0 THEN st ELSE Locate(NextOrNew(st), n - 1)

\* The cluster that holds position pos of a file that starts at first.
ClusterOf(first, pos) ==
    LET new == Alloc(g_fat)
    IN IF first >= 2
       THEN Locate([fat |-> g_fat, cl |-> first, fresh |-> FALSE, dirty |-> FALSE], pos \div Bpc)
       ELSE IF new = 0 THEN [fat |-> g_fat, cl |-> 0, fresh |-> FALSE, dirty |-> FALSE]
       ELSE [fat |-> [g_fat EXCEPT ![new] = Eoc], cl |-> new, fresh |-> TRUE, dirty |-> TRUE]

\* vfs_write failed: sys_write reports the chunks before, or -1.
WriteFailed(c) == Finish(c, IF c.total > 0 THEN c.total ELSE -1) /\ UNCHANGED fds

Write(f, len) ==
    /\ Enter /\ fds[f].used /\ len > 0
    /\ call' = [op |-> "write", pc |-> "chunk", ret |-> 0, f |-> f, len |-> len, id |-> calls + 1,
                total |-> 0, want |-> 0, pos |-> 0, written |-> 0, first |-> 0, old |-> 0,
                size |-> 0, cl |-> 0, off |-> 0, fresh |-> FALSE, dirty |-> FALSE,
                k |-> 0, stage |-> "none", start |-> fds[f].pos]
    /\ UNCHANGED <<disk, g_fat, fds, cwd, faults, behind, torn, saved>>

\* The head of fat16_write_at: fresh lookup, checks, finding the cluster.
BeginChunk ==
    LET p == FdPosition(call.f)
        e == UnitAt(p)
        pos == fds[call.f].pos
        st == ClusterOf(e.first, pos)
        c == [call EXCEPT !.want = Min({Chunk, call.len - call.total}), !.pos = pos,
                          !.written = 0, !.size = e.size, !.old = e.first,
                          !.first = IF e.first < 2 THEN st.cl ELSE e.first,
                          !.cl = st.cl, !.off = pos % Bpc, !.fresh = st.fresh,
                          !.dirty = st.dirty]
        refused == IF p = None THEN TRUE ELSE e.dir \/ pos > e.size \/ (e.first < 2 /\ pos # 0)
    IN /\ call.pc = "chunk"
       /\ \/ refused /\ WriteFailed(call) /\ UNCHANGED g_fat
          \/ /\ ~refused /\ st.cl = 0
             /\ g_fat' = st.fat
             /\ IF st.dirty THEN call' = Flush(c, "full") /\ UNCHANGED fds
                ELSE WriteFailed(call)
          \/ /\ ~refused /\ st.cl # 0
             /\ g_fat' = st.fat
             /\ call' = [c EXCEPT !.pc = "data"]
             /\ UNCHANGED fds
       /\ UNCHANGED <<disk, cwd, calls, faults, behind, torn, saved>>

\* Mutant: vfs_write does not take the first cluster back from fat16_write_at.
ChunkDoneKeepsFirst(c) ==
    \/ c.written = 0 /\ WriteFailed(c)
    \/ /\ c.written > 0
       /\ fds' = [fds EXCEPT ![c.f].size = NewSize(c), ![c.f].pos = @ + c.written, ![c.f].old = FALSE]
       /\ IF c.written < c.want THEN Finish(c, IF c.total > 0 THEN c.total ELSE -1)
          ELSE IF c.total + c.want = c.len THEN Finish(c, c.len)
          ELSE call' = [c EXCEPT !.pc = "chunk", !.total = @ + c.want]

\* vfs_write after fat16_write_at returned: the descriptor follows, and a
\* short chunk ends the call.
ChunkDone(c) ==
    \/ c.written = 0 /\ WriteFailed(c)
    \/ /\ c.written > 0
       /\ fds' = [fds EXCEPT ![c.f].first = c.first, ![c.f].size = NewSize(c),
                             ![c.f].pos = @ + c.written, ![c.f].old = FALSE]
       /\ IF c.written < c.want THEN Finish(c, IF c.total > 0 THEN c.total ELSE -1)
          ELSE IF c.total + c.want = c.len THEN Finish(c, c.len)
          ELSE call' = [c EXCEPT !.pc = "chunk", !.total = @ + c.want]

\* Mutant: the entry is written before the FAT.
CommitEntryFirst(c) ==
    \/ Changed(c) /\ call' = [c EXCEPT !.pc = "dirent"] /\ UNCHANGED fds
    \/ ~Changed(c) /\ ChunkDone(c)

\* The commit of fat16_write_at: the FAT if the chain grew, then the entry.
Commit(c) ==
    \/ c.dirty /\ call' = Flush(c, "final") /\ UNCHANGED fds
    \/ ~c.dirty /\ Changed(c) /\ call' = [c EXCEPT !.pc = "dirent"] /\ UNCHANGED fds
    \/ ~c.dirty /\ ~Changed(c) /\ ChunkDone(c)

WriteSector ==
    LET w == call.written + Span(call)
        st == NextOrNew([fat |-> g_fat, cl |-> call.cl, fresh |-> call.fresh, dirty |-> call.dirty])
    IN /\ call.pc = "data"
       /\ disk' = Wrote
       /\ \/ /\ w = call.want \/ st.cl = 0
             /\ Commit([call EXCEPT !.written = w])
             /\ UNCHANGED g_fat
          \/ /\ w < call.want /\ st.cl # 0
             /\ call' = [call EXCEPT !.written = w, !.off = 0, !.cl = st.cl,
                                     !.fresh = st.fresh, !.dirty = st.dirty]
             /\ g_fat' = st.fat
             /\ UNCHANGED fds
       /\ UNCHANGED <<cwd, calls, faults, behind, torn, saved>>

(***************************************************************************)
(* sys_write_file: fat16_write_file replaces the whole file                *)
(***************************************************************************)

SameFile(f, g) == fds[f].used /\ fds[f].dir = fds[g].dir /\ To83[fds[f].name] = To83[fds[g].name]

WriteFile(f, len) ==
    LET p == FdPosition(f)
    IN /\ Enter /\ fds[f].used
       /\ p # None /\ ~UnitAt(p).dir
       /\ g_fat' = FreeChain(g_fat, UnitAt(p).first)
       /\ call' = [op |-> "write_file", pc |-> IF len = 0 THEN "dirent" ELSE "alloc", ret |-> 0,
                   f |-> f, len |-> len, id |-> calls + 1, at |-> p, written |-> 0, first |-> 0,
                   cl |-> 0, k |-> 0, stage |-> "none"]
       /\ fds' = [g \in Fds |-> IF SameFile(g, f) THEN [fds[g] EXCEPT !.old = TRUE] ELSE fds[g]]
       /\ UNCHANGED <<disk, cwd, faults, behind, torn, saved>>

AllocCluster ==
    LET new == Alloc(g_fat)
    IN /\ call.pc = "alloc"
       /\ \/ /\ new = 0
             /\ Finish(call, -1) /\ torn' = TRUE
             /\ UNCHANGED g_fat
          \/ /\ new # 0
             /\ g_fat' = [c \in Clusters |-> IF c = new THEN Eoc
                                             ELSE IF c = call.cl THEN new ELSE g_fat[c]]
             /\ call' = [call EXCEPT !.pc = "cluster", !.cl = new,
                                     !.first = IF call.cl = 0 THEN new ELSE @]
             /\ UNCHANGED torn
       /\ UNCHANGED <<disk, fds, cwd, calls, faults, behind, saved>>

WriteCluster ==
    LET w == Min({call.written + Bpc, call.len})
    IN /\ call.pc = "cluster"
       /\ disk' = Wrote
       /\ call' = [call EXCEPT !.written = w, !.pc = IF w < call.len THEN "alloc" ELSE "dirent"]
       /\ UNCHANGED <<g_fat, fds, cwd, calls, faults, behind, torn, saved>>

(***************************************************************************)
(* The last sectors of a call: the entry and the FAT                       *)
(***************************************************************************)

UpdateEntry ==
    /\ call.pc = "dirent"
    /\ disk' = Wrote
    /\ \/ call.op = "write" /\ ChunkDone(call)
       \/ call.op = "write_file" /\ call' = Flush(call, "final") /\ UNCHANGED fds
    /\ UNCHANGED <<g_fat, cwd, calls, faults, behind, torn, saved>>

FlushDone(c) ==
    \/ c.stage = "grow" /\ InsertDone(c)
    \/ c.stage = "final" /\ c.op \in {"mkdir", "write_file"} /\ Finish(c, 0) /\ UNCHANGED fds
    \/ c.op = "write" /\ IF c.stage = "full" THEN WriteFailed(c)
                         ELSE Commit([c EXCEPT !.dirty = FALSE])

FlushSector ==
    /\ call.pc = "flush"
    /\ disk' = Wrote
    /\ \/ /\ call.k + 1 < NumFats * FatSectors
          /\ call' = [call EXCEPT !.k = @ + 1]
          /\ UNCHANGED <<fds, behind>>
       \/ /\ call.k + 1 = NumFats * FatSectors
          /\ FlushDone(call)
          /\ behind' = {}
    /\ UNCHANGED <<g_fat, cwd, calls, faults, torn, saved>>

(***************************************************************************)
(* Return to the program, and what every file holds then                   *)
(***************************************************************************)

WrittenTo(p) ==
    /\ ~Idle /\ call.op \in {"write", "write_file"}
    /\ p = dir_lookup(g_fat, fds[call.f].dir, To83[fds[call.f].name])

Return ==
    /\ call.pc = "returned"
    /\ call' = NoCall
    /\ saved' = [p \in Files(g_fat) |-> Content(g_fat, UnitAt(p))]
    /\ UNCHANGED <<disk, g_fat, fds, cwd, calls, faults, behind, torn>>

(***************************************************************************)
(* Faults                                                                  *)
(***************************************************************************)

\* The sector write (or, at "chunk", the lookup) the call is at reports an
\* error; the sector may or may not hold the new data.
IOError ==
    /\ call.pc \notin {"done", "returned", "alloc"}
    /\ faults < MaxFaults
    /\ faults' = faults + 1
    /\ disk' \in {disk, Wrote}
    /\ \/ /\ call.pc \in {"mk_zero", "mk_dots", "cluster"} \/ (call.pc = "dirent" /\ call.op = "write_file")
          /\ Finish(call, -1) /\ UNCHANGED <<g_fat, fds>>
       \/ /\ call.pc \in {"insert", "grow_zero", "grow_entry"} \/ (call.pc = "flush" /\ call.stage = "grow")
          /\ InsertFailed(call, g_fat) /\ UNCHANGED fds
       \/ /\ call.pc = "chunk" \/ (call.op = "write" /\ call.pc \in {"dirent", "flush"})
          /\ WriteFailed(call) /\ UNCHANGED g_fat
       \/ /\ call.pc = "flush" /\ call.stage = "final" /\ call.op # "write"
          /\ Finish(call, -1) /\ UNCHANGED <<g_fat, fds>>
       \/ call.pc = "data" /\ Commit(call) /\ UNCHANGED g_fat
    /\ behind' = IF call.pc = "flush" THEN behind \cup Flushing ELSE behind
    /\ torn' = \/ torn \/ call.op = "write_file"
               \/ call.op = "mkdir" /\ call.pc \notin {"mk_zero", "mk_dots"}
    /\ UNCHANGED <<cwd, calls, saved>>

\* Power is lost; the next boot's fat16_init reads the first copy of the FAT.
PowerLoss ==
    /\ faults < MaxFaults
    /\ faults' = faults + 1
    /\ g_fat' = disk.fat[1]
    /\ fds' = [f \in Fds |-> Closed]
    /\ cwd' = 0
    /\ call' = NoCall
    /\ torn' = (torn \/ behind # {} \/ MidFlush \/ call.op \in {"mkdir", "write_file"})
    /\ behind' = {}
    /\ saved' = [p \in DOMAIN saved \cup Files(disk.fat[1]) |->
                   IF p \in DOMAIN saved \ behind /\ ~WrittenTo(p)
                   THEN saved[p] ELSE Content(disk.fat[1], UnitAt(p))]
    /\ UNCHANGED <<disk, calls>>

Next ==
    \/ \E f \in Fds, p \in Paths : Open(f, p) \/ Create(f, p)
    \/ \E f \in Fds, len \in Lens : Read(f, len) \/ Write(f, len) \/ WriteFile(f, len)
    \/ \E f \in Fds : Close(f)
    \/ \E p \in DirPaths : Chdir(p)
    \/ \E p \in Paths : Mkdir(p)
    \/ ZeroNewDir \/ WriteDots \/ InsertEntry \/ ZeroGrown \/ GrowEntry
    \/ BeginChunk \/ WriteSector \/ AllocCluster \/ WriteCluster
    \/ UpdateEntry \/ FlushSector \/ Return
    \/ IOError \/ PowerLoss

Spec == Init /\ [][Next]_vars

----------------------------------------------------------------------------
(***************************************************************************)
(* Properties                                                              *)
(***************************************************************************)

\* Every entry has a chain of its own, of allocated clusters; those that are not
\* excused have one that is long enough for their size and ends properly.
Sound(fat, excused) ==
    LET es == Entries(fat)
        chain == [p \in es |-> Chain(fat, UnitAt(p).first)]
    IN /\ \A p \in es \ excused :
            /\ UnitAt(p).dir => chain[p] # <<>>
            /\ chain[p] # <<>> => fat[Last(chain[p])] = Eoc
            /\ ~UnitAt(p).dir => Len(chain[p]) * Bpc >= UnitAt(p).size
       /\ \A p, q \in es : p # q => ToSet(chain[p]) \cap ToSet(chain[q]) = {}

Careful == ~torn /\ (Idle \/ call.op \in {"write", "create"})

\* No two files or directories share a cluster and no entry leads to a free
\* one, through the FAT the kernel works with: between calls, and at every
\* step of a positional write or a create, whatever writes of such calls failed
\* before (fat16_alloc_cluster, dir_insert, fat16_write_at).  Nothing is said
\* once a fat16_write_file or a fat16_mkdir was cut short, by a failed write or
\* a full disk (torn): their entries and chains have no safe order.
NoCrossLink == Careful => Sound(g_fat, {})

\* The same of the disk itself: power may be lost at any step of a positional
\* write or a create, and the next mount finds every file whole ("Data goes to
\* disk first, then the FAT, and only then the dirent").  Two exceptions, each
\* for one entry only: the file or directory whose chain is being flushed, between
\* two sectors of the first FAT copy; and one whose flush failed, until a flush
\* succeeds.  A retry of that write finds the chain complete in g_fat, flushes
\* nothing and commits the size, so the dirent claims more than the disk has,
\* against fat16.c:836-838.  Even then no cluster has two owners.
CrashSafe ==
    Careful => Sound(disk.fat[1], behind \cup (IF MidFlush THEN Flushing ELSE {}))

\* A positional write leaves every unit of the file either as it was or as
\* written, never what a reused cluster held before; what it reports written
\* is there.  A successful replacement leaves exactly the new data.
WriteLands ==
    (call.pc = "returned" /\ call.op \in {"write", "write_file"} /\ ~torn) =>
      LET new == FileContent(call.f)
          old == saved[FdPosition(call.f)]
          put(i) == Datum(call.id, i - call.start)
      IN IF call.op = "write_file"
         THEN call.ret = 0 => new = [i \in 1 .. call.len |-> Datum(call.id, i)]
         ELSE /\ Len(new) >= Len(old)
              /\ \A i \in 1 .. Len(new) :
                   \/ i <= Len(old) /\ new[i] = old[i]
                   \/ i \in call.start + 1 .. call.start + call.len /\ new[i] = put(i)
              /\ \A i \in 1 .. call.ret : new[call.start + i] = put(call.start + i)

\* No step of a call changes what another file holds, and neither does an
\* error or losing power during it: a file that is not being written keeps
\* what it held when the last call returned, unless power is lost after its own
\* flush failed.  The steps of a fat16_write_file or fat16_mkdir up to a failure
\* are included; what happens after one that was cut short is not explored.
OthersUntouched ==
    \A p \in DOMAIN saved : WrittenTo(p) \/ Content(g_fat, UnitAt(p)) = saved[p]

\* A read returns the file's own units, as many as the size the descriptor
\* remembers, unless fat16_write_file has replaced the file since the
\* descriptor last learnt its first cluster (vfs_read uses fd->first).
ReadSeesFile ==
    (Idle /\ ~torn) =>
      \A f \in Fds, len \in Lens :
        (fds[f].used /\ ~fds[f].old) =>
          LET fd == fds[f]
              end == Min({fd.pos + len, fd.size})
          IN fat16_read_at(g_fat, fd.first, fd.pos, len, fd.size)
               = SubSeq(FileContent(f), fd.pos + 1, end)

\* A lookup of the name that ls shows for an entry finds that entry, and the path
\* pwd prints for a directory leads back to it, if the names have no space
\* (dirent_display_name cuts them there); entries of a directory differ in their
\* 8.3 names, with or without a space.
TreeSound ==
    Careful =>
      \A d \in Dirs(g_fat) :
        LET ps == Children(g_fat, d)
            ls == fat16_readdir(g_fat, d)
            plain(p) == Shown[UnitAt(p).name] = UnitAt(p).name
        IN /\ \A i \in 1 .. Len(ps) :
                /\ dir_lookup(g_fat, d, UnitAt(ps[i]).name) = ps[i]
                /\ plain(ps[i]) => dir_lookup(g_fat, d, To83[ls[i]]) = ps[i]
           /\ (\A p \in Entries(g_fat) : UnitAt(p).dir => plain(p)) =>
                fat16_resolve_dir(g_fat, 0, fat16_get_path(g_fat, d)) = d

============================================================================
