------------------------------- MODULE Memory -------------------------------
(***************************************************************************)
(* Memory in NullOS: physical pages (kernel/memory/pmm.c), the kernel heap *)
(* (heap.c), address spaces (vmm.c) and the calls that use all three:      *)
(* exec (exec.c, elf.c), process_fork's copy (process.c), the buffer of    *)
(* sys_write_file and copies to user memory (syscall.c).                   *)
(*                                                                         *)
(* The calls of several processes interleave at every page they allocate   *)
(* and between the claim of a process slot and its completion; one         *)
(* pmm_alloc_page or kmalloc is one step.  sys_kill ends any slot that is  *)
(* not unused, a claimed one too, and its builder does not notice.         *)
(* Addresses in the heap count units of four bytes; the heap's list of     *)
(* blocks is a sequence.                                                   *)
(***************************************************************************)
EXTENDS Integers, Sequences, FiniteSetsExt

CONSTANTS
    Total,         \* pmm_total: pages 0..Total-1, page 0 stands for the first 4 MB
    PageSize,      \* units per page
    Header,        \* HEADER_SIZE in units
    HeapPages,     \* HEAP_INITIAL_SIZE in pages: the heap starts at page 1
    HEAP_MAX,      \* first page above the heap
    Virt, Pde,     \* user pages, and the page directory entry each lies under
    Stack,         \* the pages of the user stack, in order
    Programs,      \* [name, disk, size, valid, pages]: what vfs_open may find
    Shell,         \* the program kmain starts
    Procs,         \* process slots
    FatSizes,      \* sizes of the FAT the disk may have
    Lens,          \* lengths given to sys_write_file
    Stores,        \* the sets of user pages that one store may cover
    MaxCalls       \* bound: system calls that allocate

ASSUME MemoryAssumption ==
    /\ {Total, PageSize, Header, HeapPages, HEAP_MAX} \subseteq Nat
    /\ 1 <= HeapPages /\ 1 + HeapPages <= HEAP_MAX /\ HEAP_MAX <= Total
    /\ 0 < Header /\ Header < PageSize
    /\ Virt \subseteq Nat /\ Pde \in [Virt -> Nat] /\ Stack \in Seq(Virt)
    /\ \A g \in Programs : g.size \in Nat /\ g.pages \in Seq(Virt)
    /\ Shell \in Programs /\ ~Shell.disk
    /\ Procs \subseteq Nat \ {0} /\ FatSizes \subseteq Nat /\ Lens \subseteq Nat
    /\ Stores \subseteq SUBSET Virt

VARIABLES
    used,      \* pages whose bit is set in the bitmap
    heap_end,  \* the page after the heap
    blocks,    \* the heap's list: [at, size, free]
    g_fat,     \* the block fat16_init holds, 0 if none
    data,      \* what each page holds
    procs,     \* the process in each slot: [state, as]
    work,      \* the call each process (0: kmain) is in
    calls,     \* allocating calls made
    leaked,    \* history: pages in use that no process and no call refers to
    lost,      \* history: heap blocks likewise
    view       \* history: what each process must find in its pages

heap == <<heap_end, blocks>>
vars == <<used, heap, g_fat, data, procs, work, calls, leaked, lost, view>>

kmain == 0
Workers == Procs \cup {kmain}
Pages == 0 .. Total - 1
Pdes == {Pde[v] : v \in Virt}
NoSpace == [dir |-> 0, pt |-> [d \in Pdes |-> 0], map |-> [v \in Virt |-> 0]]
Gone == [state |-> "unused", as |-> NoSpace]
Nothing == <<>>
NoView == [v \in Virt |-> Nothing]

\* A call as it starts: no space yet and nothing mapped.
Call(op, pc, g, buf, len, slot) ==
    [op |-> op, pc |-> pc, as |-> NoSpace, todo |-> <<>>, buf |-> buf, len |-> len,
     prog |-> g, slot |-> slot, see |-> NoView]
NoCall == Call("none", "idle", Shell, 0, 0, 0)

(***************************************************************************)
(* pmm.c                                                                   *)
(***************************************************************************)

\* pmm_alloc_page: the lowest free page; 0 is the failure value.
pmm_alloc_page(u) == IF Pages \subseteq u THEN 0 ELSE Min(Pages \ u)

(***************************************************************************)
(* heap.c                                                                  *)
(***************************************************************************)

\* Mutant: the free pages above the heap are not asked for.
heap_expand_blind(h, size) ==
    LET n == (size + PageSize - 1) \div PageSize
    IN [h EXCEPT !.end = @ + n, !.used = @ \cup (h.end .. h.end + n - 1), !.ok = TRUE]

\* Takes the pages right after the heap one by one; those taken before one
\* is refused stay with the heap.
heap_expand(h, size) ==
    LET n == (size + PageSize - 1) \div PageSize
        got == Max({k \in 0 .. n : \A p \in h.end .. h.end + k - 1 : p < HEAP_MAX /\ p \notin h.used})
    IN [h EXCEPT !.end = @ + got, !.used = @ \cup (h.end .. h.end + got - 1), !.ok = (got = n)]

Block(at, size, free) == [at |-> at, size |-> size, free |-> free]

\* Mutant: a block is split although no room is left for a header.
TakeTight(bs, i, size) ==
    LET b == bs[i]
    IN [j \in 1 .. i - 1 |-> bs[j]]
         \o <<Block(b.at, size, FALSE), Block(b.at + Header + size, b.size - size, TRUE)>>
         \o SubSeq(bs, i + 1, Len(bs))

\* The free block i serves a request: the rest is split off when a header and
\* one unit fit.
Take(bs, i, size) ==
    LET b == bs[i]
    IN IF b.size >= size + Header + 1
       THEN SubSeq(bs, 1, i - 1)
              \o <<Block(b.at, size, FALSE),
                   Block(b.at + Header + size, b.size - size - Header, TRUE)>>
              \o SubSeq(bs, i + 1, Len(bs))
       ELSE [bs EXCEPT ![i].free = FALSE]

FirstFit(bs, size) == {i \in 1 .. Len(bs) : bs[i].free /\ bs[i].size >= size}

Fit(h, size) ==
    LET i == Min(FirstFit(h.blocks, size))
    IN [h EXCEPT !.blocks = Take(@, i, size), !.ptr = h.blocks[i].at]

\* The new pages become a block at the end of the list, or part of a free tail.
Grow(bs, at, size) ==
    IF bs # <<>> /\ bs[Len(bs)].free
    THEN [bs EXCEPT ![Len(bs)].size = @ + Header + size]
    ELSE Append(bs, Block(at, size, TRUE))

\* First fit, else the heap grows; ptr = 0 when it cannot.
kmalloc(h, size) ==
    LET grown == heap_expand(h, size + Header)
        more == [grown EXCEPT !.blocks = Grow(@, h.end * PageSize,
                                                 ((grown.end - h.end) * PageSize) - Header)]
    IN IF FirstFit(h.blocks, size) # {} THEN Fit(h, size)
       ELSE IF ~grown.ok THEN grown
       ELSE Fit(more, size)

Heap == [blocks |-> blocks, end |-> heap_end, used |-> used, ok |-> TRUE, ptr |-> 0]

\* Blocks i and i + 1 become one.
Join(bs, i) ==
    SubSeq(bs, 1, i - 1) \o <<Block(bs[i].at, bs[i].size + Header + bs[i + 1].size, bs[i].free)>>
      \o SubSeq(bs, i + 2, Len(bs))

\* Merged with the next block if that is free, then with the one before.
kfree(bs, ptr) ==
    LET i == CHOOSE k \in 1 .. Len(bs) : bs[k].at = ptr
        freed == [bs EXCEPT ![i].free = TRUE]
        right == IF i < Len(bs) /\ bs[i + 1].free THEN Join(freed, i) ELSE freed
    IN IF ptr = 0 THEN bs
       ELSE IF i > 1 /\ bs[i - 1].free THEN Join(right, i - 1) ELSE right

(***************************************************************************)
(* vmm.c                                                                   *)
(***************************************************************************)

\* The table of the entry is allocated when it is missing; ok is FALSE when
\* there is no page for it, and then nothing changes.
vmm_map_user_page(u, as, v, phys) ==
    LET d == Pde[v]
        pt == IF as.pt[d] # 0 THEN as.pt[d] ELSE pmm_alloc_page(u)
    IN IF pt = 0 THEN [ok |-> FALSE, used |-> u, as |-> as]
       ELSE [ok |-> TRUE, used |-> u \cup {pt},
             as |-> [as EXCEPT !.pt[d] = pt, !.map[v] = phys]]

DataPages(as) == {as.map[v] : v \in Virt} \ {0}
Tables(as) == {as.pt[d] : d \in Pdes} \ {0}
PagesOf(as) == ({as.dir} \ {0}) \cup DataPages(as) \cup Tables(as)

\* Mutant: the directory's own page is forgotten.
fork_free_data(as) == DataPages(as)

\* What a failed fork gives back: data pages and the directory, no tables.
fork_free_address_space(as) == DataPages(as) \cup {as.dir}

----------------------------------------------------------------------------
(***************************************************************************)
(* Boot: pmm_init, vmm_init and heap_init, then fat16_init, then the shell *)
(***************************************************************************)

Init ==
    /\ used = 0 .. HeapPages
    /\ heap_end = 1 + HeapPages
    /\ blocks = <<Block(PageSize, (HeapPages * PageSize) - Header, TRUE)>>
    /\ g_fat = 0
    /\ data = [p \in Pages |-> <<"junk", p>>]
    /\ procs = [p \in Procs |-> Gone]
    /\ work = [w \in Workers |-> IF w = kmain THEN Call("none", "boot", Shell, 0, 0, 0) ELSE NoCall]
    /\ calls = 0
    /\ leaked = {} /\ lost = {}
    /\ view = [p \in Procs |-> NoView]

\* fat16_init caches the FAT, unless the heap or a read refuses; then kmain
\* calls exec("shell").
MountFat(size) ==
    LET h == kmalloc(Heap, size)
    IN /\ work[kmain].pc = "boot"
       /\ used' = h.used /\ heap_end' = h.end
       /\ \/ blocks' = h.blocks /\ g_fat' = h.ptr
          \/ blocks' = kfree(h.blocks, h.ptr) /\ g_fat' = 0
       /\ work' = [work EXCEPT ![kmain] = Call("exec", "dir", Shell, 0, 0, 0)]
       /\ UNCHANGED <<data, procs, calls, leaked, lost, view>>

----------------------------------------------------------------------------
(***************************************************************************)
(* System calls                                                            *)
(***************************************************************************)

\* The process is not inside a system call.
InRing3(p) == procs[p].state = "live" /\ work[p].pc = "idle"

Enter(p) == InRing3(p) /\ calls < MaxCalls /\ calls' = calls + 1

\* exec of program g: vfs_open found it; a program on the disk is read into a
\* heap buffer first.
Exec(p, g) ==
    LET h == kmalloc(Heap, g.size)
    IN /\ Enter(p)
       /\ \/ /\ ~g.disk
             /\ work' = [work EXCEPT ![p] = Call("exec", "dir", g, 0, 0, 0)]
             /\ UNCHANGED <<used, heap>>
          \/ /\ g.disk /\ g_fat # 0
             /\ used' = h.used /\ heap_end' = h.end /\ blocks' = h.blocks
             /\ work' = IF h.ptr = 0 THEN work
                        ELSE [work EXCEPT ![p] = Call("exec", "read", g, h.ptr, g.size, 0)]
       /\ UNCHANGED <<g_fat, data, procs, leaked, lost, view>>

\* The loop around vfs_read: the whole file, or an error.
ExecRead(p) ==
    /\ work[p].pc = "read"
    /\ \/ work' = [work EXCEPT ![p].pc = "dir"] /\ UNCHANGED blocks
       \/ work' = [work EXCEPT ![p] = NoCall] /\ blocks' = kfree(blocks, work[p].buf)
    /\ UNCHANGED <<used, heap_end, g_fat, data, procs, calls, leaked, lost, view>>

\* process_fork claims a slot before it copies anything.
Fork(p) ==
    LET free == {s \in Procs : procs[s].state = "unused"}
    IN /\ Enter(p)
       /\ free # {}
       /\ procs' = [procs EXCEPT ![Min(free)].state = "claimed"]
       /\ work' = [work EXCEPT ![p] = Call("fork", "dir", Shell, 0, 0, Min(free))]
       /\ UNCHANGED <<used, heap, g_fat, data, leaked, lost, view>>

\* The pages elf_load maps for the segments, in order.
Segments(g) == IF g.valid THEN g.pages ELSE <<>>

\* The parent's pages that fork has still to copy.
Uncopied(p) == {v \in Virt : procs[p].as.map[v] # 0 /\ work[p].as.map[v] = 0}

\* The page a call maps next, fork upwards through the parent's tables, and
\* whether there is none left.
NextPage(w) == IF work[w].op = "fork" THEN Min(Uncopied(w)) ELSE Head(work[w].todo)
AllMapped(w) == IF work[w].op = "fork" THEN Uncopied(w) = {} ELSE work[w].todo = <<>>

\* What the process in slot s, and the call it is in, hold.
HeldPages(s) == PagesOf(procs[s].as) \cup PagesOf(work[s].as)
HeldBlocks(s) == {work[s].buf} \ {0}

\* Slot s gets a new content.  Whoever is in it, if anybody, never runs again
\* and all it holds stays in use.
Replace(s, proc, see) ==
    /\ procs' = [procs EXCEPT ![s] = proc]
    /\ view' = [view EXCEPT ![s] = see]
    /\ lost' = lost \cup HeldBlocks(s)

\* vmm_create_directory.  Without a page exec returns, and leaves the buffer;
\* fork gives the slot back.
CreateDirectory(w) ==
    LET dir == pmm_alloc_page(used)
        c == work[w]
    IN /\ c.pc = "dir"
       /\ \/ /\ dir # 0
             /\ used' = used \cup {dir}
             /\ work' = [work EXCEPT ![w].as = [NoSpace EXCEPT !.dir = dir], ![w].pc = "map",
                           ![w].todo = IF c.op = "fork" THEN <<>> ELSE Segments(c.prog)]
             /\ UNCHANGED <<procs, leaked, lost, view>>
          \/ /\ dir = 0 /\ c.op = "exec"
             /\ work' = [work EXCEPT ![w] = NoCall]
             /\ lost' = lost \cup ({c.buf} \ {0})
             /\ UNCHANGED <<used, procs, leaked, view>>
          \/ /\ dir = 0 /\ c.op = "fork"
             /\ Replace(c.slot, Gone, NoView)
             /\ leaked' = leaked \cup HeldPages(c.slot)
             /\ work' = [work EXCEPT ![w] = NoCall, ![c.slot] = NoCall]
             /\ UNCHANGED used
       /\ UNCHANGED <<heap, g_fat, data, calls>>

\* The call gives up.  exec abandons the space; elf_load's failure still frees
\* the buffer.  fork frees all but the tables, and the slot.
GiveUp(w) ==
    LET c == work[w]
    IN \/ /\ c.op = "exec"
          /\ leaked' = leaked \cup PagesOf(c.as)
          /\ blocks' = kfree(blocks, c.buf)
          /\ work' = [work EXCEPT ![w] = NoCall]
          /\ UNCHANGED <<used, data, procs, lost, view>>
       \/ /\ c.op = "fork"
          /\ used' = used \ fork_free_address_space(c.as)
          /\ leaked' = leaked \cup Tables(c.as) \cup HeldPages(c.slot)
          /\ Replace(c.slot, Gone, NoView)
          /\ work' = [work EXCEPT ![w] = NoCall, ![c.slot] = NoCall]
          /\ UNCHANGED <<blocks, data>>

\* Mutant: fork maps the page and does not copy into it.
FillNoCopy(w, v, phys) ==
    CASE work[w].op = "fork" \/ work[w].pc = "stack" -> data[phys]
      [] OTHER -> <<work[w].prog.name, v>>

\* What the page for v gets: elf_load zeroes it and copies the segment, fork
\* copies the parent's page, the stack's pages are left as they are.
Fill(w, v, phys) ==
    CASE work[w].op = "fork" -> data[procs[w].as.map[v]]
      [] work[w].pc = "stack" -> data[phys]
      [] OTHER -> <<work[w].prog.name, v>>

\* One round of the loops in elf_load, exec and process_fork: a page, zeroed
\* or copied, and its mapping.
MapPage(w) ==
    LET c == work[w]
        v == NextPage(w)
        phys == pmm_alloc_page(used)
        m == vmm_map_user_page(used \cup {phys}, c.as, v, phys)
        must == IF c.op = "fork" THEN view[w][v] ELSE Fill(w, v, phys)
    IN /\ c.pc \in {"map", "stack"} /\ ~AllMapped(w)
       /\ \/ /\ phys = 0 \/ ~m.ok
             /\ GiveUp(w)
          \/ /\ phys # 0 /\ m.ok
             /\ used' = m.used
             /\ data' = [data EXCEPT ![phys] = Fill(w, v, phys)]
             /\ work' = [work EXCEPT ![w].as = m.as, ![w].see[v] = must,
                                      ![w].todo = IF c.op = "fork" THEN @ ELSE Tail(@)]
             /\ UNCHANGED <<procs, blocks, leaked, lost, view>>
       /\ UNCHANGED <<heap_end, g_fat, calls>>

\* elf_load returns: the buffer is freed; a bad file ends exec.
Loaded(w) ==
    LET c == work[w]
    IN /\ c.pc = "map" /\ AllMapped(w) /\ c.op = "exec"
       /\ \/ ~c.prog.valid /\ GiveUp(w)
          \/ /\ c.prog.valid
             /\ blocks' = kfree(blocks, c.buf)
             /\ work' = [work EXCEPT ![w].buf = 0, ![w].pc = "stack", ![w].todo = Stack]
             /\ UNCHANGED <<used, data, procs, leaked, lost, view>>
       /\ UNCHANGED <<heap_end, g_fat, calls>>

\* exec's space is complete: process_spawn_user claims a slot, or there is none
\* and exec returns 0.
Claim(w) ==
    LET free == {s \in Procs : procs[s].state = "unused"}
    IN /\ work[w].pc = "stack" /\ AllMapped(w)
       /\ \/ free = {} /\ GiveUp(w)
          \/ /\ free # {}
             /\ procs' = [procs EXCEPT ![Min(free)].state = "claimed"]
             /\ work' = [work EXCEPT ![w].pc = "publish", ![w].slot = Min(free)]
             /\ UNCHANGED <<used, data, blocks, leaked, lost, view>>
       /\ UNCHANGED <<heap_end, g_fat, calls>>

\* process_spawn_user and process_fork fill the slot they claimed and make it
\* READY, whatever has become of it since.
Publish(w) ==
    LET c == work[w]
    IN /\ c.pc = "publish" \/ (c.op = "fork" /\ c.pc = "map" /\ AllMapped(w))
       /\ Replace(c.slot, [state |-> "live", as |-> c.as], c.see)
       /\ leaked' = leaked \cup HeldPages(c.slot)
       /\ work' = [work EXCEPT ![w] = NoCall, ![c.slot] = NoCall]
       /\ UNCHANGED <<used, heap, g_fat, data, calls>>

\* sys_write_file: a heap buffer for the length of the call.
WriteFile(p, len) ==
    LET h == kmalloc(Heap, len)
    IN /\ Enter(p) /\ g_fat # 0
       /\ used' = h.used /\ heap_end' = h.end /\ blocks' = h.blocks
       /\ work' = IF h.ptr = 0 THEN work
                  ELSE [work EXCEPT ![p] = Call("write_file", "buffer", Shell, h.ptr, len, 0)]
       /\ UNCHANGED <<g_fat, data, procs, leaked, lost, view>>

WriteFileDone(p) ==
    /\ work[p].pc = "buffer"
    /\ blocks' = kfree(blocks, work[p].buf)
    /\ work' = [work EXCEPT ![p] = NoCall]
    /\ UNCHANGED <<used, heap_end, g_fat, data, procs, calls, leaked, lost, view>>

\* The process stores into its pages vs, or the kernel does for it: every page
\* of the range is checked before the first byte is copied.
copy_to_user(p, vs) ==
    /\ InRing3(p)
    /\ \A v \in vs : procs[p].as.map[v] # 0
    /\ data' = [q \in Pages |-> IF \E v \in vs : procs[p].as.map[v] = q THEN <<"of", p>> ELSE data[q]]
    /\ view' = [view EXCEPT ![p] = [v \in Virt |-> IF v \in vs THEN <<"of", p>> ELSE @[v]]]
    /\ UNCHANGED <<used, heap, g_fat, procs, work, calls, leaked, lost>>

\* sys_exit, or sys_kill by q of any slot that is not unused, at any point of
\* p's call or p's own construction: process_exit never frees the address space,
\* and what the call was holding is left behind, a slot it had claimed included.
Exit(q, p) ==
    /\ InRing3(q)
    /\ procs[p].state # "unused"
    /\ Replace(p, Gone, NoView)
    /\ leaked' = leaked \cup HeldPages(p)
    /\ work' = [work EXCEPT ![p] = NoCall]
    /\ UNCHANGED <<used, heap, g_fat, data, calls>>

Next ==
    \/ \E size \in FatSizes : MountFat(size)
    \/ \E w \in Workers : CreateDirectory(w) \/ MapPage(w) \/ Loaded(w) \/ Claim(w) \/ Publish(w)
    \/ \E p \in Procs :
         \/ Fork(p) \/ ExecRead(p) \/ WriteFileDone(p)
         \/ \E q \in Procs : Exit(q, p)
         \/ \E g \in Programs : Exec(p, g)
         \/ \E len \in Lens : WriteFile(p, len)
         \/ \E vs \in Stores : copy_to_user(p, vs)

Spec == Init /\ [][Next]_vars

----------------------------------------------------------------------------
(***************************************************************************)
(* Properties                                                              *)
(***************************************************************************)

HeapRange == 1 .. heap_end - 1

\* The spaces of processes and of calls that are building one.
Building == {w \in Workers : work[w].as.dir # 0}
Running == {p \in Procs : procs[p].state = "live"}
Spaces == {<<"of", p, procs[p].as>> : p \in Running} \cup {<<"in", w, work[w].as>> : w \in Building}

\* Within a space the directory, the tables and the data pages differ.
NoSharing(as) ==
    /\ as.dir # 0 /\ as.dir \notin DataPages(as) \cup Tables(as)
    /\ DataPages(as) \cap Tables(as) = {}
    /\ \A v, x \in Virt : v # x /\ as.map[v] # 0 => as.map[v] # as.map[x]
    /\ \A d, e \in Pdes : d # e /\ as.pt[d] # 0 => as.pt[d] # as.pt[e]

\* A page has one owner: the heap, or one place in one address space, finished
\* or half built, and its bit is set, whatever order the pages of interleaved
\* execs, forks and heap growth were handed out and given back in.
OneOwner ==
    /\ \A a \in Spaces : NoSharing(a[3]) /\ PagesOf(a[3]) \subseteq used \ (HeapRange \cup leaked)
    /\ \A a, b \in Spaces : a # b => PagesOf(a[3]) \cap PagesOf(b[3]) = {}
    /\ HeapRange \subseteq used \ leaked

\* A process finds in each of its pages what its program file, its parent at
\* the fork, or its own last store left there; no other call touches it.
OwnMemory ==
    \A p \in Running, v \in Virt :
      /\ procs[p].as.map[v] # 0 <=> view[p][v] # Nothing
      /\ procs[p].as.map[v] # 0 => data[procs[p].as.map[v]] = view[p][v]

Buffers == {<<work[w].buf, work[w].len>> : w \in {x \in Workers : work[x].buf # 0}}

\* The heap's blocks lie one after the other inside the heap's pages, also
\* after a growth that failed half way, and every buffer in use has a block of
\* its own that is large enough.
HeapSound ==
    /\ \A i \in 1 .. Len(blocks) :
         blocks[i].at + Header + blocks[i].size
           <= IF i < Len(blocks) THEN blocks[i + 1].at ELSE heap_end * PageSize
    /\ \A b \in Buffers : \E i \in 1 .. Len(blocks) :
         blocks[i].at = b[1] /\ ~blocks[i].free /\ blocks[i].size >= b[2]
    /\ \A v, w \in Workers : v # w /\ work[v].buf # 0 => work[v].buf # work[w].buf

\* Every page in use is the kernel's, the heap's, in an address space, or one
\* that nobody will free.
PagesKnown ==
    used = {0} \cup HeapRange \cup leaked \cup UNION {PagesOf(a[3]) : a \in Spaces}

\* Every heap block in use is the FAT, the buffer of a call, or lost.
BlocksKnown ==
    {blocks[i].at : i \in {j \in 1 .. Len(blocks) : ~blocks[j].free}}
      = lost \cup ({g_fat} \ {0}) \cup {b[1] : b \in Buffers}

\* Nothing is forgotten but by these steps: a process ends (process_exit never
\* frees the space), an exec fails, a fork fails (its page tables), the process in
\* a call is killed (all the call holds), and a fork or an exec completes or undoes
\* a slot that was killed under it and that another process has taken since (all
\* that one holds).  Blocks: the buffer of a killed call, and that of an exec which
\* finds no page for a directory, although exec.c:45 says "freed below".
LeaksKnown == PagesKnown /\ BlocksKnown

=============================================================================
