--------------------------------- MODULE Vm ---------------------------------
(***************************************************************************)
(* The memory manager of the proxy kernel (software/hello/vm.c) over the   *)
(* file table, with the loader that fills the address space at the start   *)
(* (elf.c).  A mapping is a region with a count of the pages that still    *)
(* wait for it; its page-table entries name the region until the first     *)
(* touch fills the page and takes it off the count.                        *)
(*                                                                         *)
(* Addresses count units, PGSIZE to a page; a page's frame is the page     *)
(* itself.  The locks are empty and one hart runs the code, so each call   *)
(* is one step.  m holds what vm.c and file.c keep, current what elf_info  *)
(* keeps of the program.                                                   *)
(***************************************************************************)
EXTENDS FileTable, Sequences

CONSTANTS
    PGSIZE,
    FirstFree,   \* first_free_paddr: the kernel's own pages lie below
    MmapMax,     \* mmap_max, and first_free_page: the page allocator's lie above
    FREE_PAGES,  \* free_pages of the allocator
    PTES,        \* entries of a page of the page table
    MAX_VMR,
    StackSize,
    Segments,    \* the program's PT_LOAD segments
    Lengths,     \* lengths the program maps, unmaps and protects
    Prots,       \* rights it asks for
    Offsets,     \* offsets in the file, multiples of PGSIZE
    MaxCalls     \* bound: how many calls it makes

Pages == 0 .. MmapMax \div PGSIZE + FREE_PAGES - 1
UserPages == FirstFree \div PGSIZE .. MmapMax \div PGSIZE - 1
User == FirstFree .. MmapMax - 1
Vmrs == 1 .. MAX_VMR

ASSUME VmAssumption ==
    /\ {PGSIZE, FREE_PAGES, PTES, MAX_VMR} \subseteq Nat \ {0}
    /\ {FirstFree, MmapMax, StackSize} \subseteq {PGSIZE * p : p \in Pages}
    /\ 0 < StackSize /\ FirstFree + StackSize <= MmapMax
    /\ Lengths \subseteq Nat \ {0} /\ Offsets \subseteq Nat /\ MaxCalls \in Nat
    /\ Prots \subseteq SUBSET {"r", "w", "x"}

\* The format wants p_filesz within p_memsz, and p_offset and p_vaddr at the
\* same place in a page; a segment that starts a page has something in the file.
ASSUME SegmentsAssumption ==
    /\ Segments \in Seq([vaddr : Nat, filesz : Nat, memsz : Nat, offset : Nat])
    /\ Segments # <<>>
    /\ \A i \in 1 .. Len(Segments) :
           LET seg == Segments[i]
           IN  /\ seg.filesz <= seg.memsz
               /\ seg.vaddr % PGSIZE <= seg.offset
               /\ 0 < seg.filesz + (seg.vaddr % PGSIZE)

\* No call is longer than the memory the program can map.  __vm_alloc takes
\* the length off mmap_max unsigned (vm.c:172): for a longer one the end of its
\* search wraps, the call is given addresses above the memory, and page_alloc
\* runs out of pages or a populating call fails its assert.
ASSUME LengthsAssumption == \A length \in Lengths : length <= MmapMax

VARIABLES
    m,        \* page table, regions, files, allocator and memory
    current,  \* brk_min, brk, brk_max
    stage,    \* how far the start of the program has come
    handles,  \* the files someone has open
    asked     \* history: who mapped each page last, and with which rights

vars == <<m, current, stage, handles, asked>>

Zero == <<0, 0>>
Stored == <<0, 1>>
Stale == <<0, 2>>

\* What address u shows of a page that waits for region r: the file, as far as
\* the region and the file go, and zero after them.
Shows(r, u) ==
    IF r.file # 0 /\ u - r.addr < r.length /\ u - r.addr + r.offset < FileSize
    THEN <<r.file, u - r.addr + r.offset>> ELSE Zero

\* What the program finds at address u.
At(s, u) ==
    LET e == s.pt[u \div PGSIZE]
    IN  CASE e.kind = "none" -> <<>>
          [] e.kind = "page" -> s.mem[u]
          [] e.kind = "lazy" -> Shows(s.vmr[e.v], u)

shown == [u \in User |-> At(m, u)]

AS == INSTANCE AddressSpace WITH client <- stage, space <- shown

-----------------------------------------------------------------------------
(* Entries and pages *)

Free == [kind |-> "none", v |-> 1, prot |-> {}, user |-> FALSE]
Lazy(v) == [Free EXCEPT !.kind = "lazy", !.v = v]

\* pte_create: a page one may write or execute can be read as well, and a
\* user page without rights is the supervisor's.
Rights(prot) == IF prot = {} THEN {} ELSE prot \cup {"r"}
pte_create(prot, user) ==
    [Free EXCEPT !.kind = "page", !.prot = Rights(prot), !.user = user /\ prot # {}]

All == {"r", "w", "x"}

ROUNDUP(a) == ((a + PGSIZE - 1) \div PGSIZE) * PGSIZE

\* How many pages a length takes.
NPage(length) == ROUNDUP(length) \div PGSIZE
PagesOf(addr, length) == addr \div PGSIZE .. addr \div PGSIZE + NPage(length) - 1

\* The loops "for (a = addr; a < addr + length; a += RISCV_PGSIZE)", from the
\* page of addr on.
PageLoop(step(_, _), s, first, npage) ==
    LET after[i \in 0 .. npage] == IF i = 0 THEN s ELSE step(after[i - 1], first + i - 1)
    IN  after[npage]

\* A failed kassert stops the machine.
kassert(s, cond, label) ==
    IF cond \/ s.panic # "none" THEN s ELSE [s EXCEPT !.panic = label]

page_alloc(s) ==
    [kassert(s, s.next # FREE_PAGES, "page_alloc") EXCEPT !.next = @ + 1]

-----------------------------------------------------------------------------
(* Page table *)

maybe_create_root(s) == IF s.root THEN s ELSE [page_alloc(s) EXCEPT !.root = TRUE]

\* Mutant: the entry of the upper level is not kept.
walk_create_fresh(s, p) == page_alloc(maybe_create_root(s))

walk_create(s, p) ==
    LET r == maybe_create_root(s)
    IN  IF p \div PTES \in r.tables THEN r
        ELSE [page_alloc(r) EXCEPT !.tables = @ \cup {p \div PTES}]

va_avail(s, p) == p \notin Pages \/ s.pt[p].kind = "none"

\* The first run of free pages at or above the break, for as many pages as
\* LengthsAssumption leaves.
Gaps(s, npage) ==
    {p \in Pages : /\ current.brk <= p * PGSIZE
                   /\ p * PGSIZE <= MmapMax - npage * PGSIZE
                   /\ \A q \in p .. p + npage - 1 : va_avail(s, q)}

valid_user_range(vaddr, len) == vaddr >= FirstFree /\ vaddr + len <= MmapMax

-----------------------------------------------------------------------------
(* Regions *)

with_vmrs(s) == IF s.vmrs THEN s ELSE [page_alloc(s) EXCEPT !.vmrs = TRUE]

FreeVmrs(s) == {v \in Vmrs : s.vmr[v].refcnt = 0}

vmr_alloc(s, addr, length, file, offset, refcnt, prot) ==
    [s EXCEPT !.files = IF file = 0 THEN @ ELSE file_incref(@, file),
              !.vmr[Min(FreeVmrs(s))] =
                  [addr |-> addr, length |-> length, file |-> file,
                   offset |-> offset, refcnt |-> refcnt, prot |-> prot]]

\* Mutant: the file stays with a region that has no pages left.
vmr_decref_keeps(s, v) == [s EXCEPT !.vmr[v].refcnt = @ - 1]

vmr_decref(s, v) ==
    LET left == s.vmr[v].refcnt - 1
        file == s.vmr[v].file
    IN  [s EXCEPT !.vmr[v].refcnt = left,
                  !.files = IF left = 0 /\ file # 0 THEN file_decref(@, file) ELSE @]

-----------------------------------------------------------------------------
(* __handle_page_fault *)

Write(mem, p, Val(_)) == [u \in DOMAIN mem |-> IF u \div PGSIZE = p THEN Val(u) ELSE mem[u]]

\* The page of a region that is touched first: its part of the file is read
\* into it, which must give something, and the rest of it is cleared.
fill(s, p) ==
    LET v    == s.vmr[s.pt[p].v]
        done == p * PGSIZE - v.addr
        flen == Min({PGSIZE, v.length - done})
        pos  == done + v.offset
        ret  == file_pread(flen, pos)
    IN  IF v.file = 0
        THEN [s EXCEPT !.mem = Write(@, p, LAMBDA u : Zero)]
        ELSE [kassert(s, ret > 0, "page past the end of the file") EXCEPT
                !.mem = Write(@, p, LAMBDA u :
                            IF u - p * PGSIZE < ret
                            THEN <<v.file, pos + u - p * PGSIZE>> ELSE Zero)]

touch(s, p) ==
    IF s.pt[p].kind # "lazy" THEN s
    ELSE LET v == s.pt[p].v
             d == vmr_decref(fill(s, p), v)
         IN  [d EXCEPT !.pt[p] = pte_create(d.vmr[v].prot, TRUE)]

\* Whether the entry gives what the access asks for.
Permits(e, prot) ==
    LET perms == pte_create(prot, TRUE)
    IN  e.user = perms.user /\ perms.prot \subseteq e.prot

-----------------------------------------------------------------------------
(* __do_munmap and __do_mmap *)

\* Mutant: a page that still waits is taken away without its region knowing.
unmap_page_silent(s, p) == [s EXCEPT !.pt[p] = Free]

unmap_page(s, p) ==
    IF va_avail(s, p) THEN s
    ELSE [(IF s.pt[p].kind = "lazy" THEN vmr_decref(s, s.pt[p].v) ELSE s)
             EXCEPT !.pt[p] = Free]

munmap(s, addr, len) == PageLoop(unmap_page, s, addr \div PGSIZE, NPage(len))

map_page(s, v, p) == [unmap_page(walk_create(s, p), p) EXCEPT !.pt[p] = Lazy(v)]

map_range(s, v, first, npage) ==
    PageLoop(LAMBDA t, p : map_page(t, v, p), s, first, npage)

\* A populating call must be able to use its pages as it asked.
populate_page(s, p, prot) ==
    LET t == touch(s, p)
    IN  kassert(t, Permits(t.pt[p], prot), "populate")

populate_range(s, first, npage, prot) ==
    PageLoop(LAMBDA t, p : populate_page(t, p, prot), s, first, npage)

\* The address a call gets; -1 when the range or the address space refuses.
mmap_addr(s, addr, length, fixed) ==
    IF fixed
    THEN IF addr % PGSIZE # 0 \/ ~valid_user_range(addr, length) THEN -1 ELSE addr
    ELSE LET gaps == Gaps(s, NPage(length))
         IN  IF gaps = {} THEN -1 ELSE Min(gaps) * PGSIZE

mmap_result(s, addr, length, fixed) ==
    IF FreeVmrs(s) = {} THEN -1 ELSE mmap_addr(s, addr, length, fixed)

\* mstatus_init clears it on a core without paging, which cannot run the kernel's program.
have_vm == TRUE

do_mmap_at(s, a, length, prot, populate, file, offset) ==
    LET first == a \div PGSIZE
        npage == NPage(length)
        r == with_vmrs(s)
        mapped == map_range(vmr_alloc(r, a, length, file, offset, npage, prot),
                            Min(FreeVmrs(r)), first, npage)
    IN  IF ~have_vm \/ populate THEN populate_range(mapped, first, npage, prot) ELSE mapped

NoVmr == [addr |-> 0, length |-> 0, file |-> 0, offset |-> 0, refcnt |-> 0, prot |-> {}]

\* What a call leaves.  A region without pages is set anew before it is read
\* again, and of a page that is not mapped nothing is known.
Settled(r) ==
    [r EXCEPT !.vmr = [v \in Vmrs |-> IF @[v].refcnt = 0 THEN NoVmr ELSE @[v]],
              !.mem = [u \in User |-> IF r.pt[u \div PGSIZE].kind = "page"
                                      THEN @[u] ELSE Stale]]

PowerOn ==
    [pt |-> [p \in Pages |-> Free], vmr |-> [v \in Vmrs |-> NoVmr],
     files |-> file_init, mem |-> [u \in User |-> Stale],
     root |-> FALSE, vmrs |-> FALSE, tables |-> {}, next |-> 0, panic |-> "none"]

vm_init == [brk_min |-> 0, brk |-> 0, brk_max |-> MmapMax]

NothingAsked == [p \in UserPages |-> {}]

\* A call goes on to next and leaves r, cur and ask, or the machine stops in
\* its middle.
Effect(next, r, cur, ask) ==
    \/ /\ r.panic = "none"
       /\ stage' = next /\ m' = Settled(r) /\ current' = cur /\ asked' = ask
    \/ /\ r.panic # "none"
       /\ stage' = <<"off", 0>> /\ m' = [PowerOn EXCEPT !.panic = r.panic]
       /\ current' = vm_init /\ asked' = NothingAsked

Panic(label) == kassert(m, FALSE, label)

Asked(addr, length, prot) ==
    [p \in UserPages |-> IF p \in PagesOf(addr, length) THEN prot ELSE asked[p]]

-----------------------------------------------------------------------------
(* The start of the program: load_elf, for a user's program, then pk_vm_init *)

Init ==
    /\ m = PowerOn
    /\ current = vm_init
    /\ stage = <<"open", 0>>
    /\ handles = {}
    /\ asked = NothingAsked

\* The loader opens the program.
OpenElf ==
    /\ stage[1] = "open"
    /\ m' = [m EXCEPT !.files = file_open(@)]
    /\ handles' = {file_get_free(m.files)}
    /\ stage' = <<"map", Len(Segments)>>
    /\ UNCHANGED <<current, asked>>

\* The part of a segment that is in the file, from the last segment to the
\* first.  The page in front of it is filled at once and cleared up to it.
MapSegment ==
    /\ stage[1] = "map"
    /\ LET seg    == Segments[stage[2]]
           prepad == seg.vaddr % PGSIZE
           base   == seg.vaddr - prepad
           r == IF mmap_result(m, base, seg.filesz + prepad, TRUE) = base
                THEN do_mmap_at(m, base, seg.filesz + prepad, All, prepad # 0,
                                Min(handles), seg.offset - prepad)
                ELSE Panic("fail to memory map a section header")
       IN  Effect(<<"bss", stage[2]>>,
                  [r EXCEPT !.mem = [u \in User |->
                       IF u \in base .. seg.vaddr - 1 THEN Zero ELSE @[u]]],
                  current, Asked(base, seg.filesz + prepad, All))
    /\ UNCHANGED handles

\* The rest of the segment, and on to the segment before it.
MapBss ==
    /\ stage[1] = "bss"
    /\ LET seg    == Segments[stage[2]]
           prepad == seg.vaddr % PGSIZE
           mapped == ROUNDUP(seg.filesz + prepad) - prepad
           at     == seg.vaddr + mapped
           len    == seg.memsz - mapped
           r == IF len <= 0 THEN m
                ELSE IF mmap_result(m, at, len, TRUE) = at
                     THEN do_mmap_at(m, at, len, All, FALSE, 0, 0)
                     ELSE Panic("fail to memory map a section")
       IN  Effect(IF stage[2] = 1 THEN <<"close", 0>> ELSE <<"map", stage[2] - 1>>,
                  r, [current EXCEPT !.brk_min = Max({@, seg.vaddr + seg.memsz})],
                  IF len <= 0 THEN asked ELSE Asked(at, len, All))
    /\ UNCHANGED handles

CloseElf ==
    /\ stage[1] = "close"
    /\ m' = [m EXCEPT !.files = file_decref(@, Min(handles))]
    /\ handles' = {}
    /\ stage' = <<"stack", 0>>
    /\ UNCHANGED <<current, asked>>

\* pk_vm_init maps the kernel's own pages, then the stack below mmap_max.
\* The stack does not lower brk_max: only do_mmap does.
kernel_page(s, p, prot) == [walk_create(s, p) EXCEPT !.pt[p] = pte_create(prot, FALSE)]

map_kernel_range(s, first, npage, prot) ==
    PageLoop(LAMBDA t, p : kernel_page(t, p, prot), s, first, npage)

pk_vm_init ==
    /\ stage[1] = "stack"
    /\ LET k == map_kernel_range(map_kernel_range(m, 0, FirstFree \div PGSIZE, All),
                                 MmapMax \div PGSIZE, FREE_PAGES, {"r", "w"})
           bottom == MmapMax - StackSize
           r == IF mmap_result(k, bottom, StackSize, TRUE) = bottom
                THEN do_mmap_at(k, bottom, StackSize, All, FALSE, 0, 0)
                ELSE Panic("stack_bottom")
       IN  Effect(<<"run", 0>>, page_alloc(r), current, Asked(bottom, StackSize, All))
    /\ UNCHANGED handles

-----------------------------------------------------------------------------
(* The running program *)

Running == stage[1] = "run"

\* Bound of the model: the program makes MaxCalls calls.
Call == Running /\ stage[2] < MaxCalls
Called == <<"run", stage[2] + 1>>

\* The first access to a page, by the program or by the kernel for it.
handle_page_fault(p) ==
    /\ Running
    /\ m.pt[p].kind = "lazy" /\ valid_user_range(p * PGSIZE, 1)
    /\ Effect(stage, touch(m, p), current, asked)
    /\ UNCHANGED handles

\* The program writes to the first address of a page it may write.
StoreTo(u) ==
    /\ Running
    /\ u % PGSIZE = 0
    /\ LET e == m.pt[u \div PGSIZE]
       IN  e.kind = "page" /\ e.user /\ "w" \in e.prot
    /\ m' = [m EXCEPT !.mem[u] = Stored]
    /\ UNCHANGED <<current, stage, handles, asked>>

\* A refused call changes nothing but the root of the page table, which is
\* there by now.
do_mmap(addr, length, prot, fixed, populate, file, offset) ==
    LET a == mmap_result(m, addr, length, fixed)
    IN  /\ Call
        /\ a # -1
        /\ Effect(Called,
                  do_mmap_at(m, a, length, prot, populate, file, offset),
                  [current EXCEPT !.brk_max = Min({@, a})], Asked(a, length, prot))
        /\ UNCHANGED handles

do_munmap(addr, length) ==
    /\ Call
    /\ addr % PGSIZE = 0 /\ valid_user_range(addr, length)
    /\ Effect(Called, munmap(m, addr, length), current, Asked(addr, length, {}))
    /\ UNCHANGED handles

\* Where the break goes, and where it stands before it goes there.
\* Mutant: the break is not held below the lowest mapping.
newbrk_free(addr) == Max({addr, current.brk_min})

newbrk(addr) ==
    IF addr < current.brk_min THEN current.brk_min
    ELSE Min({addr, current.brk_max})
oldbrk == IF current.brk = 0 THEN ROUNDUP(current.brk_min) ELSE current.brk

do_brk(addr) ==
    LET new  == ROUNDUP(newbrk(addr))
        grow == IF mmap_result(m, oldbrk, new - oldbrk, TRUE) = oldbrk
                THEN do_mmap_at(m, oldbrk, new - oldbrk, All, FALSE, 0, 0)
                ELSE Panic("__do_mmap == current.brk")
        moved == [current EXCEPT !.brk = new]
    IN  /\ Call
        /\ \/ /\ oldbrk > new
              /\ Effect(Called, munmap(m, new, oldbrk - new), moved,
                        Asked(new, oldbrk - new, {}))
           \/ /\ oldbrk < new
              /\ Effect(Called, grow, moved, Asked(oldbrk, new - oldbrk, All))
           \/ /\ oldbrk = new
              /\ Effect(Called, m, moved, asked)
        /\ UNCHANGED handles

\* One page of do_mprotect: t.ok falls where the call breaks off.  A page
\* that still waits changes the rights of its whole region.
\* Mutant: only pages that were touched are held to their rights.
protect_page_lazy(t, p, prot) ==
    LET e == t.s.pt[p]
    IN  IF ~t.ok \/ va_avail(t.s, p) THEN [t EXCEPT !.ok = FALSE]
        ELSE IF e.kind = "lazy" THEN [t EXCEPT !.s.vmr[e.v].prot = prot]
        ELSE IF prot \cap {"w", "x"} \subseteq (IF e.user THEN e.prot ELSE {})
        THEN [t EXCEPT !.s.pt[p] = pte_create(prot, TRUE)] ELSE [t EXCEPT !.ok = FALSE]

protect_page(t, p, prot) ==
    LET e == t.s.pt[p]
        refuse == [t EXCEPT !.ok = FALSE]
    IN  IF ~t.ok THEN t
        ELSE IF va_avail(t.s, p) THEN refuse
        ELSE IF e.kind = "lazy"
        THEN IF prot \subseteq t.s.vmr[e.v].prot
             THEN [t EXCEPT !.s.vmr[e.v].prot = prot] ELSE refuse
        ELSE IF prot \cap {"w", "x"} \subseteq (IF e.user THEN e.prot ELSE {})
        THEN [t EXCEPT !.s.pt[p] = pte_create(prot, TRUE)] ELSE refuse

protect_range(t, first, npage, prot) ==
    PageLoop(LAMBDA u, p : protect_page(u, p, prot), t, first, npage)

do_mprotect(addr, length, prot) ==
    /\ Call
    /\ addr % PGSIZE = 0
    /\ LET t == protect_range([s |-> m, ok |-> TRUE], addr \div PGSIZE, NPage(length), prot)
       IN  Effect(Called, t.s, current, asked)
    /\ UNCHANGED handles

-----------------------------------------------------------------------------
(* The file calls, made by whoever has the file open *)

open_file ==
    /\ Call
    /\ Effect(Called,
              IF FreeFiles(m.files) = {} THEN Panic("fail to get a free file")
              ELSE [m EXCEPT !.files = file_open(@)],
              current, asked)
    /\ handles' = IF FreeFiles(m.files) = {} THEN {}
                  ELSE handles \cup {file_get_free(m.files)}

close_file(f) ==
    /\ Running /\ f \in handles
    /\ m' = [m EXCEPT !.files = file_decref(@, f)]
    /\ handles' = handles \ {f}
    /\ UNCHANGED <<current, stage, asked>>

-----------------------------------------------------------------------------
UserAddrs == {p * PGSIZE : p \in UserPages}

Load == OpenElf \/ MapSegment \/ MapBss \/ CloseElf \/ pk_vm_init

MemoryCall ==
    \/ \E addr \in {0} \cup UserAddrs, length \in Lengths, prot \in Prots,
          populate \in BOOLEAN, from \in {<<0, 0>>} \cup (handles \X Offsets) :
           do_mmap(addr, length, prot, addr # 0, populate, from[1], from[2])
    \/ \E addr \in UserAddrs, length \in Lengths :
           \/ do_munmap(addr, length)
           \/ \E prot \in Prots : do_mprotect(addr, length, prot)
    \/ \E addr \in 0 .. MmapMax : do_brk(addr)

FileCall ==
    \/ open_file
    \/ \E f \in handles : close_file(f)

Access == (\E p \in UserPages : handle_page_fault(p)) \/ (\E u \in User : StoreTo(u))

Next == Load \/ MemoryCall \/ FileCall \/ Access

Spec == Init /\ [][Next]_vars

-----------------------------------------------------------------------------

\* A region's count is the number of pages that still wait for it, so it is
\* free for the next mapping exactly when no page can need it (vm.c:57, :61).
VmrCounts ==
    \A v \in Vmrs :
        m.vmr[v].refcnt = Cardinality({p \in Pages : m.pt[p].kind = "lazy" /\ m.pt[p].v = v})

\* A file is open while someone has it open or a region still has a page to
\* read from it, and its slot is free from then on (file.c:13, :22).
FileCounts == m.panic = "none" =>
    \A f \in FileIds :
        LET users == Cardinality({v \in Vmrs : m.vmr[v].refcnt > 0 /\ m.vmr[v].file = f})
                         + (IF f \in handles THEN 1 ELSE 0)
        IN  /\ m.files[f].refcnt = IF users = 0 THEN 0 ELSE users + 1
            /\ m.files[f].open <=> users > 0

\* No page can be written or executed unless the call that mapped it asked
\* for that, whatever do_mprotect did since (vm.c:371, :378).
NoRightGained ==
    m.panic = "none" =>
        \A p \in UserPages :
            LET e == m.pt[p]
                now == CASE e.kind = "none" -> {}
                         [] e.kind = "page" -> e.prot
                         [] e.kind = "lazy" -> m.vmr[e.v].prot
            IN  now \cap {"w", "x"} \subseteq asked[p]

\* As long as no call is longer than mmap_max, the pages put aside for the
\* allocator are enough for the page table, the regions and the kernel's stack
\* (vm.c:29), the loader and pk_vm_init find room for what they map (elf.c:81,
\* :86, vm.c:503), and a populating call can use its pages as it asked
\* (vm.c:284).
AssertsHold ==
    m.panic \notin {"page_alloc", "populate", "fail to memory map a section header",
                    "fail to memory map a section", "stack_bottom"}

\* Once the break is set, and while nothing is mapped below the program's
\* end, raising it takes only free pages below the stack: do_mmap lowers
\* brk_max to what it gives out (vm.c:313).
BrkGrowsClear ==
    [][ /\ 0 < current.brk /\ current.brk < current'.brk
        /\ current.brk_min <= current.brk_max
        /\ m'.panic = "none"
        => \A p \in UserPages :
               (p + 1) * PGSIZE <= MmapMax - StackSize =>
                   va_avail(m, p) \/ m'.pt[p] = m.pt[p] ]_vars

\* Demand paging cannot be seen: every address holds what was mapped or
\* stored there last, from the call on.
Implements == AS!Spec

=============================================================================
