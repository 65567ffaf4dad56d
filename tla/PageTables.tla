----------------------------- MODULE PageTables -----------------------------
(***************************************************************************)
(* Page tables and address spaces: kernel/memory/paging/mapper.rs, the     *)
(* space of a new process (create_process_cr3, process/process.rs          *)
(* setup_user_stack) and anonymous memory (syscall/dispatcher/mmap.rs).    *)
(*                                                                         *)
(* Addresses are page numbers.  A PT has 2 entries, a PD and a PDPT have   *)
(* 3, of the PML4 the entries 0 and 255 are kept (here 0 and 1): a PD      *)
(* entry spans 2 pages ("2 MiB") and a PDPT entry 6 ("1 GiB").  PD entry 1 *)
(* of the first PD is where programs are loaded, PDPT entry 1 is where     *)
(* anonymous memory lies, PML4 entry 1 holds the stack.                    *)
(* Protection bits are left out.                                           *)
(***************************************************************************)
EXTENDS Integers, Sequences, FiniteSets, FiniteSetsExt

CONSTANTS PoolPages,    \* PT_POOL_PAGES
          RamRegions,   \* [start, pages] the frame allocator may manage
          DevPages,     \* pages of devices that drivers map (frame buffer, NVMe)
          PtSlots,      \* process slots
          MmapCounts,   \* pages asked of mmap
          MaxStarts     \* bound: processes started

KernelImage == {0, 1}
LoadVa == 2
AnonBase == 6
AnonLimit == 11
StackVa == 18
Missing == -1
KernelCr3 == 1

None == [k |-> "none", to |-> 0]
Table(t) == [k |-> "table", to |-> t]
Leaf(pa) == [k |-> "leaf", to |-> pa]     \* a PTE, or an entry with PS set
Empty == [i \in 0..2 |-> None]

L4(v) == v \div 18
L3(v) == (v \div 6) % 3
L2(v) == (v \div 2) % 3
L1(v) == v % 2

VARIABLES pt,       \* the pages handed out by PT_POOL, tables or stack pages
          ram,      \* the region of the frame allocator
          device,   \* the page the drivers map
          free,     \* free frames
          space,    \* cr3 of the process in each slot, 0 if none
          anon,     \* ANON_NEXT
          given,    \* per slot: what the program was told it has, va -> frame
          pstep,    \* "init" | "drivers" | "run" | "halted"
          starts    \* processes started so far

ptVars == <<pt, ram, device, free, space, anon, given, pstep, starts>>

-----------------------------------------------------------------------------
(* Tables.  Each operator takes the tables and returns them with a result: *)
(* the child table, 0 when the pool is exhausted.                          *)

Failed(m) == [tabs |-> m, child |-> 0]

\* alloc_table_page, then hang the new table into the parent's entry.
NewChild(m, t, i, entries) ==
    IF Len(m) >= PoolPages THEN Failed(m)
    ELSE [tabs |-> Append([m EXCEPT ![t][i] = Table(Len(m) + 1)], entries), child |-> Len(m) + 1]

get_or_alloc_child(m, t, i) ==
    IF m[t][i].k = "none" THEN NewChild(m, t, i, Empty) ELSE [tabs |-> m, child |-> m[t][i].to]

\* Split of a large page: the children map what the parent mapped.
Split(base, span) == [i \in 0..2 |-> Leaf(base + i * span)]

\* Mutant of get_or_alloc_pt: a large page is replaced by an empty table.
ForgetLarge(m, t, i) ==
    IF m[t][i].k # "table" THEN NewChild(m, t, i, Empty) ELSE [tabs |-> m, child |-> m[t][i].to]

get_or_alloc_pd(m, t, i) ==
    CASE m[t][i].k = "none" -> NewChild(m, t, i, Empty)
      [] m[t][i].k = "table" -> [tabs |-> m, child |-> m[t][i].to]
      [] OTHER -> NewChild(m, t, i, Split(m[t][i].to, 2))

get_or_alloc_pt(m, t, i) ==
    CASE m[t][i].k = "none" -> NewChild(m, t, i, Empty)
      [] m[t][i].k = "table" -> [tabs |-> m, child |-> m[t][i].to]
      [] OTHER -> NewChild(m, t, i, Split(m[t][i].to, 1))

Done(m, ok) == [tabs |-> m, ok |-> ok]

map_page_into_space(m, cr3, va, pa) ==
    LET a == get_or_alloc_child(m, cr3, L4(va))
        b == get_or_alloc_pd(a.tabs, a.child, L3(va))
        c == get_or_alloc_pt(b.tabs, b.child, L2(va))
    IN  CASE a.child = 0 -> Done(a.tabs, FALSE)
          [] a.child # 0 /\ b.child = 0 -> Done(b.tabs, FALSE)
          [] a.child # 0 /\ b.child # 0 /\ c.child = 0 -> Done(c.tabs, FALSE)
          [] OTHER -> Done([c.tabs EXCEPT ![c.child][L1(va)] = Leaf(pa)], TRUE)

map_page_2mb_into_space(m, cr3, va, pa) ==
    LET a == get_or_alloc_child(m, cr3, L4(va))
        b == get_or_alloc_pd(a.tabs, a.child, L3(va))
    IN  CASE a.child = 0 -> Done(a.tabs, FALSE)
          [] a.child # 0 /\ b.child = 0 -> Done(b.tabs, FALSE)
          [] OTHER -> IF b.tabs[b.child][L2(va)].k = "table" THEN Done(b.tabs, FALSE)
                      ELSE Done([b.tabs EXCEPT ![b.child][L2(va)] = Leaf(pa)], TRUE)

map_page_1gb_into_space(m, cr3, va, pa) ==
    LET a == get_or_alloc_child(m, cr3, L4(va))
    IN  IF a.child = 0 THEN Done(a.tabs, FALSE)
        ELSE IF a.tabs[a.child][L3(va)].k = "table" THEN Done(a.tabs, FALSE)
        ELSE Done([a.tabs EXCEPT ![a.child][L3(va)] = Leaf(pa)], TRUE)

\* Map the pages of a set one by one, in ascending order.
MapEach(m, cr3, pages) ==
    LET step[k \in 0..Cardinality(pages)] ==
            IF k = 0 THEN Done(m, TRUE)
            ELSE LET p == CHOOSE q \in pages : Cardinality({r \in pages : r <= q}) = k
                 IN  IF step[k - 1].ok THEN map_page_into_space(step[k - 1].tabs, cr3, p, p) ELSE step[k - 1]
    IN  step[Cardinality(pages)]

\* identity_map_range: the largest page that fits at each address.
identity_map_range(m, cr3, start, pages) ==
    LET end == start + pages
        Turn(s) ==
            IF s.pa % 6 = 0 /\ end >= s.pa + 6
            THEN [r |-> map_page_1gb_into_space(s.r.tabs, cr3, s.pa, s.pa), pa |-> s.pa + 6]
            ELSE IF s.pa % 2 = 0 /\ end >= s.pa + 2
            THEN LET big == map_page_2mb_into_space(s.r.tabs, cr3, s.pa, s.pa)
                 IN  [r |-> IF big.ok THEN big ELSE MapEach(big.tabs, cr3, {s.pa, s.pa + 1}), pa |-> s.pa + 2]
            ELSE [r |-> map_page_into_space(s.r.tabs, cr3, s.pa, s.pa), pa |-> s.pa + 1]
        turn[k \in 0..pages] ==
            IF k = 0 THEN [r |-> Done(m, TRUE), pa |-> start]
            ELSE IF turn[k - 1].r.ok /\ turn[k - 1].pa < end THEN Turn(turn[k - 1]) ELSE turn[k - 1]
    IN  turn[pages].r

\* translate_in_space and walk_pte
translate_in_space(m, cr3, va) ==
    LET e4 == m[cr3][L4(va)]
        e3 == m[e4.to][L3(va)]
        e2 == m[e3.to][L2(va)]
        e1 == m[e2.to][L1(va)]
    IN  IF e4.k = "none" THEN Missing
        ELSE IF e3.k = "none" THEN Missing
        ELSE IF e3.k = "leaf" THEN e3.to + (va % 6)
        ELSE IF e2.k = "none" THEN Missing
        ELSE IF e2.k = "leaf" THEN e2.to + (va % 2)
        ELSE IF e1.k = "none" THEN Missing ELSE e1.to

\* Unmap a page that a PT maps, as every page mmap handed out is.
unmap_page_in_space(m, cr3, va) ==
    LET e4 == m[cr3][L4(va)]
        e3 == m[e4.to][L3(va)]
        e2 == m[e3.to][L2(va)]
    IN  IF e4.k = "none" \/ e3.k = "none" \/ e2.k = "none" THEN m
        ELSE [m EXCEPT ![e2.to][L1(va)] = None]

-----------------------------------------------------------------------------
(* paging::init and the drivers, in the kernel's own space.                *)

PtInit == /\ pt = <<>>
          /\ ram \in RamRegions
          /\ device \in DevPages
          /\ free = ram.start..(ram.start + ram.pages - 1)
          /\ space = [s \in PtSlots |-> 0]
          /\ anon = [s \in PtSlots |-> AnonBase]
          /\ given = [s \in PtSlots |-> {}]
          /\ pstep = "init"
          /\ starts = 0

\* mapper::init: the kernel with small pages, the frames with the largest
\* that fit, then the first frame once more as a small page.
PagingInit ==
    LET kernel == MapEach(<<Empty>>, KernelCr3, KernelImage)
        frames == identity_map_range(kernel.tabs, KernelCr3, ram.start, ram.pages)
        first == map_page_into_space(frames.tabs, KernelCr3, ram.start, ram.start)
        ok == kernel.ok /\ frames.ok /\ first.ok
    IN  /\ pstep = "init"
        /\ pt' = first.tabs
        /\ pstep' = IF ok THEN "drivers" ELSE "halted"
        /\ UNCHANGED <<ram, device, free, space, anon, given, starts>>

\* map_page_identity, called by the frame buffer and the NVMe driver before
\* the first process exists.
MapDevice ==
    LET r == map_page_into_space(pt, KernelCr3, device, device)
    IN  /\ pstep = "drivers"
        /\ pt' = r.tabs
        /\ pstep' = "run"
        /\ UNCHANGED <<ram, device, free, space, anon, given, starts>>

-----------------------------------------------------------------------------
(* The space of a new process.                                             *)

\* Mutant of create_process_cr3: the process keeps the kernel's PDPT.
SharesPdpt(m) ==
    IF Len(m) >= PoolPages THEN Failed(m)
    ELSE [tabs |-> Append(m, [m[KernelCr3] EXCEPT ![1] = None]), child |-> Len(m) + 1]

\* Own PML4, PDPT and first PD; everything below and beside them is shared
\* with the kernel.  The tables of a creation that fails half-way are lost.
create_process_cr3(m) ==
    LET pml4 == m[KernelCr3]
        pdpt == m[pml4[0].to]
        pd == m[pdpt[0].to]
        n == Len(m)
        parts == <<[pml4 EXCEPT ![0] = Table(n + 2), ![1] = None],
                   [pdpt EXCEPT ![0] = Table(n + 3)],
                   [pd EXCEPT ![1] = None]>>
    IN  IF n + 3 <= PoolPages THEN [tabs |-> m \o parts, child |-> n + 1]
        ELSE Failed(m \o [i \in 1..(PoolPages - n) |-> Empty])

\* load_elf maps one page of the program; its frame comes from the allocator.
LoadProgram(m, cr3, frame) == map_page_into_space(m, cr3, LoadVa, frame)

PoolPa(t) == 100 + t

\* setup_user_stack takes the stack's pages from the pool of tables.
setup_user_stack(m, cr3) ==
    IF Len(m) >= PoolPages THEN Done(m, FALSE)
    ELSE map_page_into_space(Append(m, Empty), cr3, StackVa, PoolPa(Len(m) + 1))

\* Which free frame the allocator returns makes no difference to the tables;
\* the model takes the lowest.
NextFrame(fr, k) == CHOOSE f \in fr : Cardinality({g \in fr : g <= f}) = k

\* create_user_process, as far as memory goes.  On any failure the slot is
\* released and what was allocated stays allocated.
create_user_process(s) ==
    LET new == create_process_cr3(pt)
    IN  /\ pstep = "run" /\ space[s] = 0 /\ starts < MaxStarts
        /\ starts' = starts + 1
        /\ IF new.child = 0 \/ free = {}
           THEN pt' = new.tabs /\ UNCHANGED <<free, space, given>>
           ELSE LET f == NextFrame(free, 1)
                    load == LoadProgram(new.tabs, new.child, f)
                    stack == setup_user_stack(load.tabs, new.child)
                    ok == load.ok /\ stack.ok
                IN  /\ free' = free \ {f}
                    /\ pt' = IF load.ok THEN stack.tabs ELSE load.tabs
                    /\ space' = IF ok THEN [space EXCEPT ![s] = new.child] ELSE space
                    /\ given' = IF ok
                                THEN [given EXCEPT ![s] = {<<LoadVa, f>>, <<StackVa, PoolPa(Len(load.tabs) + 1)>>}]
                                ELSE given
        /\ UNCHANGED <<ram, device, anon, pstep>>

-----------------------------------------------------------------------------
(* Anonymous memory.                                                       *)

\* The loop of sys_mmap over the frames fs (fewer than n when memory ran out).
MapFrames(m, cr3, va, fs) ==
    LET step[k \in 0..Len(fs)] ==
            IF k = 0 THEN Done(m, TRUE)
            ELSE IF step[k - 1].ok THEN map_page_into_space(step[k - 1].tabs, cr3, va + k - 1, fs[k])
            ELSE step[k - 1]
    IN  step[Len(fs)]

\* When frames or tables run out half-way, the pages mapped so far stay
\* mapped, the frames taken stay taken and the bump pointer stays put.
sys_mmap(s, n) ==
    LET va == anon[s]
        k == Min({n, Cardinality(free)})
        fs == [i \in 1..k |-> NextFrame(free, i)]
        Part(d) == MapFrames(pt, space[s], va, SubSeq(fs, 1, d))
        tried == IF Part(k).ok THEN k ELSE Min({d \in 1..k : ~Part(d).ok})
        ok == k = n /\ Part(k).ok
    IN  /\ pstep = "run" /\ space[s] # 0
        /\ va + n <= AnonLimit
        /\ pt' = Part(k).tabs
        /\ free' = free \ {fs[i] : i \in 1..tried}
        /\ anon' = IF ok THEN [anon EXCEPT ![s] = va + n] ELSE anon
        /\ given' = IF ok THEN [given EXCEPT ![s] = @ \cup {<<va + i - 1, fs[i]>> : i \in 1..n}] ELSE given
        /\ UNCHANGED <<ram, device, space, pstep, starts>>

\* munmap of pages mmap gave: their frames are not returned.
sys_munmap(s) ==
    /\ pstep = "run" /\ space[s] # 0
    /\ \E e \in given[s] :
         /\ e[1] \in AnonBase..(AnonLimit - 1)
         /\ pt' = unmap_page_in_space(pt, space[s], e[1])
         /\ given' = [given EXCEPT ![s] = @ \ {e}]
    /\ UNCHANGED <<ram, device, free, space, anon, pstep, starts>>

\* exit_current_and_schedule: reset_anon_for_slot; tables and frames stay taken.
ExitSpace(s) ==
    /\ pstep = "run" /\ space[s] # 0
    /\ space' = [space EXCEPT ![s] = 0]
    /\ given' = [given EXCEPT ![s] = {}]
    /\ anon' = [anon EXCEPT ![s] = AnonBase]
    /\ UNCHANGED <<pt, ram, device, free, pstep, starts>>

PtNext ==
    \/ PagingInit
    \/ MapDevice
    \/ \E s \in PtSlots :
        \/ create_user_process(s)
        \/ sys_munmap(s)
        \/ ExitSpace(s)
        \/ \E n \in MmapCounts : sys_mmap(s, n)

PtSpec == PtInit /\ [][PtNext]_ptVars

-----------------------------------------------------------------------------
Spaces == {KernelCr3} \cup {space[s] : s \in {t \in PtSlots : space[t] # 0}}
UserVas == {LoadVa, LoadVa + 1} \cup AnonBase..(AnonLimit - 1) \cup {StackVa}
FramesOf(s) == {translate_in_space(pt, space[s], v) : v \in UserVas} \ {Missing}

\* The tables a space is made of.
Below(ts) == {e.to : e \in {x \in UNION {{pt[t][i] : i \in 0..2} : t \in ts} : x.k = "table"}}
TablesOf(cr3) == {cr3} \cup Below({cr3}) \cup Below(Below({cr3})) \cup Below(Below(Below({cr3})))

\* The kernel reaches its image, every frame and the device at their own
\* addresses whichever process's space is loaded: system calls zero, copy
\* and walk through those addresses without switching CR3.
KernelEverywhere ==
    pstep = "run" =>
        \A c \in Spaces : \A p \in KernelImage \cup ram.start..(ram.start + ram.pages - 1) \cup {device} :
            translate_in_space(pt, c, p) = p

\* "user VA range is fresh and isolated" (lifecycle.rs:31): no page of a
\* program is reachable by another program, and none of them is a page
\* table or a page the allocator still holds free.
PrivatePages ==
    \A s \in {t \in PtSlots : space[t] # 0} :
        /\ FramesOf(s) \cap free = {}
        /\ \A c \in Spaces : FramesOf(s) \cap {PoolPa(t) : t \in TablesOf(c)} = {}
        /\ \A u \in PtSlots \ {s} : space[u] # 0 => FramesOf(s) \cap FramesOf(u) = {}

\* What a program was told it has, program, stack and anonymous pages, it
\* has until it gives it back, whatever it or others map later.
OwnPages ==
    \A s \in {t \in PtSlots : space[t] # 0} : \A e \in given[s] :
        translate_in_space(pt, space[s], e[1]) = e[2]

\* The pages of a program are its own: it keeps what it was given by spawn and
\* mmap, and no other program, table or free list has them.
PagesOwned == PrivatePages /\ OwnPages
=============================================================================
