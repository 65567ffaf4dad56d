-------------------------------- MODULE Boot --------------------------------
(***************************************************************************)
(* From power-on to the first process: the UEFI loader (boot/src/main.rs)  *)
(* or the multiboot2 entry (kernel/arch/x86_64/multiboot2_parser.rs) fills *)
(* BootInfo; kernel_main (kernel/init/main.rs) picks the memory the frame  *)
(* allocator manages (memory/physical/memmap.rs), brings the drivers up    *)
(* and starts the first program.                                           *)
(*                                                                         *)
(* Memory is a row of pages 0 .. BootPages - 1.  Page 0 holds BootInfo     *)
(* and, on the multiboot2 path, the converted memory map.                  *)
(***************************************************************************)
EXTENDS Integers, Sequences, FiniteSets, FiniteSetsExt, SequencesExt

CONSTANTS BootPages,      \* pages of the machine
          LowPages,       \* the low 16 MiB, always reserved
          MinBase,        \* first page the allocator may use (2 MiB)
          KernelPages,    \* pages of the kernel image
          FixedPages,     \* FRAME_REGION: used when there is no usable map
          MapCapacity,    \* descriptors the reserved map storage holds
          MaxEntries,     \* CONVERTED_MAP_MAX_BYTES / size_of descriptor
          MaxRegion       \* MAX_REGION_PAGES of the buddy allocator

Pages == 0..(BootPages - 1)
NoRegion == [start |-> 0, pages |-> 0]

VARIABLES path,     \* "uefi" | "grub"
          fw,       \* firmware: the type of each page
          tags,     \* multiboot2: the tags of the information structure
          bphase,   \* what comes next
          bi,       \* BootInfo
          bmap,     \* the descriptors stored at mem_map_paddr
          mapAt,    \* mem_map_paddr while it is not in BootInfo yet
          frames,   \* the region of the frame allocator
          found     \* what kernel_main found: nvme, root, framebuffer, programs

bootVars == <<path, fw, tags, bphase, bi, bmap, mapAt, frames, found>>

Descriptor(ty, start, pages) == [ty |-> ty, start |-> start, pages |-> pages]
Cover(d) == d.start..(d.start + d.pages - 1)

\* What firmware and GRUB may hand over: external.
Typings == {[p \in Pages |-> IF p \in c THEN "conv" ELSE "rsvd"] : c \in SUBSET Pages}
MmapTags == {[tag |-> "mmap", entries |-> e, at |-> 0] :
                e \in UNION {[1..n -> {Descriptor(t, s, k) : t \in {"conv", "other"}, s \in {2, 4}, k \in 1..3}]
                                : n \in {1, 3}}}
OtherTags == {[tag |-> t, entries |-> <<>>, at |-> p] : t \in {"fb", "acpi", "other", "bad mmap"}, p \in {3, 6}}
TagLists == {<<a>> : a \in MmapTags \cup OtherTags} \cup {<<a, b>> : a \in MmapTags, b \in OtherTags}
            \cup {<<a, b>> : a, b \in OtherTags}

ZeroInfo == [fb |-> 0, fbPages |-> 0, nvme |-> 0, rsdp |-> 0, mapAt |-> 0, count |-> 0, valid |-> FALSE]
\* What lies at BOOTINFO_PHYS_ADDR when nothing was written there.
OldInfo == {ZeroInfo, [ZeroInfo EXCEPT !.fb = 4, !.fbPages = 1], [ZeroInfo EXCEPT !.nvme = 6]}

BootInit ==
    /\ \/ path = "uefi" /\ fw \in Typings /\ tags = <<>>
       \/ path = "grub" /\ tags \in TagLists /\ fw = [p \in Pages |-> "conv"]
    /\ bphase = IF path = "uefi" THEN "load_elf" ELSE "multiboot2_entry"
    /\ bi \in (IF path = "uefi" THEN OldInfo ELSE {ZeroInfo})
    /\ bmap = <<>> /\ mapAt = 0 /\ frames = NoRegion
    /\ found = [nvme |-> FALSE, root |-> FALSE, fb |-> FALSE]

Step(from, to) == bphase = from /\ bphase' = to

-----------------------------------------------------------------------------
(* The UEFI loader                                                         *)

\* load_kernel_file and load_elf: one allocation at the address the image is linked for.
LoadKernel ==
    /\ path = "uefi" /\ bphase = "load_elf"
    /\ \/ /\ \A p \in KernelPages : fw[p] = "conv"
          /\ fw' = [p \in Pages |-> IF p \in KernelPages THEN "code" ELSE fw[p]]
          /\ bphase' = "init_boot_info"
       \/ /\ bphase' = "stopped" /\ UNCHANGED fw      \* no file, not ELF, pages not free
    /\ UNCHANGED <<path, tags, bi, bmap, mapAt, frames, found>>

\* init_boot_info: without a GOP the page keeps what it held, and the loader goes on.
init_boot_info ==
    /\ Step("init_boot_info", "reserve_memmap_storage")
    /\ \/ \E p \in {4, 6} : bi' = [ZeroInfo EXCEPT !.fb = p, !.fbPages = 1]
       \/ UNCHANGED bi
    /\ UNCHANGED <<path, fw, tags, bmap, mapAt, frames, found>>

reserve_memmap_storage ==
    /\ bphase = "reserve_memmap_storage"
    /\ \/ \E p \in Pages : /\ fw[p] = "conv"
                           /\ fw' = [fw EXCEPT ![p] = "data"]
                           /\ mapAt' = p
                           /\ bphase' = "finalize_boot_info"
       \/ /\ \A p \in Pages : fw[p] # "conv"
          /\ bphase' = "fatal" /\ UNCHANGED <<fw, mapAt>>
    /\ UNCHANGED <<path, tags, bi, bmap, frames, found>>

\* The memory map at ExitBootServices: maximal runs of one type.
MemoryMap ==
    LET starts == {p \in Pages : p = 0 \/ fw[p] # fw[p - 1]}
        Run(p) == CHOOSE n \in 1..BootPages :
                      /\ p + n <= BootPages
                      /\ \A q \in p..(p + n - 1) : fw[q] = fw[p]
                      /\ p + n = BootPages \/ fw[p + n] # fw[p]
    IN  [i \in 1..Cardinality(starts) |->
            LET p == CHOOSE q \in starts : Cardinality({r \in starts : r <= q}) = i
            IN  Descriptor(fw[p], p, Run(p))]

finalize_boot_info(rsdp) ==
    /\ bphase = "finalize_boot_info"
    /\ IF Len(MemoryMap) > MapCapacity
       THEN bphase' = "fatal" /\ UNCHANGED <<bi, bmap>>
       ELSE /\ bmap' = MemoryMap
            /\ bi' = [bi EXCEPT !.mapAt = mapAt, !.count = Len(MemoryMap), !.valid = TRUE, !.rsdp = rsdp]
            /\ bphase' = "physical"
    /\ UNCHANGED <<path, fw, tags, mapAt, frames, found>>

-----------------------------------------------------------------------------
(* The multiboot2 entry: one pass over the tags.  A later memory map or    *)
(* framebuffer replaces an earlier one, the first ACPI tag stays.          *)

AfterTag(i, t) ==
    CASE t.tag = "mmap" ->
            LET n == Min({Len(t.entries), MaxEntries})
            IN  [i EXCEPT !.map = [k \in 1..n |-> t.entries[k]], !.info.count = n]
      [] t.tag = "fb" -> [i EXCEPT !.info.fb = t.at, !.info.fbPages = 1]
      [] t.tag = "acpi" /\ i.info.rsdp = 0 -> [i EXCEPT !.info.rsdp = t.at]
      [] OTHER -> i

multiboot2_entry ==
    LET done[k \in 0..Len(tags)] ==
            IF k = 0 THEN [info |-> ZeroInfo, map |-> <<>>] ELSE AfterTag(done[k - 1], tags[k])
        end == done[Len(tags)]
    IN  /\ Step("multiboot2_entry", "physical")
        /\ bi' = [end.info EXCEPT !.valid = end.info.count > 0]
        /\ bmap' = end.map
        /\ UNCHANGED <<path, fw, tags, mapAt, frames, found>>

-----------------------------------------------------------------------------
(* The kernel                                                              *)

\* reserved_from_bootinfo, as the pages that may not be used.
reserved_from_bootinfo ==
    0..(LowPages - 1) \cup bi.fb..(bi.fb + bi.fbPages - 1) \cup {bi.mapAt}
        \cup ({bi.nvme, bi.rsdp} \ {0})

Eligible(d) == d.ty = "conv" /\ d.start >= MinBase /\ Cover(d) \cap reserved_from_bootinfo = {}

\* Mutant of choose_conventional_region: the reserved regions are compared by their start only.
ChooseByStart ==
    LET ok == {k \in DOMAIN bmap : bmap[k].ty = "conv" /\ bmap[k].start >= MinBase
                                   /\ bmap[k].start \notin reserved_from_bootinfo}
        best == {k \in ok : \A j \in ok : bmap[k].pages >= bmap[j].pages}
    IN  IF ok = {} THEN NoRegion ELSE [start |-> bmap[Min(best)].start, pages |-> bmap[Min(best)].pages]

\* choose_conventional_region: the first of the largest eligible descriptors.
choose_conventional_region ==
    LET ok == {k \in DOMAIN bmap : Eligible(bmap[k])}
        best == {k \in ok : \A j \in ok : bmap[k].pages >= bmap[j].pages}
    IN  IF ok = {} THEN NoRegion ELSE [start |-> bmap[Min(best)].start, pages |-> bmap[Min(best)].pages]

\* init_from_bootinfo, or the fixed region.
PhysicalInit ==
    LET r == choose_conventional_region
    IN  /\ Step("physical", "drivers")
        /\ frames' = IF bi.valid /\ r.pages > 0
                     THEN [start |-> r.start, pages |-> Min({r.pages, MaxRegion})]
                     ELSE [start |-> Min(FixedPages), pages |-> Cardinality(FixedPages)]
        /\ UNCHANGED <<path, fw, tags, bi, bmap, mapAt, found>>

\* nvme init_from_boot_info, mount_root and framebuffer init_from_boot_info.
Drivers(nvmeAnswers, volumeThere, fbMapped) ==
    LET nvme == bi.nvme # 0 /\ nvmeAnswers
    IN  /\ Step("drivers", "first program")
        /\ found' = [nvme |-> nvme, root |-> nvme /\ volumeThere,
                     fb |-> bi.fb # 0 /\ bi.fbPages # 0 /\ fbMapped]
        /\ UNCHANGED <<path, fw, tags, bi, bmap, mapAt, frames>>

\* The first of cogman, session and init that was built; the kernel shell if it does not start.
FirstProgram(built, created) ==
    /\ bphase = "first program"
    /\ bphase' = CASE ~created -> "kernel_shell"
                   [] "cogman" \in built -> "cogman"
                   [] "session" \in built -> "session"
                   [] OTHER -> "init"
    /\ UNCHANGED <<path, fw, tags, bi, bmap, mapAt, frames, found>>

BootNext ==
    \/ LoadKernel
    \/ init_boot_info
    \/ reserve_memmap_storage
    \/ \E rsdp \in {0, 5} : finalize_boot_info(rsdp)
    \/ multiboot2_entry
    \/ PhysicalInit
    \/ \E a, v, m \in BOOLEAN : Drivers(a, v, m)
    \/ \E built \in SUBSET {"cogman", "session"}, created \in BOOLEAN : FirstProgram(built, created)

BootSpec == BootInit /\ [][BootNext]_bootVars

-----------------------------------------------------------------------------
FromMap == bi.valid /\ frames.pages > 0 /\ \E k \in DOMAIN bmap : Eligible(bmap[k])

(***************************************************************************)
(* The frames the kernel allocates from are free memory: none holds the    *)
(* kernel image, the memory map, the frame buffer, the BAR or the RSDP,    *)
(* and each is conventional memory in the machine's own map.               *)
(***************************************************************************)
FramesAreFree ==
    FromMap => /\ Cover(frames) \cap (reserved_from_bootinfo \cup KernelPages) = {}
               /\ path = "uefi" => \A p \in Cover(frames) : fw[p] = "conv"
               /\ \E k \in DOMAIN bmap : bmap[k].ty = "conv" /\ Cover(frames) \subseteq Cover(bmap[k])

(***************************************************************************)
(* No larger eligible range of the map is left unused, up to what the      *)
(* bitmap of the buddy allocator can hold.                                 *)
(***************************************************************************)
LargestRangeTaken ==
    FromMap => \A k \in DOMAIN bmap : Eligible(bmap[k]) => frames.pages >= Min({bmap[k].pages, MaxRegion})

\* The region init_from_bootinfo hands to the buddy allocator is free, and the
\* best there is.
FramesWellChosen == FramesAreFree /\ LargestRangeTaken
=============================================================================
