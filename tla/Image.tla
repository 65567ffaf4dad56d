------------------------------- MODULE Image --------------------------------
(***************************************************************************)
(* The two ELF loaders: the UEFI loader puts the kernel into one           *)
(* allocation (boot/src/main.rs, load_elf), the kernel puts a program page *)
(* by page into the frames of a new address space                          *)
(* (kernel/process/loader/elf.rs, load_elf) and then looks at the page     *)
(* table entries of the result (process/lifecycle.rs).                     *)
(*                                                                         *)
(* The unit of memory is 4 bytes.  The file holds the unit numbers of its  *)
(* own offsets, so that every loaded unit says where it came from.         *)
(***************************************************************************)
EXTENDS Integers, Sequences, FiniteSets, FiniteSetsExt

CONSTANTS PageUnits,     \* PAGE_SIZE
          TextCheck,     \* the first 16 bytes of text that are compared
          ImageFrames    \* frames the allocator has for one load

Zero == "zero"
Old == "old"             \* what a frame held before
File(off) == <<"file", off>>

Seg(off, va, fsz, msz, kind) == [off |-> off, va |-> va, fsz |-> fsz, msz |-> msz, kind |-> kind]
SegEnd(s) == s.va + s.msz
PageOf(va) == va - (va % PageUnits)

\* Programs: one or two loadable segments in ascending order, in the file one after the other.
Programs ==
    LET first == {Seg(0, va, f, f + z, k) : va \in {0, 4}, f \in {4, 6, 10}, z \in {0, 3}, k \in {"text", "rodata"}}
        second(s) == {Seg(s.fsz, va, f, f + z, k) :
                        va \in {SegEnd(s) + (SegEnd(s) % 2), SegEnd(s) + (SegEnd(s) % 2) + 6},
                        f \in {3, 4}, z \in {0, 2}, k \in {"text", "data"}}
        lists == {<<s>> : s \in first} \cup UNION {{<<s, t>> : t \in second(s)} : s \in first}
    IN  UNION {{[segs |-> l, entry |-> e, len |-> l[Len(l)].off + l[Len(l)].fsz - cut] :
                    e \in {l[Len(l)].va, l[1].va, 99}, cut \in {0, 1}} : l \in lists}

VARIABLES elf,       \* the file
          loader,    \* "boot" | "kernel"
          at,        \* kernel: [seg, va, off], the loop variables
          mem,       \* loaded units
          pte,       \* kernel: flags of the mapped pages
          outcome    \* "" | "loaded" | "refused" | "halted"

imageVars == <<elf, loader, at, mem, pte, outcome>>

ImageInit ==
    /\ elf \in Programs
    /\ loader \in {"boot", "kernel"}
    /\ at = [seg |-> 1, va |-> PageOf(elf.segs[1].va), off |-> elf.segs[1].off]
    /\ mem = [a \in {} |-> Old] /\ pte = [p \in {} |-> "text"] /\ outcome = ""

\* Units of a segment that come from the file, by its headers.
CopyTo(m, s, n) == [a \in DOMAIN m |-> IF a \in s.va..(s.va + n - 1) THEN File(s.off + a - s.va) ELSE m[a]]

\* load_elf of the UEFI loader: the range of all segments, then copy and clear one by one.
BootLoad ==
    LET from == PageOf(Min({s.va : s \in {elf.segs[k] : k \in DOMAIN elf.segs}}))
        to == Max({SegEnd(elf.segs[k]) : k \in DOMAIN elf.segs})
        done[k \in 0..Len(elf.segs)] ==
            IF k = 0 THEN [a \in from..(PageOf(to + PageUnits - 1) - 1) |-> Old]
            ELSE LET s == elf.segs[k]
                     m == CopyTo(done[k - 1], s, Min({s.fsz, s.msz}))
                 IN  [a \in DOMAIN m |-> IF a \in (s.va + s.fsz)..(SegEnd(s) - 1) THEN Zero ELSE m[a]]
        short == \E k \in DOMAIN elf.segs : elf.segs[k].off + Min({elf.segs[k].fsz, elf.segs[k].msz}) > elf.len
    IN  /\ loader = "boot" /\ outcome = ""
        /\ IF short THEN outcome' = "refused" /\ mem' = mem
           ELSE outcome' = "loaded" /\ mem' = done[Len(elf.segs)]
        /\ UNCHANGED <<elf, loader, at, pte>>

-----------------------------------------------------------------------------
(* The loader of the kernel: one turn of its inner loop.                   *)

Current == elf.segs[at.seg]
FileBytesLeft(s) ==
    IF at.off < s.off + s.fsz
    THEN Min({s.off + s.fsz - at.off, IF elf.len > at.off THEN elf.len - at.off ELSE 0}) ELSE 0
DestOffset(s) == IF s.va > at.va THEN s.va - at.va ELSE 0

CopyLen(s) == Min({PageUnits - DestOffset(s), FileBytesLeft(s)})

\* Mutant of Filled: a fresh frame is not cleared behind the data.
FilledDirty(s, fresh) ==
    [a \in at.va..(at.va + PageUnits - 1) |->
        LET d == a - at.va IN
        IF d \in DestOffset(s)..(DestOffset(s) + CopyLen(s) - 1) THEN File(at.off + d - DestOffset(s))
        ELSE IF a = s.va + s.fsz THEN Zero
        ELSE IF fresh THEN Old ELSE mem[a]]

\* The frame after the copy; a fresh frame is cleared behind the data.
Filled(s, fresh) ==
    [a \in at.va..(at.va + PageUnits - 1) |->
        LET d == a - at.va IN
        IF d \in DestOffset(s)..(DestOffset(s) + CopyLen(s) - 1) THEN File(at.off + d - DestOffset(s))
        ELSE IF fresh /\ d >= DestOffset(s) + CopyLen(s) THEN Zero
        ELSE IF fresh THEN Old ELSE mem[a]]

TextDiffers(s, m) ==
    /\ s.kind = "text" /\ at.va = PageOf(s.va) /\ s.fsz >= TextCheck /\ elf.len >= s.off + TextCheck
    /\ \E k \in 0..(TextCheck - 1) : s.va + k \in DOMAIN m /\ m[s.va + k] # File(s.off + k)

LoadPage ==
    LET s == Current
        fresh == at.va \notin DOMAIN pte
        page == Filled(s, fresh)
        m == [a \in DOMAIN mem \cup DOMAIN page |-> IF a \in DOMAIN page THEN page[a] ELSE mem[a]]
    IN  /\ loader = "kernel" /\ outcome = "" /\ at.seg <= Len(elf.segs) /\ at.va < SegEnd(s)
        /\ IF fresh /\ Cardinality(DOMAIN pte) = ImageFrames
           THEN outcome' = "refused" /\ UNCHANGED <<mem, pte, at>>
           ELSE /\ mem' = m
                /\ pte' = [p \in DOMAIN pte \cup {at.va} |-> IF p \in DOMAIN pte THEN pte[p] ELSE s.kind]
                /\ outcome' = IF TextDiffers(s, m) THEN "halted" ELSE ""
                /\ at' = [at EXCEPT !.va = @ + PageUnits, !.off = @ + CopyLen(s)]
        /\ UNCHANGED <<elf, loader>>

NextSegment ==
    /\ loader = "kernel" /\ outcome = "" /\ at.seg <= Len(elf.segs) /\ at.va >= SegEnd(Current)
    /\ at' = IF at.seg = Len(elf.segs) THEN [at EXCEPT !.seg = @ + 1]
             ELSE LET s == elf.segs[at.seg + 1] IN [seg |-> at.seg + 1, va |-> PageOf(s.va), off |-> s.off]
    /\ UNCHANGED <<elf, loader, mem, pte, outcome>>

\* The entry point, the word at the first BSS unit, then the entries of the entry and data pages.
CheckImage ==
    LET segs == {elf.segs[k] : k \in DOMAIN elf.segs}
        bss == {k \in DOMAIN elf.segs : elf.segs[k].msz > elf.segs[k].fsz}
        b == elf.segs[Min(bss)].va + elf.segs[Min(bss)].fsz
        data == {k \in DOMAIN elf.segs : elf.segs[k].kind = "data"}
        inside == \E s \in segs : elf.entry \in s.va..(SegEnd(s) - 1)
        dirty == bss # {} /\ \E a \in {b - (b % 2), b - (b % 2) + 1} : mem[a] # Zero
    IN  /\ loader = "kernel" /\ outcome = "" /\ at.seg > Len(elf.segs)
        /\ outcome' = CASE ~inside \/ dirty -> "halted"
                        [] pte[PageOf(elf.entry)] # "text" -> "refused"
                        [] data # {} /\ pte[PageOf(elf.segs[Min(data)].va)] # "data" -> "refused"
                        [] OTHER -> "loaded"
        /\ UNCHANGED <<elf, loader, at, mem, pte>>

ImageNext == BootLoad \/ LoadPage \/ NextSegment \/ CheckImage

ImageSpec == ImageInit /\ [][ImageNext]_imageVars

-----------------------------------------------------------------------------
\* What a unit of a segment must hold, by the headers and the length of the file.
Expected(s, a) == IF a < s.va + s.fsz /\ s.off + a - s.va < elf.len THEN File(s.off + a - s.va) ELSE Zero

(***************************************************************************)
(* A loaded image is the one the headers describe: every unit of every     *)
(* segment holds its unit of the file, or zero past the data of the file,  *)
(* wherever segments begin inside a page and whether or not they share it. *)
(***************************************************************************)
ImageExact ==
    outcome = "loaded" =>
        \A k \in DOMAIN elf.segs : \A a \in elf.segs[k].va..(SegEnd(elf.segs[k]) - 1) :
            mem[a] = Expected(elf.segs[k], a)
=============================================================================
