------------------------------ MODULE Storage ------------------------------
(***************************************************************************)
(* The root file system (kernel/fs/simple_fs.rs), the descriptor table     *)
(* (kernel/fs/vfs.rs) and the file calls (kernel/syscall/dispatcher/io.rs) *)
(* over a disk that may refuse any request and a machine that may lose     *)
(* power between any two calls.                                            *)
(*                                                                         *)
(* A write the driver reports as failed may still reach the disk: the NVMe *)
(* driver gives up after a number of polls (module Nvme).  The volume is   *)
(* one record: what is on the disk (next_free_block of the header, 0 for a *)
(* header without the magic; the file table; the data blocks) and the      *)
(* three statics of the driver.  A byte is represented by the name of the  *)
(* file it was written through, a block by a function of BlockSize bytes.  *)
(* A function of the file system yields the set of its outcomes.           *)
(***************************************************************************)
EXTENDS Integers, FiniteSets, FiniteSetsExt

CONSTANTS FsNames,       \* file names
          FsPids,        \* processes
          FsRecords,     \* MAX_FILE_RECORDS
          FsOpen,        \* MAX_OPEN
          BlockSize,     \* BLOCK_SIZE
          FsLens,        \* lengths of reads and writes
          FsMaxBlock,    \* bound: blocks are handed out below this number
          FsMaxOffset,   \* bound on file offsets
          FsFaults       \* whether the disk may fail and the power may go

DATA_START_BLOCK == 2
NoName == "no name"
NoFile == -1
NoOwner == "no owner"
FsBlank == [k \in 0..(BlockSize - 1) |-> NoName]

RecordIds == 0..(FsRecords - 1)
Slots == 0..(FsOpen - 1)
FreeRecord == [name |-> NoName, size |-> 0, start |-> 0]
FreeSlot == [file |-> NoFile, offset |-> 0, owner |-> NoOwner]

VARIABLES vol,      \* disk and statics of simple_fs
          fds,      \* FD_TABLE
          fsLive,   \* the processes
          wrote,    \* per record, the offsets whose write was acknowledged
          blame     \* what has happened that may damage data

fsVars == <<vol, fds, fsLive, wrote, blame>>

\* Bound: the disk works and the power stays once damage may have been done.
MayFail == FsFaults /\ blame = {}

BlocksFor(size) == (size + BlockSize - 1) \div BlockSize

\* The blocks a record stands for; a new file has one block before its first byte.
Span(r) == r.start..(r.start + Max({1, BlocksFor(r.size)}) - 1)

LiveRecords(t) == {i \in RecordIds : t[i].start # 0}

Overlap(t) == \E i, j \in LiveRecords(t) : i # j /\ Span(t[i]) \cap Span(t[j]) # {}

StorageInit ==
    /\ vol = [hdr |-> 0, table |-> [i \in RecordIds |-> FreeRecord],
              data |-> [b \in DATA_START_BLOCK..FsMaxBlock |-> FsBlank],
              mounted |-> FALSE, next |-> DATA_START_BLOCK, dirty |-> FALSE]
    /\ fds = [s \in Slots |-> FreeSlot]
    /\ fsLive = {}
    /\ wrote = [i \in RecordIds |-> {}]
    /\ blame = {}

-----------------------------------------------------------------------------
(* simple_fs.  An outcome has the new volume and the result.               *)

Outcome(v, r) == [vol |-> v, ret |-> r]

\* write_block: done; refused; or done and reported as failed.
write_block(old, new) ==
    {Outcome(new, TRUE)} \cup (IF MayFail THEN {Outcome(old, FALSE), Outcome(new, FALSE)} ELSE {})

\* A read that fails makes the caller give up with the result r.
ReadFails(v, r) == IF MayFail THEN {Outcome(v, r)} ELSE {}

\* A fresh header when the magic is missing, otherwise next_free_block of the one found.
mount_root(v) ==
    ReadFails(v, FALSE) \cup
    (IF v.hdr = 0
     THEN {IF o.ret THEN Outcome([o.vol EXCEPT !.next = DATA_START_BLOCK, !.mounted = TRUE], TRUE) ELSE o :
             o \in write_block(v, [v EXCEPT !.hdr = DATA_START_BLOCK])}
     ELSE {Outcome([v EXCEPT !.next = v.hdr, !.mounted = TRUE], TRUE)})

\* Mutant of flush_volume_header: the header counts as clean before it is written.
FlushCleansFirst(v) ==
    IF ~v.dirty THEN {Outcome(v, TRUE)}
    ELSE LET w == [v EXCEPT !.dirty = FALSE] IN ReadFails(w, FALSE) \cup write_block(w, [w EXCEPT !.hdr = v.next])

flush_volume_header(v) ==
    IF ~v.dirty THEN {Outcome(v, TRUE)}
    ELSE ReadFails(v, FALSE) \cup
         {IF o.ret THEN [o EXCEPT !.vol.dirty = FALSE] ELSE o :
            o \in write_block(v, [v EXCEPT !.hdr = v.next])}

\* Mutant of find_file_by_name: a free record ends the search.
FindStopsAtFree(v, name) ==
    LET found == {i \in LiveRecords(v.table) : v.table[i].name = name /\ \A j \in 0..i : v.table[j].start # 0}
    IN  IF ~v.mounted \/ found = {} THEN NoFile ELSE Min(found)

\* The first record in use with that name; a failed read also reports "not found".
find_file_by_name(v, name) ==
    LET found == {i \in LiveRecords(v.table) : v.table[i].name = name}
    IN  IF ~v.mounted \/ found = {} THEN NoFile ELSE Min(found)

\* The block counter moves before the table is written.
alloc_file_record(v, name) ==
    LET free == RecordIds \ LiveRecords(v.table)
        w == [v EXCEPT !.next = v.next + 1, !.dirty = TRUE]
    IN  IF ~v.mounted \/ free = {} THEN {Outcome(v, NoFile)}
        ELSE ReadFails(v, NoFile) \cup
             {Outcome(o.vol, IF o.ret THEN Min(free) ELSE NoFile) :
                o \in write_block(w, [w EXCEPT !.table[Min(free)] =
                                        [name |-> name, size |-> 0, start |-> v.next]])}

extend_file_blocks(v, i, n) ==
    LET w == [v EXCEPT !.next = v.next + n, !.dirty = TRUE]
    IN  ReadFails(v, FALSE) \cup write_block(w, [w EXCEPT !.table[i].size = @ + n * BlockSize])

\* The bytes of the file that a read of len bytes at offset returns, the disk allowing.
read_file_data(v, i, offset, len) ==
    LET r == v.table[i]
        want == IF r.start = 0 \/ offset >= r.size THEN 0 ELSE Min({len, r.size - offset})
        \* a failed read of a block ends the loop: a prefix that ends with a block
        cuts == {n \in 0..want : (offset + n) % BlockSize = 0}
    IN  {want} \cup (IF MayFail THEN {0} \cup cuts ELSE {})

\* The data of v after the bytes [offset, offset + n) of file i were written; the
\* blocks of bad were not read before, and their other bytes are lost.
PutBytes(v, i, offset, n, bad) ==
    LET r == v.table[i]
        Written == offset..(offset + n - 1)
    IN  [b \in DOMAIN v.data |-> [k \in 0..(BlockSize - 1) |->
            LET o == (b - r.start) * BlockSize + k
            IN  IF o \in Written THEN r.name
                ELSE IF b \in bad THEN NoName
                ELSE v.data[b][k]]]

\* Mutant of PutFrom: an error in the middle does not end the loop.
PutFromGoesOn(v, i, offset, n) ==
    {[vol |-> [v EXCEPT !.data = PutBytes(v, i, offset, m, {})], ret |-> n, bad |-> {}] : m \in 0..n}

\* The loop of write_file_data.  A refused block ends it, and may be on the disk all
\* the same; the read that precedes each write is not checked.
PutFrom(v, i, offset, n) ==
    LET r == v.table[i]
        Boundary(m) == (offset + m) % BlockSize = 0
        Stops == {m \in 0..(n - 1) : m = 0 \/ Boundary(m)}
        After(m) == Min({n} \cup {k \in (m + 1)..n : Boundary(k)})
        Partial(m) == IF m = 0 THEN {} ELSE {r.start + (o \div BlockSize) : o \in {offset, offset + m - 1}}
        Ends == {<<n, n>>} \cup (IF MayFail THEN {<<m, m>> : m \in Stops} \cup {<<m, After(m)>> : m \in Stops}
                                 ELSE {})
    IN  UNION {{[vol |-> [v EXCEPT !.data = PutBytes(v, i, offset, e[2], bad)], ret |-> e[1], bad |-> bad] :
                  bad \in IF MayFail THEN {{}, Partial(e[2])} ELSE {{}}} : e \in Ends}

\* The size is corrected afterwards; when the table cannot be read the first time the old
\* size counts as 0, and the new one may be smaller.
FixSize(v, i, end) ==
    LET Set == {o.vol : o \in write_block(v, [v EXCEPT !.table[i].size = end])}
    IN  (IF end > v.table[i].size THEN Set ELSE {v}) \cup (IF MayFail THEN {v} \cup Set ELSE {})

\* write_file_data: the outcomes, and whether a read error that nobody reported did damage.
write_file_data(v, i, offset, n) ==
    LET r == v.table[i]
        need == BlocksFor(offset + n)
        have == BlocksFor(r.size)
        grown == IF need > have THEN extend_file_blocks(v, i, need - have) ELSE {Outcome(v, TRUE)}
        Refused(o) == [vol |-> o.vol, ret |-> 0, harm |-> {}]
        Sized(p) == IF p.ret = 0 THEN {p.vol} ELSE FixSize(p.vol, i, offset + n)
        Done(o) == UNION {{[vol |-> w, ret |-> p.ret,
                            harm |-> IF p.bad # {} \/ w.table[i].size < o.vol.table[i].size
                                     THEN {"read"} ELSE {}] : w \in Sized(p)}
                          : p \in PutFrom(o.vol, i, offset, n)}
    IN  IF r.start = 0 THEN {Refused(Outcome(v, FALSE))}
        ELSE {Refused(o) : o \in ReadFails(v, FALSE)} \cup
             UNION {IF o.ret THEN Done(o) ELSE {Refused(o)} : o \in grown}

free_file_record(v, i) ==
    ReadFails(v, FALSE) \cup write_block(v, [v EXCEPT !.table[i].start = 0, !.table[i].size = 0])

-----------------------------------------------------------------------------
(* The calls, each with the function of vfs.rs it stands on.               *)

\* A record that starts elsewhere is another file, with nothing written yet.
Acknowledged(w, ack) ==
    [i \in RecordIds |-> IF w.table[i].start # vol.table[i].start THEN {} ELSE ack[i]]

\* What a call leaves: the volume, and the damage it may have done.
Settle(w, ack, harm) ==
    /\ vol' = w
    /\ wrote' = Acknowledged(w, ack)
    /\ blame' = blame \cup harm \cup (IF Overlap(w.table) THEN {"spill"} ELSE {})

\* open: the first free slot; the file found, or created when O_CREAT asks for it.
\* An unreadable table looks like a missing file.
open(p, name, creat, unreadable) ==
    LET free == {s \in Slots : fds[s].file = NoFile}
        found == IF unreadable THEN NoFile ELSE find_file_by_name(vol, name)
        Take(f) == fds' = IF f = NoFile THEN fds
                          ELSE [fds EXCEPT ![Min(free)] = [file |-> f, offset |-> 0, owner |-> p]]
    IN  /\ vol.mounted /\ free # {}
        /\ \/ /\ found # NoFile
              /\ Take(found)
              /\ UNCHANGED <<vol, wrote, blame>>
           \/ /\ found = NoFile /\ creat /\ vol.next < FsMaxBlock
              /\ \E o \in alloc_file_record(vol, name) :
                   /\ Take(o.ret)
                   /\ Settle(o.vol, wrote,
                             IF unreadable /\ o.vol.table # vol.table THEN {"read"} ELSE {})

SysOpen(p, name, creat) ==
    /\ p \in fsLive
    /\ \E u \in (IF MayFail THEN BOOLEAN ELSE {FALSE}) : open(p, name, creat, u)
    /\ UNCHANGED fsLive

\* close: the slot, whoever opened it.
SysClose(p, s) ==
    /\ p \in fsLive /\ fds[s].file # NoFile
    /\ fds' = [fds EXCEPT ![s] = FreeSlot]
    /\ UNCHANGED <<vol, fsLive, wrote, blame>>

\* read_file: the offset moves by what was read.
SysRead(p, s, len) ==
    /\ p \in fsLive /\ fds[s].file # NoFile
    /\ \E n \in read_file_data(vol, fds[s].file, fds[s].offset, len) :
         fds' = [fds EXCEPT ![s].offset = @ + n]
    /\ UNCHANGED <<vol, fsLive, wrote, blame>>

\* write_file.
SysWrite(p, s, len) ==
    LET i == fds[s].file
        at == fds[s].offset
    IN  /\ p \in fsLive /\ i # NoFile
        /\ at + len <= FsMaxOffset
        /\ vol.table[i].start + BlocksFor(at + len) - 1 <= FsMaxBlock
        /\ vol.next + BlocksFor(at + len) <= FsMaxBlock + 1
        /\ \E o \in write_file_data(vol, i, at, len) :
             /\ fds' = [fds EXCEPT ![s].offset = @ + o.ret]
             /\ Settle(o.vol, [wrote EXCEPT ![i] = @ \cup (at..(at + o.ret - 1))], o.harm)
        /\ UNCHANGED fsLive

\* seek, SEEK_SET and SEEK_END; nothing when the record is free.
SysSeek(p, s, offset, whence) ==
    LET r == vol.table[fds[s].file]
        to == IF whence = "set" THEN offset ELSE r.size + offset
    IN  /\ p \in fsLive /\ fds[s].file # NoFile /\ r.start # 0
        /\ to <= FsMaxOffset
        /\ fds' = [fds EXCEPT ![s].offset = Max({0, to})]
        /\ UNCHANGED <<vol, fsLive, wrote, blame>>

\* fsync: the header, whatever the descriptor.
SysFsync(p) ==
    /\ p \in fsLive
    /\ \E o \in flush_volume_header(vol) : vol' = o.vol
    /\ UNCHANGED <<fds, fsLive, wrote, blame>>

\* unlink; descriptors that are open on the record stay.
SysUnlink(p, name) ==
    LET i == find_file_by_name(vol, name)
    IN  /\ p \in fsLive /\ i # NoFile
        /\ \E o \in free_file_record(vol, i) : Settle(o.vol, wrote, {})
        /\ UNCHANGED <<fds, fsLive>>

-----------------------------------------------------------------------------
(* Processes, power and reboot.                                            *)

\* kernel_main mounts the root once; the first process follows.
Boot ==
    /\ fsLive = {}
    /\ \E o \in mount_root(vol) : vol' = o.vol
    /\ \E p \in FsPids : fsLive' = {p}
    /\ UNCHANGED <<fds, wrote, blame>>

StartProcess(p) ==
    /\ fsLive # {} /\ p \notin fsLive
    /\ fsLive' = fsLive \cup {p}
    /\ UNCHANGED <<vol, fds, wrote, blame>>

close_fds_for_process(p) == [s \in Slots |-> IF fds[s].owner = p THEN FreeSlot ELSE fds[s]]

\* exit_current_and_schedule, as far as files go.
ExitProcess(p) ==
    /\ p \in fsLive /\ fsLive # {p}
    /\ fds' = close_fds_for_process(p)
    /\ fsLive' = fsLive \ {p}
    /\ UNCHANGED <<vol, wrote, blame>>

\* The statics are those of a new kernel; the disk is what it was.
Off(v) == [v EXCEPT !.mounted = FALSE, !.next = DATA_START_BLOCK, !.dirty = FALSE]

PowerOff(v) ==
    /\ vol' = Off(v)
    /\ fds' = [s \in Slots |-> FreeSlot]
    /\ fsLive' = {}
    /\ blame' = IF v.dirty THEN blame \cup {"crash"} ELSE blame
    /\ UNCHANGED wrote

\* sys_reboot writes the header first, and does not look at the result.
SysReboot ==
    /\ fsLive # {}
    /\ \E o \in flush_volume_header(vol) : PowerOff(o.vol)

Crash ==
    /\ MayFail /\ fsLive # {}
    /\ PowerOff(vol)

StorageNext ==
    \/ Boot \/ SysReboot \/ Crash
    \/ \E p \in FsPids :
         \/ StartProcess(p) \/ ExitProcess(p) \/ SysFsync(p)
         \/ \E name \in FsNames : SysUnlink(p, name) \/ \E creat \in BOOLEAN : SysOpen(p, name, creat)
         \/ \E s \in Slots :
              \/ SysClose(p, s)
              \/ \E len \in FsLens : SysRead(p, s, len) \/ SysWrite(p, s, len)
              \/ SysSeek(p, s, 0, "set") \/ SysSeek(p, s, 0, "end")

StorageSpec == StorageInit /\ [][StorageNext]_fsVars

-----------------------------------------------------------------------------
(***************************************************************************)
(* A byte whose write was acknowledged is in the file and on the disk, in  *)
(* spite of refused and half-done writes, unlinked files, reused records   *)
(* and loss of power, unless one of three things has happened: the power   *)
(* went while the header was dirty, a read error was swallowed, or a file  *)
(* grew into the blocks of another one.                                    *)
(***************************************************************************)
AcknowledgedBytesSafe ==
    blame = {} =>
        \A i \in LiveRecords(vol.table) : \A o \in wrote[i] :
            LET r == vol.table[i]
            IN  o < r.size /\ vol.data[r.start + (o \div BlockSize)][o % BlockSize] = r.name

(***************************************************************************)
(* The header never lies behind the file table: as long as the power goes  *)
(* only after a flush, the next free block (the one in memory, and the one *)
(* on the disk while the header is clean) lies beyond every block of every *)
(* file, so that a new file is never created inside an old one.            *)
(***************************************************************************)
HeaderCoversFiles ==
    "crash" \notin blame =>
        \A i \in LiveRecords(vol.table) :
            /\ vol.mounted => \A b \in Span(vol.table[i]) : b < vol.next
            /\ ~vol.dirty => \A b \in Span(vol.table[i]) : b < vol.hdr

(***************************************************************************)
(* No two files have the same name, whatever writes fail or arrive late:   *)
(* a record whose creation was reported as failed is found by the retry.   *)
(* Only an unreadable table makes open create a second one.                *)
(***************************************************************************)
NamesUnique ==
    "read" \notin blame =>
        \A i, j \in LiveRecords(vol.table) : vol.table[i].name = vol.table[j].name => i = j

(***************************************************************************)
(* Every descriptor in use belongs to a process that is alive: the global  *)
(* table cannot be exhausted by processes that have gone.                  *)
(***************************************************************************)
DescriptorsOwned == \A s \in Slots : fds[s].file # NoFile => fds[s].owner \in fsLive

\* The two tables of the file system are consistent: one record per name, and
\* no descriptor without its process (simple_fs.rs and vfs.rs).
TablesConsistent == NamesUnique /\ DescriptorsOwned

(***************************************************************************)
(* What the checklist asks for without conditions: acknowledged bytes stay *)
(* as they are.                                                            *)
(***************************************************************************)
NoDataLoss ==
    \A i \in LiveRecords(vol.table) : \A o \in wrote[i] :
        LET r == vol.table[i] IN vol.data[r.start + (o \div BlockSize)][o % BlockSize] = r.name
=============================================================================
