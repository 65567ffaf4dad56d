----------------------------- MODULE MCMachine ------------------------------
(***************************************************************************)
(* Parts of the kernel below the processes, which share no state: the way  *)
(* from the firmware to the first program, the loading of an image, the    *)
(* page tables, the kernel heap, the scheduler and the file system.  A     *)
(* behaviour is one of one part; the others stay as they were at the       *)
(* start.                                                                  *)
(***************************************************************************)
EXTENDS Boot, Image, PageTables, Heap, Scheduler, Storage

VARIABLE part

Regions == {[start |-> 4, pages |-> 2], [start |-> 12, pages |-> 6], [start |-> 13, pages |-> 4]}

\* A part that does not run has one initial state.
MachineInit ==
    /\ part \in {"boot", "image", "tables", "heap", "scheduler", "storage"}
    /\ part = "boot" \/ (path = "grub" /\ tags = <<CHOOSE t \in OtherTags : TRUE>>)
    /\ part = "image" \/ (elf = (CHOOSE e \in Programs : TRUE) /\ loader = "boot")
    /\ part = "tables" \/ (ram = (CHOOSE r \in RamRegions : r.start = 4) /\ device = 15)
    /\ BootInit /\ ImageInit /\ PtInit /\ HeapInit /\ Init /\ StorageInit

MachineNext ==
    /\ UNCHANGED part
    /\ \/ part = "boot" /\ BootNext /\ UNCHANGED <<imageVars, ptVars, heapVars, vars, fsVars>>
       \/ part = "image" /\ ImageNext /\ UNCHANGED <<bootVars, ptVars, heapVars, vars, fsVars>>
       \/ part = "tables" /\ PtNext /\ UNCHANGED <<bootVars, imageVars, heapVars, vars, fsVars>>
       \/ part = "heap" /\ HeapNext /\ UNCHANGED <<bootVars, imageVars, ptVars, vars, fsVars>>
       \/ part = "scheduler" /\ PreemptNext /\ UNCHANGED <<bootVars, imageVars, ptVars, heapVars, fsVars>>
       \/ part = "storage" /\ StorageNext /\ UNCHANGED <<bootVars, imageVars, ptVars, heapVars, vars>>

MachineSpec == MachineInit /\ [][MachineNext]_<<part, bootVars, imageVars, ptVars, heapVars, vars, fsVars>>
=============================================================================
