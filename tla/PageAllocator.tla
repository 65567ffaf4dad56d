--------------------------- MODULE PageAllocator ---------------------------
(***************************************************************************)
(* What the kernel expects of its physical page allocator: it hands out    *)
(* aligned blocks of 2^order pages that nobody else owns.                  *)
(***************************************************************************)
EXTENDS Integers

CONSTANTS Pages, MaxOrder

VARIABLE owned       \* the blocks handed out and not given back

Order == 0 .. MaxOrder
Block == [pa : 0 .. (Pages - 1), order : Order]
PagesOf(b) == b.pa .. (b.pa + 2 ^ b.order - 1)

Init == owned = {}

Alloc(b) ==
    /\ b.pa % (2 ^ b.order) = 0 /\ b.pa + 2 ^ b.order <= Pages
    /\ \A c \in owned : PagesOf(b) \cap PagesOf(c) = {}
    /\ owned' = owned \cup {b}

Free(b) == b \in owned /\ owned' = owned \ {b}

Next == \E b \in Block : Alloc(b) \/ Free(b)

Spec == Init /\ [][Next]_owned
=============================================================================
