------------------------------- MODULE Buddy -------------------------------
(***************************************************************************)
(* The buddy allocator (kernel/memory/physical/buddy.rs).  Addresses are   *)
(* page numbers relative to the start of the region.  A free list is the   *)
(* set of the blocks on it: which block of a list is handed out first is   *)
(* left open.  The allocation bitmap is kept beside the lists and every    *)
(* block is checked against it, page by page; a mismatch halts the kernel. *)
(***************************************************************************)
EXTENDS Integers, FiniteSets

CONSTANTS Pages,      \* REGION_PAGES
          MaxOrder    \* MAX_ORDER

ASSUME PagesAssumption == Pages \in Nat \ {0}
ASSUME MaxOrderAssumption == MaxOrder \in Nat

VARIABLES free,       \* FREE_LISTS
          bitmap,     \* ALLOC_BITMAP: the pages whose bit is set
          owned,      \* history: the blocks handed out and not given back
          status      \* "up" or "halted" (diagnostic_halt)

buddyVars == <<free, bitmap, owned, status>>

Order == 0 .. MaxOrder
Page == 0 .. (Pages - 1)
Span(pa, order) == pa .. (pa + 2 ^ order - 1)

\* build_initial_freelist: one block, the largest that fits at the start; the
\* pages behind it are never used.
InitialOrder ==
    CHOOSE k \in Order : /\ k = 0 \/ 2 ^ k <= Pages
                         /\ k = MaxOrder \/ 2 ^ (k + 1) > Pages

BuddyInit ==
    /\ free = [k \in Order |-> IF k = InitialOrder THEN {0} ELSE {}]
    /\ bitmap = {}
    /\ owned = {}
    /\ status = "up"

\* Mutants of SplitDown: an upper half is cut off one page, not half a block,
\* behind the lower one; at the wrong multiple; or it is the lower half that is
\* put on the lists.
SplitDownByPage(pa, from, to) ==
    [k \in Order |-> IF k = from THEN free[k] \ {pa}
                     ELSE IF k \in to .. (from - 1) THEN free[k] \cup {pa + 1}
                     ELSE free[k]]

\* pop_free on list from, and the upper halves pushed on the lists below it.
SplitDown(pa, from, to) ==
    [k \in Order |-> IF k = from THEN free[k] \ {pa}
                     ELSE IF k \in to .. (from - 1) THEN free[k] \cup {pa + 2 ^ k}
                     ELSE free[k]]

\* Mutant of alloc_order: only the first page of a block is marked.
AllocMarksFirstPage(order) ==
    /\ status = "up"
    /\ \E k \in order .. MaxOrder :
         /\ \A j \in order .. (k - 1) : free[j] = {}
         /\ \E pa \in free[k] :
              /\ free' = SplitDown(pa, k, order)
              /\ bitmap' = bitmap \cup {pa}
              /\ owned' = owned \cup {[pa |-> pa, order |-> order]}
              /\ UNCHANGED status

\* alloc_order: the smallest order that has a block, and a block of that order.
\* mark_alloc_range halts the kernel, and nobody gets the block, when it meets a
\* page that is marked already or lies outside the region.
alloc_order(order) ==
    /\ status = "up"
    /\ \E k \in order .. MaxOrder :
         /\ \A j \in order .. (k - 1) : free[j] = {}
         /\ \E pa \in free[k] :
              LET block == Span(pa, order)
              IN  /\ free' = SplitDown(pa, k, order)
                  /\ bitmap' = bitmap \cup (block \cap Page)
                  /\ IF block \subseteq Page \ bitmap
                     THEN /\ owned' = owned \cup {[pa |-> pa, order |-> order]}
                          /\ UNCHANGED status
                     ELSE status' = "halted" /\ UNCHANGED owned

buddy_of(pa, order) ==
    IF (pa \div 2 ^ order) % 2 = 0 THEN pa + 2 ^ order ELSE pa - 2 ^ order

\* free_order of an allocated block.  When the buddy is free the two are merged
\* by freeing the merged block, whose bits are clear by then: the check for a
\* double free stops the kernel.
free_order(b) ==
    /\ status = "up" /\ b \in owned
    /\ owned' = owned \ {b}
    /\ bitmap' = bitmap \ Span(b.pa, b.order)
    /\ IF ~ (Span(b.pa, b.order) \subseteq bitmap)
       THEN free' = free /\ status' = "halted"
       ELSE IF buddy_of(b.pa, b.order) \in free[b.order]
       THEN /\ free' = [free EXCEPT ![b.order] = @ \ {buddy_of(b.pa, b.order)}]
            /\ status' = "halted"
       ELSE /\ free' = [free EXCEPT ![b.order] = @ \cup {b.pa}]
            /\ status' = status

BuddyNext ==
    \/ \E order \in Order : alloc_order(order)
    \/ \E b \in owned : free_order(b)

BuddySpec == BuddyInit /\ [][BuddyNext]_buddyVars

-----------------------------------------------------------------------------
\* The bitmap and the free lists agree: a page is marked exactly when it is in
\* a block somebody owns, and every other page of the initial block is in
\* exactly one free block, so that splitting and freeing lose no page.
Conserved ==
    status = "up" =>
        /\ bitmap = UNION {Span(b.pa, b.order) : b \in owned}
        /\ \A p \in Span(0, InitialOrder) \ bitmap :
             Cardinality({b \in [pa : Page, order : Order] :
                            b.pa \in free[b.order] /\ p \in Span(b.pa, b.order)}) = 1

\* The allocator does what its users rely on: it never hands out a page twice.
Abstract == INSTANCE PageAllocator
HandsOutDisjointBlocks == Abstract!Spec

\* "Power-of-two block allocator with coalescing on free" (buddy.rs:1), with
\* "explicit merge when freeing a block whose buddy is free" (buddy.rs:3):
\* giving back what one was given is never taken for a double free.
FreeNeverHalts == status = "up"
=============================================================================
