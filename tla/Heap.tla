-------------------------------- MODULE Heap --------------------------------
(***************************************************************************)
(* The kernel heap (kernel/memory/heap): a pool of pages on a free list,   *)
(* caches of objects of one size that are cut out of pages, allocations    *)
(* with a header in front of them; and the object cache with canaries that *)
(* stands on it (kernel/memory/slab/mod.rs).                               *)
(*                                                                         *)
(* The unit is the word of 8 bytes.  Free lists are last-in first-out and  *)
(* threaded through the free objects; they are sequences here, and the     *)
(* words of the slab objects are kept, because the canary of the slab      *)
(* shares the object with the link.                                        *)
(***************************************************************************)
EXTENDS Integers, Sequences, FiniteSets, FiniteSetsExt

CONSTANTS PageWords,     \* PAGE_SIZE
          NumPages,      \* NUM_PAGES
          Classes,       \* SIZE_CLASSES
          AllocSizes,    \* sizes asked for: each fits a page with its header
          AllocAligns,   \* alignments asked for, powers of two
          SlabSize,      \* object_size of a slab cache
          MaxLive        \* bound: live allocations

HEADER_SIZE == 2
NULL == -1

VARIABLES pool,      \* PAGE_FREE_HEAD: free pages, as their first addresses
          cache,     \* free_head of each class
          live,      \* allocations of the heap: pointer, size, alignment, header
          slabFree,  \* free_head of the slab cache
          slabLive,  \* objects of the slab that are out
          words,     \* the words of the slab's objects
          halted     \* diagnostic_halt

heapVars == <<pool, cache, live, slabFree, slabLive, words, halted>>

\* init: pages linked so that the first one is handed out first.
HeapInit ==
    /\ pool = [k \in 1..NumPages |-> (k - 1) * PageWords]
    /\ cache = [c \in Classes |-> <<>>]
    /\ live = {} /\ slabFree = <<>> /\ slabLive = {} /\ words = <<>> /\ halted = FALSE

size_to_class(total) ==
    LET fit == {c \in Classes : total <= c} IN IF fit = {} THEN 0 ELSE Min(fit)

\* partition_page_into_list: the objects of a page; the list starts with the last one.
partition_page_into_list(page, size) ==
    LET n == PageWords \div size IN [k \in 1..n |-> page + (n - k) * size]

\* alloc_raw: the heap after one object of total words was taken, and its address.
alloc_raw(h, total) ==
    LET c == size_to_class(total)
        NewPage == Head(h.pool)
        list == partition_page_into_list(NewPage, c)
    IN  CASE c = 0 /\ h.pool # <<>> -> [pool |-> Tail(h.pool), cache |-> h.cache, base |-> NewPage]
          [] c # 0 /\ h.cache[c] # <<>> ->
                [pool |-> h.pool, cache |-> [h.cache EXCEPT ![c] = Tail(@)], base |-> Head(h.cache[c])]
          [] c # 0 /\ h.cache[c] = <<>> /\ h.pool # <<>> ->
                [pool |-> Tail(h.pool), cache |-> [h.cache EXCEPT ![c] = Tail(list)], base |-> Head(list)]
          [] OTHER -> [pool |-> h.pool, cache |-> h.cache, base |-> NULL]

\* Mutant of free_raw: an object goes to the cache of the next larger class.
FreeRawRoundsUp(base, total) ==
    LET c == size_to_class(total + 1)
    IN  IF c = 0 THEN pool' = <<base>> \o pool /\ cache' = cache
        ELSE cache' = [cache EXCEPT ![c] = <<base>> \o @] /\ pool' = pool

free_raw(base, total) ==
    LET c == size_to_class(total)
    IN  IF c = 0 THEN pool' = <<base>> \o pool /\ cache' = cache
        ELSE cache' = [cache EXCEPT ![c] = <<base>> \o @] /\ pool' = pool

AlignUp(a, align) == ((a + align - 1) \div align) * align

\* alloc_with_header: what it takes, the pointer, and the header in front of it.
alloc_with_header(size, align) ==
    LET total == size + align + HEADER_SIZE
        h == alloc_raw([pool |-> pool, cache |-> cache], total)
    IN  [heap |-> h, ptr |-> IF h.base = NULL THEN NULL ELSE AlignUp(h.base + HEADER_SIZE, align), total |-> total]

Kmalloc(size, align) ==
    LET a == alloc_with_header(size, align)
    IN  /\ ~halted /\ Cardinality(live) < MaxLive
        /\ pool' = a.heap.pool /\ cache' = a.heap.cache
        /\ live' = IF a.ptr = NULL THEN live
                   ELSE live \cup {[ptr |-> a.ptr, size |-> size, align |-> align,
                                    base |-> a.heap.base, total |-> a.total]}
        /\ UNCHANGED <<slabFree, slabLive, words, halted>>

\* free_with_header: base and total come from the header.
Kfree(x) ==
    /\ ~halted /\ x \in live
    /\ free_raw(x.base, x.total)
    /\ live' = live \ {x}
    /\ UNCHANGED <<slabFree, slabLive, words, halted>>

-----------------------------------------------------------------------------
(* SlabCache.  The canary is the last word of the object, the link of a    *)
(* free object its first.                                                  *)

Link == "link"
LIVE_CANARY == "live"
FREE_CANARY == "free"

SlabAlloc ==
    LET p == Head(slabFree)
        a == alloc_with_header(SlabSize, 1)
        Fresh == [k \in 0..(SlabSize - 1) |-> IF k = SlabSize - 1 THEN LIVE_CANARY ELSE "old"]
    IN  /\ ~halted /\ Cardinality(slabLive) < MaxLive
        /\ \/ /\ slabFree # <<>>
              /\ IF words[p][SlabSize - 1] # FREE_CANARY
                 THEN halted' = TRUE /\ UNCHANGED <<slabFree, slabLive, words>>
                 ELSE /\ words' = [words EXCEPT ![p][SlabSize - 1] = LIVE_CANARY]
                      /\ slabFree' = Tail(slabFree)
                      /\ slabLive' = slabLive \cup {p}
                      /\ UNCHANGED halted
              /\ UNCHANGED <<pool, cache, live>>
           \/ /\ slabFree = <<>> /\ a.ptr # NULL
              /\ pool' = a.heap.pool /\ cache' = a.heap.cache
              /\ live' = live \cup {[ptr |-> a.ptr, size |-> SlabSize, align |-> 1,
                                     base |-> a.heap.base, total |-> a.total]}
              /\ words' = [x \in DOMAIN words \cup {a.ptr} |-> IF x = a.ptr THEN Fresh ELSE words[x]]
              /\ slabLive' = slabLive \cup {a.ptr}
              /\ UNCHANGED <<slabFree, halted>>

SlabFree(p) ==
    /\ ~halted /\ p \in slabLive
    /\ IF words[p][SlabSize - 1] # LIVE_CANARY
       THEN halted' = TRUE /\ UNCHANGED <<slabFree, slabLive, words>>
       ELSE /\ words' = [words EXCEPT ![p] = [[@ EXCEPT ![SlabSize - 1] = FREE_CANARY] EXCEPT ![0] = Link]]
            /\ slabFree' = <<p>> \o slabFree
            /\ slabLive' = slabLive \ {p}
            /\ UNCHANGED halted
    /\ UNCHANGED <<pool, cache, live>>

\* The owner writes into its object, the canary excepted.
SlabUse(p, k) ==
    /\ ~halted /\ p \in slabLive
    /\ words' = [words EXCEPT ![p][k] = "data"]
    /\ UNCHANGED <<pool, cache, live, slabFree, slabLive, halted>>

HeapNext ==
    \/ \E size \in AllocSizes, align \in AllocAligns : Kmalloc(size, align)
    \/ \E x \in live : x.ptr \notin DOMAIN words /\ Kfree(x)
    \/ SlabAlloc
    \/ \E p \in slabLive : SlabFree(p) \/ \E k \in 0..(SlabSize - 2) : SlabUse(p, k)

HeapSpec == HeapInit /\ [][HeapNext]_heapVars

-----------------------------------------------------------------------------
Words(from, n) == from..(from + n - 1)
FreeObjects == {<<c, i>> \in Classes \X (1..PageWords * NumPages) : i \in DOMAIN cache[c]}

(***************************************************************************)
(* An allocation is aligned as asked for, and lies with its header inside  *)
(* the object that was taken for it.                                       *)
(***************************************************************************)
InsideObject ==
    \A x \in live :
        LET c == size_to_class(x.total)
            room == IF c = 0 THEN PageWords ELSE c
        IN  /\ x.ptr % x.align = 0
            /\ Words(x.ptr - HEADER_SIZE, x.size + HEADER_SIZE) \subseteq Words(x.base, room)

(***************************************************************************)
(* Nothing is handed out twice: allocations do not overlap each other, nor *)
(* the objects on the free lists, nor the pages of the pool, whatever the  *)
(* order in which sizes and classes are mixed.                             *)
(***************************************************************************)
NothingTwice ==
    /\ \A x, y \in live : x # y => Words(x.ptr - HEADER_SIZE, x.size + HEADER_SIZE)
                                    \cap Words(y.ptr - HEADER_SIZE, y.size + HEADER_SIZE) = {}
    /\ \A x \in live, f \in FreeObjects :
         Words(x.base, x.total) \cap Words(cache[f[1]][f[2]], f[1]) = {}
    /\ \A x \in live, k \in DOMAIN pool : Words(x.base, x.total) \cap Words(pool[k], PageWords) = {}

(***************************************************************************)
(* No object of a class is on two lists or twice on one, and none of them  *)
(* lies in a page of the pool: every word is in at most one free place.    *)
(***************************************************************************)
FreeListsDisjoint ==
    /\ \A f, g \in FreeObjects : f # g => Words(cache[f[1]][f[2]], f[1]) \cap Words(cache[g[1]][g[2]], g[1]) = {}
    /\ \A f \in FreeObjects, k \in DOMAIN pool : Words(cache[f[1]][f[2]], f[1]) \cap Words(pool[k], PageWords) = {}

(***************************************************************************)
(* The slab never stops the machine over a canary as long as the owners    *)
(* leave the last word of their objects alone: the canary and the link of  *)
(* a free object do not meet (for objects of at least two words).          *)
(***************************************************************************)
CanariesHold == ~halted

\* Every word of the heap has one use at a time: in one allocation, in one
\* object of a free list or in one page of the pool, and in a slab object as
\* canary or as link.
HeapApart == InsideObject /\ NothingTwice /\ FreeListsDisjoint /\ CanariesHold
=============================================================================
