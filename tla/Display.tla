------------------------------ MODULE Display ------------------------------
(***************************************************************************)
(* The display: the linear frame buffer (drivers/framebuffer.rs), the      *)
(* display server's surfaces (display/display_server/mod.rs) and the back  *)
(* buffer of the compositor (syscall/dispatcher/gfx.rs).                   *)
(*                                                                         *)
(* Pixels are cells of a buffer, numbered row by row with the stride; the  *)
(* model records which cells a call writes, not their colours.             *)
(***************************************************************************)
EXTENDS Integers, Sequences, FiniteSets, FiniteSetsExt

CONSTANTS DsPids,       \* processes with the display capability (numbers > 0)
          MaxSurfaces,  \* surface slots
          MaxSurfaceId, \* bound: surfaces created
          Zs,           \* z orders used
          GopModes,     \* [w, h, stride, size] of the frame buffer, in pixels
          RowBuf,       \* pixels of fill_rect's row buffer (1920)
          Rects,        \* [x, y, w, h] drawn by programs
          U32           \* 2^32

Nobody == 0
NoBuffer == [by |-> Nobody, w |-> 0, h |-> 0]
EmptySlot == [id |-> 0, owner |-> Nobody, buffer |-> NoBuffer, z |-> 0]
SurfaceSlot == 1..MaxSurfaces

VARIABLES mode,      \* FB_INFO
          slots,     \* SLOTS
          nextId,    \* NEXT_ID
          comp,      \* COMPOSITOR_PID, 0 if none
          back,      \* BACKBUFFER is there
          procs,     \* living processes
          painted,   \* the surfaces the last composite_all drew, in order
          spill,     \* a drawing call wrote a cell it must not
          dsUp       \* "boot" | "up" | "panic"

dsVars == <<mode, slots, nextId, comp, back, procs, painted, spill, dsUp>>

DsInit == /\ mode \in GopModes
          /\ slots = [i \in SurfaceSlot |-> EmptySlot]
          /\ nextId = 1
          /\ comp = Nobody
          /\ back = FALSE
          /\ procs = DsPids
          /\ painted = <<>>
          /\ spill = FALSE
          /\ dsUp = "boot"

-----------------------------------------------------------------------------
(* Drawing primitives: the cells they write.                               *)

Cells(x, y, w, h) == {(y + j) * mode.stride + x + i : i \in 0..(w - 1), j \in 0..(h - 1)}
Visible == Cells(0, 0, mode.w, mode.h)

\* Mutant of Clip: one column too many.
ClipLate(r) == [x |-> r.x, y |-> r.y,
                w |-> Min({r.w, IF r.x > mode.w THEN 0 ELSE mode.w + 1 - r.x}),
                h |-> Min({r.h, IF r.y > mode.h THEN 0 ELSE mode.h - r.y})]

\* blit, blit_ram and fill_rect_ram clip with saturating subtraction.
Clip(r) == [x |-> r.x, y |-> r.y,
            w |-> Min({r.w, IF r.x > mode.w THEN 0 ELSE mode.w - r.x}),
            h |-> Min({r.h, IF r.y > mode.h THEN 0 ELSE mode.h - r.y})]

\* fill_rect adds in 32 bits before it compares.
ClipFill(r) == IF r.x >= mode.w \/ r.y >= mode.h THEN [r EXCEPT !.w = 0, !.h = 0]
               ELSE [r EXCEPT !.w = IF (r.x + r.w) % U32 > mode.w THEN mode.w - r.x ELSE r.w,
                              !.h = IF (r.y + r.h) % U32 > mode.h THEN mode.h - r.y ELSE r.h]

CellsOf(r) == Cells(r.x, r.y, r.w, r.h)
blit(r) == CellsOf(Clip(r))
blit_ram(r) == CellsOf(Clip(r))
fill_rect_ram(r) == CellsOf(Clip(r))

\* fill_rect fills one row in a fixed buffer first: a wider row panics.
fill_rect(r) == CellsOf(ClipFill(r))
FillPanics(r) == ClipFill(r).w > RowBuf

\* Surfaces go to the back buffer in RAM when there is one.
backbuffer_blit(r) == IF back THEN blit_ram(r) ELSE blit(r)

\* clear writes every pixel of the buffer's memory, the padding included.
clear == 0..(mode.size - 1)

Wrote(cells) == spill' = (spill \/ ~(cells \subseteq Visible))
Whole == [x |-> 0, y |-> 0, w |-> mode.w, h |-> mode.h]

-----------------------------------------------------------------------------
(* Boot: init_from_boot_info and draw_test_pattern (its bands are as wide  *)
(* as the screen).                                                         *)
draw_test_pattern ==
    /\ dsUp = "boot"
    /\ dsUp' = IF FillPanics([Whole EXCEPT !.h = 1]) THEN "panic" ELSE "up"
    /\ spill' = (spill \/ ~(clear \subseteq 0..(mode.size - 1)) \/ ~(fill_rect([Whole EXCEPT !.h = 1]) \subseteq Visible))
    /\ UNCHANGED <<mode, slots, nextId, comp, back, procs, painted>>

\* So do the drawing calls of programs, but sys_fb_blit.
sys_fb_fill_rect == \E r \in Rects :
    /\ dsUp = "up" /\ procs # {}
    /\ Wrote(IF back THEN fill_rect_ram(r) ELSE fill_rect(r))
    /\ dsUp' = IF ~back /\ FillPanics(r) THEN "panic" ELSE dsUp
    /\ UNCHANGED <<mode, slots, nextId, comp, back, procs, painted>>

sys_fb_blit == \E r \in Rects :
    /\ dsUp = "up" /\ procs # {}
    /\ Wrote(blit(r))
    /\ UNCHANGED <<mode, slots, nextId, comp, back, procs, painted, dsUp>>

\* Only the compositor's flush copies the back buffer to the screen.
sys_fb_flush(p) ==
    /\ dsUp = "up" /\ p \in procs /\ comp = p /\ back
    /\ Wrote(blit(Whole))
    /\ UNCHANGED <<mode, slots, nextId, comp, back, procs, painted, dsUp>>

-----------------------------------------------------------------------------
(* Compositor and back buffer.                                             *)

claim_compositor(p) ==
    /\ dsUp = "up" /\ p \in procs /\ comp = Nobody
    /\ comp' = p
    /\ UNCHANGED <<mode, slots, nextId, back, procs, painted, spill, dsUp>>

sys_map_framebuffer(p) ==
    /\ dsUp = "up" /\ p \in procs /\ comp = p /\ ~back
    /\ back' = TRUE
    /\ UNCHANGED <<mode, slots, nextId, comp, procs, painted, spill, dsUp>>

\* Drops the back buffer; its frames are not given back.
on_compositor_exit(p) ==
    /\ comp' = IF comp = p THEN Nobody ELSE comp
    /\ back' = IF comp = p THEN FALSE ELSE back

ExitDisplay(p) ==
    /\ dsUp = "up" /\ p \in procs
    /\ procs' = procs \ {p}
    /\ on_compositor_exit(p)
    /\ UNCHANGED <<mode, slots, nextId, painted, spill, dsUp>>

-----------------------------------------------------------------------------
(* Surfaces.  A call names a surface by any number; 0 is the mark of a     *)
(* free slot, and attach, set_z and destroy do find it.                    *)

Ids == 0..MaxSurfaceId
Found(id) == {i \in SurfaceSlot : slots[i].id = id}

\* Mutant of surface_create: the slot keeps its buffer and z.
KeepsBuffer(p) ==
    LET i == Min(Found(0))
    IN  /\ Found(0) # {} /\ nextId <= MaxSurfaceId
        /\ slots' = [slots EXCEPT ![i].id = nextId, ![i].owner = p]
        /\ nextId' = nextId + 1

surface_create(p) ==
    LET i == Min(Found(0))
    IN  /\ Found(0) # {} /\ nextId <= MaxSurfaceId
        /\ slots' = [slots EXCEPT ![i] = [id |-> nextId, owner |-> p, buffer |-> NoBuffer, z |-> 0]]
        /\ nextId' = nextId + 1

surface_destroy(id) ==
    /\ Found(id) # {}
    /\ slots' = [slots EXCEPT ![Min(Found(id))] = EmptySlot]
    /\ UNCHANGED nextId

\* Every buffer is one row, longer than the row of the screen.
surface_attach(p, id) ==
    LET i == Min(Found(id))
    IN  /\ Found(id) # {}
        /\ slots[i].owner \in {Nobody, p}
        /\ slots' = [slots EXCEPT ![i].buffer = [by |-> p, w |-> 3, h |-> 1]]
        /\ UNCHANGED nextId

surface_set_z(id, z) ==
    /\ Found(id) # {}
    /\ slots' = [slots EXCEPT ![Min(Found(id))].z = z]
    /\ UNCHANGED nextId

SurfaceCall(p) ==
    /\ dsUp = "up" /\ p \in procs
    /\ \/ surface_create(p)
       \/ \E id \in Ids : \/ surface_destroy(id)
                          \/ surface_attach(p, id)
                          \/ \E z \in Zs : surface_set_z(id, z)
    /\ painted' = <<>>
    /\ UNCHANGED <<mode, comp, back, procs, spill, dsUp>>

surface_commit(p) == \E id \in Ids : \E r \in Rects :
    LET i == Min(Found(id))
        buf == slots[i].buffer
    IN  /\ dsUp = "up" /\ p \in procs /\ comp \in {Nobody, p}
        /\ Found(id) # {} /\ buf # NoBuffer
        /\ Wrote(backbuffer_blit([r EXCEPT !.w = buf.w, !.h = buf.h]))
        /\ UNCHANGED <<mode, slots, nextId, comp, back, procs, painted, dsUp>>

\* Insertion sort of the slots by z, as composite_all does it in place.
Inserted(order, less(_, _)) ==
    LET sink[o \in [1..Len(order) -> SurfaceSlot], j \in 1..Len(order)] ==
            IF j > 1 /\ less(o[j], o[j - 1])
            THEN sink[[o EXCEPT ![j] = o[j - 1], ![j - 1] = o[j]], j - 1]
            ELSE o
        sorted[k \in 1..Len(order)] == IF k = 1 THEN order ELSE sink[sorted[k - 1], k]
    IN  IF order = <<>> THEN order ELSE sorted[Len(order)]

PaintOrder(n) ==
    LET Less(a, b) == slots[a].z < slots[b].z IN Inserted(n, Less)

\* composite_all; only the compositor may call it once there is one.
sys_composite_all(p) ==
    LET drawn == SelectSeq([i \in SurfaceSlot |-> i], LAMBDA i : slots[i].id # 0 /\ slots[i].buffer # NoBuffer)
        order == PaintOrder(drawn)
    IN  /\ dsUp = "up" /\ p \in procs /\ comp \in {Nobody, p}
        /\ order # <<>>
        /\ painted' = order
        /\ Wrote(UNION {backbuffer_blit([x |-> 0, y |-> 0, w |-> slots[i].buffer.w, h |-> slots[i].buffer.h]) :
                            i \in {drawn[k] : k \in DOMAIN drawn}})
        /\ UNCHANGED <<mode, slots, nextId, comp, back, procs, dsUp>>

DsNext ==
    \/ draw_test_pattern
    \/ sys_fb_fill_rect
    \/ sys_fb_blit
    \/ \E p \in DsPids :
        \/ sys_fb_flush(p)
        \/ claim_compositor(p)
        \/ sys_map_framebuffer(p)
        \/ ExitDisplay(p)
        \/ SurfaceCall(p)
        \/ surface_commit(p)
        \/ sys_composite_all(p)

DsSpec == DsInit /\ [][DsNext]_dsVars

-----------------------------------------------------------------------------
\* No drawing call writes a pixel outside the visible area (framebuffer.rs:
\* "Clips to framebuffer bounds"), whatever rectangle it is given, on the
\* screen as in the back buffer.
DrawnInside == ~spill

\* composite_all draws every surface with a buffer once, from the lowest z
\* to the highest, and surfaces of one z in slot order ("insertion sort --
\* stable", display_server/mod.rs).
CompositedInOrder ==
    /\ \A i, j \in 1..Len(painted) : i < j =>
        \/ slots[painted[i]].z < slots[painted[j]].z
        \/ slots[painted[i]].z = slots[painted[j]].z /\ painted[i] < painted[j]
    /\ painted # <<>> =>
        {painted[i] : i \in 1..Len(painted)} = {i \in SurfaceSlot : slots[i].id # 0 /\ slots[i].buffer # NoBuffer}

\* "Only the owner may attach": the buffer of a surface was attached by the
\* process that created it, also when the slot was used before or an attach
\* to surface 0 hit the free slot.
AttachedByOwner ==
    \A i \in SurfaceSlot : slots[i].id # 0 /\ slots[i].buffer # NoBuffer => slots[i].buffer.by = slots[i].owner

\* The compositor's authority and the back buffer belong to a living
\* process: the next compositor "starts with a clean slate"
\* (on_compositor_exit).
BackbufferOwned == (comp # Nobody => comp \in procs) /\ (back => comp # Nobody)

\* What the display server holds is held by whoever it was given to, through
\* destroyed surfaces, reused slots and compositors that exit: the buffers of
\* surfaces, the role of the compositor and the back buffer.
SurfacesOwned == AttachedByOwner /\ BackbufferOwned

\* The picture is the one asked for: what is drawn is clipped to the screen,
\* and composite_all paints the surfaces in their order.
DrawnInOrder == DrawnInside /\ CompositedInOrder
=============================================================================
