------------------------------- MODULE Layouts -------------------------------
(***************************************************************************)
(* The tiling engines of the window managers: the one in wm.rs, the one in *)
(* nova.rs and rogue_ds.rs, the layout library rwm-core that rwm.rs uses,  *)
(* and the two of roguewm.  Each turns a number of windows and a few       *)
(* parameters into one rectangle per window, in the pixels of the real     *)
(* screen.  Rectangles are kept as computed, before the code lifts a side  *)
(* that is zero or negative to one pixel (Frame does that).                *)
(***************************************************************************)
EXTENDS Integers, Sequences, FiniteSets

CONSTANTS ScreenW,    \* the screen, in pixels (SYS_SCREEN_SIZE)
          ScreenH

Kinds == {"tile", "monocle", "grid", "bstack", "spiral", "dwindle", "centered"}

(* Division of i32 values: towards zero. *)
Quo(a, b) == IF a >= 0 THEN a \div b ELSE -((-a) \div b)

Least(a, b) == IF a < b THEN a ELSE b

Rect(x, y, w, h) == [x |-> x, y |-> y, w |-> w, h |-> h]

Flip(r) == Rect(r.y, r.x, r.h, r.w)

FlipAll(s) == [i \in DOMAIN s |-> Flip(s[i])]

(* The smallest c with c * c >= n: the loop that finds the side of a grid. *)
Root(n) == CHOOSE c \in 1..n : c * c >= n /\ (c - 1) * (c - 1) < n

(* L and R dealt out in turn, L first. *)
DealOut(L, R) ==
  [i \in 1..(Len(L) + Len(R)) |->
     IF i % 2 = 1 THEN L[(i + 1) \div 2] ELSE R[i \div 2]]

(* Window i takes a part of what the windows before it left; the last one  *)
(* takes the rest.  Split(i, r) is the part and the rest of r.             *)
Peel(n, area, Split(_, _)) ==
  LET left[i \in 1..n] ==
        IF i = 1 THEN area ELSE Split(i - 1, left[i - 1]).rest
  IN  [i \in 1..n |-> IF i = n THEN left[n] ELSE Split(i, left[i]).mine]

(* r cut in an upper part of height a and the rest, g pixels apart. *)
CutAt(r, a, g) == [mine |-> Rect(r.x, r.y, r.w, a),
                   rest |-> Rect(r.x, r.y + a + g, r.w, r.h - a - g)]

FlipCut(c) == [mine |-> Flip(c.mine), rest |-> Flip(c.rest)]

-----------------------------------------------------------------------------
(* wm.rs.  p holds nmaster and mfact, a is the work area, g the gap. *)

(* k windows in a column of height h: all the same but for the last, which *)
(* ends at the bottom.                                                     *)
Column(x, y, w, h, k, g) ==
  LET each == IF k > 0 THEN Quo(h - g * (k - 1), k) ELSE 0
  IN  [i \in 1..k |-> LET top == y + (i - 1) * (each + g)
                      IN  Rect(x, top, w, IF i = k THEN y + h - top ELSE each)]

arrange_tile(n, p, a, g) ==
  LET nm == Least(p.nmaster, n)
      ns == n - nm
      mw == IF nm = 0 \/ ns = 0 THEN a.w ELSE Quo(a.w * p.mfact, 100)
      sw == IF ns > 0 THEN a.w - mw - g ELSE 0
  IN  Column(a.x, a.y, mw, a.h, nm, g)
        \o Column(a.x + mw + g, a.y, sw, a.h, ns, g)

(* The master row over the stack row: arrange_tile with the axes swapped. *)
arrange_bstack(n, p, a, g) == FlipAll(arrange_tile(n, p, Flip(a), g))

arrange_monocle(n, a) == [i \in 1..n |-> a]

(* MUTANT: the column of a window is counted in rows. *)
GridSwapped(n, a, g) ==
  LET cols == Root(n)
      rows == (n + cols - 1) \div cols
      cw   == Quo(a.w - g * (cols - 1), cols)
      ch   == Quo(a.h - g * (rows - 1), rows)
  IN  [i \in 1..n |-> Rect(a.x + ((i - 1) % rows) * (cw + g),
                           a.y + ((i - 1) \div cols) * (ch + g), cw, ch)]

arrange_grid(n, a, g) ==
  LET cols == Root(n)
      rows == (n + cols - 1) \div cols
      cw   == Quo(a.w - g * (cols - 1), cols)
      ch   == Quo(a.h - g * (rows - 1), rows)
  IN  [i \in 1..n |-> Rect(a.x + ((i - 1) % cols) * (cw + g),
                           a.y + ((i - 1) \div cols) * (ch + g), cw, ch)]

arrange_spiral(n, a, g) ==
  LET Half(i, r) == IF i % 2 = 1
                      THEN CutAt(r, Quo(r.h - g, 2), g)
                      ELSE FlipCut(CutAt(Flip(r), Quo(r.w - g, 2), g))
  IN  Peel(n, a, Half)

arrange_dwindle(n, a, g) ==
  LET Swap(c) == [mine |-> c.rest, rest |-> c.mine]
      Half(i, r) == IF i % 2 = 1
                      THEN Swap(CutAt(r, Quo(r.h - g, 2), g))
                      ELSE Swap(FlipCut(CutAt(Flip(r), Quo(r.w - g, 2), g)))
  IN  Peel(n, a, Half)

arrange_centeredmaster(n, p, a, g) ==
  LET nm   == Least(p.nmaster, n)
      ns   == n - nm
      mw   == Quo(a.w * p.mfact, 100)
      side == Quo(a.w - mw - g * 2, 2)
      mx   == a.x + side + g
  IN  IF ns = 0
        THEN arrange_tile(n, p, a, g)
        ELSE Column(mx, a.y, mw, a.h, nm, g)
               \o DealOut(Column(a.x, a.y, side, a.h, (ns + 1) \div 2, g),
                             Column(mx + mw + g, a.y, side, a.h, ns \div 2, g))

(* The work area: the screen without the bar and without the outer gap. *)
WorkArea(bar, g) == Rect(g, bar + g, ScreenW - 2 * g, ScreenH - bar - 2 * g)

arrange(n, p) ==
  LET g == IF p.gaps THEN 6 ELSE 0
      a == WorkArea(IF p.bar THEN 22 ELSE 0, g)
  IN  CASE n = 0               -> << >>
        [] p.kind = "tile"     -> arrange_tile(n, p, a, g)
        [] p.kind = "monocle"  -> arrange_monocle(n, a)
        [] p.kind = "grid"     -> arrange_grid(n, a, g)
        [] p.kind = "bstack"   -> arrange_bstack(n, p, a, g)
        [] p.kind = "spiral"   -> arrange_spiral(n, a, g)
        [] p.kind = "dwindle"  -> arrange_dwindle(n, a, g)
        [] p.kind = "centered" -> arrange_centeredmaster(n, p, a, g)

-----------------------------------------------------------------------------
(* nova.rs and rogue_ds.rs, whose layouts are the same.  The rectangles    *)
(* include the border, which the code takes off the width and height it    *)
(* stores and draws around the window again.                               *)

(* k equal slots, the rounding left over at the bottom. *)
EvenColumn(x, y, w, h, k, g) ==
  LET slot == IF k > 0 THEN Quo(h - (k - 1) * g, k) ELSE 0
  IN  [i \in 1..k |-> Rect(x, y + (i - 1) * (slot + g), w, slot)]

nova_tile(n, p, a, g) ==
  LET nm == Least(p.nmaster, n)
      mw == IF nm = n THEN a.w ELSE Quo(a.w * p.mfact, 100)
  IN  EvenColumn(a.x, a.y, mw, a.h, nm, g)
        \o EvenColumn(a.x + mw + g, a.y, a.w - mw - g, a.h, n - nm, g)

nova_bstack(n, p, a, g) == FlipAll(nova_tile(n, p, Flip(a), g))

nova_grid(n, a, g) == arrange_grid(n, a, g)

(* Half of r, less half a gap on either side of the cut. *)
HalfCut(r, g) ==
  LET half == Quo(r.h, 2)
  IN  [mine |-> Rect(r.x, r.y, r.w, half - g \div 2),
       rest |-> Rect(r.x, r.y + half + g \div 2, r.w, r.h - half - g \div 2)]

(* Both spirals split the same way. *)
nova_spiral(n, a, g) ==
  LET Half(i, r) == IF i % 2 = 1 THEN FlipCut(HalfCut(Flip(r), g)) ELSE HalfCut(r, g)
  IN  Peel(n, a, Half)

nova_centered(n, p, a, g) ==
  LET nm   == Least(p.nmaster, n)
      mw   == Quo(a.w * p.mfact, 100)
      side == Quo(a.w - mw - 2 * g, 2)
      mx   == a.x + side + g
      scl  == (n - nm) \div 2
  IN  EvenColumn(mx, a.y, mw, a.h, nm, g)
        \o EvenColumn(a.x, a.y, side, a.h, scl, g)
        \o EvenColumn(mx + mw + g, a.y, side, a.h, n - nm - scl, g)

nova_layout(n, p, a, g) ==
  CASE n = 0                              -> << >>
    [] p.kind = "tile"                    -> nova_tile(n, p, a, g)
    [] p.kind = "monocle"                 -> [i \in 1..n |-> a]
    [] p.kind = "grid"                    -> nova_grid(n, a, g)
    [] p.kind = "bstack"                  -> nova_bstack(n, p, a, g)
    [] p.kind \in {"spiral", "dwindle"}   -> nova_spiral(n, a, g)
    [] p.kind = "centered"                -> nova_centered(n, p, a, g)

nova_arrange(n, p) ==
  LET g == IF p.gaps THEN 4 ELSE 0 IN nova_layout(n, p, WorkArea(20, g), g)

(* rogue_ds leaves the strip for its bar at the top, and draws the bar at  *)
(* the bottom.                                                             *)
ds_arrange(n, p) ==
  LET g == IF p.gaps THEN 6 ELSE 0 IN nova_layout(n, p, WorkArea(22, g), g)

-----------------------------------------------------------------------------
(* rwm-core.  cfact is 1.0 for every client of rwm.rs.  Products of floats *)
(* are cut to an integer: p.round is 1 when such a product comes out just  *)
(* below the exact value and loses a pixel, which the last window gets.    *)

effective_gaps(n) == IF n <= 1 THEN 0 ELSE 4

cfact_sizes(k, total, round) ==
  [i \in 1..k |->
     LET each == total \div k - round
     IN  IF i = k THEN total - (k - 1) * each ELSE each]

Stack(x, y, w, h, k, g, round) ==
  LET size == cfact_sizes(k, h - g * (k - 1), round)
  IN  [i \in 1..k |-> Rect(x, y + (i - 1) * (size[1] + g), w, size[i])]

TileLayout(n, p, a, g) ==
  LET nm == Least(p.nmaster, n)
      ns == n - nm
      mw == IF nm = 0 \/ ns = 0 THEN a.w
                                ELSE Quo(a.w * p.mfact, 100) - p.round
      iv == IF ns > 0 /\ nm > 0 THEN g ELSE 0
  IN  Stack(a.x, a.y, mw, a.h, nm, g, p.round)
        \o Stack(a.x + mw + iv, a.y, a.w - mw - iv, a.h, ns, g, p.round)

BStackLayout(n, p, a, g) == FlipAll(TileLayout(n, p, Flip(a), g))

fibonacci_arrange(n, a, g, dwindle) ==
  LET Half(i, r) == IF (IF dwindle THEN i - 1 ELSE i) % 2 = 0
                      THEN CutAt(r, Quo(r.h - g, 2), g)
                      ELSE FlipCut(CutAt(Flip(r), Quo(r.w - g, 2), g))
  IN  Peel(n, a, Half)

GridLayout(n, a, g) ==
  LET rows == Root(n)
      cols == (n + rows - 1) \div rows
      cw   == Quo(a.w - g * (cols - 1), cols)
      ch   == Quo(a.h - g * (rows - 1), rows)
  IN  [i \in 1..n |-> Rect(a.x + ((i - 1) % cols) * (cw + g),
                           a.y + ((i - 1) \div cols) * (ch + g), cw, ch)]

CenteredMasterLayout(n, p, a, g) ==
  LET nm   == Least(p.nmaster, n)
      ns   == n - nm
      mw   == Quo(a.w * p.mfact, 100) - p.round
      side == Quo(a.w - mw - 2 * g, 2)
      mx   == a.x + side + g
      Side(x, k) == Stack(x, a.y, side, a.h, k, g, p.round)
  IN  IF ns = 0
        THEN Stack(a.x, a.y, a.w, a.h, n, g, p.round)
        ELSE Stack(mx, a.y, mw, a.h, nm, g, p.round)
               \o DealOut(Side(a.x, (ns + 1) \div 2),
                             Side(mx + mw + g, ns \div 2))

(* Monitor.update_bar_pos gives the area under the bar, and the layouts    *)
(* take the outer gaps off it, but for monocle, which has none.            *)
core_arrange(n, p) ==
  LET g == effective_gaps(n)
      a == WorkArea(20, g)
  IN  CASE n = 0                -> << >>
        [] p.kind = "tile"     -> TileLayout(n, p, a, g)
        [] p.kind = "monocle"  -> [i \in 1..n |-> WorkArea(20, 0)]
        [] p.kind = "spiral"   -> fibonacci_arrange(n, a, g, FALSE)
        [] p.kind = "dwindle"  -> fibonacci_arrange(n, a, g, TRUE)
        [] p.kind = "bstack"   -> BStackLayout(n, p, a, g)
        [] p.kind = "grid"     -> GridLayout(n, a, g)
        [] p.kind = "centered" -> CenteredMasterLayout(n, p, a, g)

-----------------------------------------------------------------------------
(* roguewm: the X11 window manager, where X draws a border of one pixel    *)
(* around the rectangle, and the workspace of the new compositor.          *)

x11_tile(n, p, a, g) ==
  LET nm == Least(p.nmaster, n)
      mw == Quo((a.w - g) * p.mfact, 100) - p.round
  IN  IF p.nmaster > 0 /\ n > p.nmaster
        THEN EvenColumn(a.x, a.y, mw, a.h, nm, g)
               \o EvenColumn(a.x + mw + g, a.y, a.w - mw - g, a.h, n - p.nmaster, g)
        ELSE EvenColumn(a.x, a.y, a.w, a.h, n, g)

x11_dwindle(n, a, g) ==
  LET Half(i, r) == IF i % 2 = 1
                      THEN FlipCut(CutAt(Flip(r), Quo(r.w - g, 2), g))
                      ELSE CutAt(r, Quo(r.h - g, 2), g)
  IN  Peel(n, a, Half)

(* Gaps need two windows; monocle has none. *)
calculate_layout(n, p) ==
  LET g == IF p.gaps /\ n > 1 THEN 10 ELSE 0
      a == WorkArea(18, g)
  IN  CASE n = 0 \/ p.kind = "floating" -> << >>
        [] p.kind = "tile"    -> x11_tile(n, p, a, g)
        [] p.kind = "monocle" -> [i \in 1..n |-> WorkArea(18, 0)]
        [] p.kind = "dwindle" -> x11_dwindle(n, a, g)

workspace_tile(n, p) ==
  LET a  == WorkArea(0, 0)
      mw == Quo(a.w * p.mfact, 100) - p.round
  IN  IF n <= 1 THEN [i \in 1..n |-> a]
      ELSE <<Rect(a.x, a.y, mw, a.h)>> \o Column(a.x + mw, a.y, a.w - mw, a.h, n - 1, 0)

-----------------------------------------------------------------------------
(* What is drawn. *)

Border(engine) == IF engine \in {"nova", "ds"} THEN 2 ELSE 0

AtLeast(a, b) == IF a > b THEN a ELSE b

(* The stored sides are at least one pixel. *)
Frame(r, b) == Rect(r.x, r.y, AtLeast(r.w - 2 * b, 1) + 2 * b,
                              AtLeast(r.h - 2 * b, 1) + 2 * b)
=============================================================================
