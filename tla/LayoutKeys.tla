----------------------------- MODULE LayoutKeys -----------------------------
(***************************************************************************)
(* The parameters of the tiling engines under the keys of the window       *)
(* managers, and what must hold of the rectangles whatever was pressed.    *)
(***************************************************************************)
EXTENDS Layouts

CONSTANTS Engines,    \* the engines to explore, of {"wm", "nova", "ds", "core", "x11", "ws"}
          MaxMaster   \* bound on nmaster, which the keys raise without end

VARIABLE scr          \* the parameters of the window manager that runs

Arranged(p) == CASE p.engine = "wm"   -> arrange(p.n, p)
                 [] p.engine = "nova" -> nova_arrange(p.n, p)
                 [] p.engine = "ds"   -> ds_arrange(p.n, p)
                 [] p.engine = "core" -> core_arrange(p.n, p)
                 [] p.engine = "x11"  -> calculate_layout(p.n, p)
                 [] p.engine = "ws"   -> workspace_tile(p.n, p)

Frames(p) == LET s == Arranged(p)
             IN  [i \in DOMAIN s |-> Frame(s[i], Border(p.engine))]

LayoutInit ==
  \E e \in Engines, r \in {0, 1} :
     /\ r = 1 => e \in {"core", "x11", "ws"}
     /\ scr = [engine |-> e, kind |-> "tile", n |-> 0, nmaster |-> 1,
               mfact |-> 55, gaps |-> TRUE, bar |-> TRUE, round |-> r]

(* The X11 window manager has no limit of its own: a bound. *)
MaxWindows(e) == CASE e = "core" -> 9 [] e \in {"x11", "ws"} -> 12 [] OTHER -> 16

(* A tiled window appears among, or leaves, the visible ones. *)
OpenWindow  == scr.n < MaxWindows(scr.engine) /\ scr' = [scr EXCEPT !.n = @ + 1]
CloseWindow == scr.n > 0 /\ scr' = [scr EXCEPT !.n = @ - 1]

(* The order of Layout::next. *)
Order == <<"tile", "monocle", "grid", "bstack", "spiral", "dwindle", "centered">>

Place(k) == CHOOSE i \in 1..7 : Order[i] = k

(* Mod+Space and its reverse; rwm and roguewm choose a layout by name. *)
NextLayout == /\ scr.engine \in {"wm", "nova", "ds"}
              /\ scr' = [scr EXCEPT !.kind = Order[(Place(@) % 7) + 1]]
PrevLayout == /\ scr.engine \in {"wm", "nova"}
              /\ scr' = [scr EXCEPT !.kind = Order[((Place(@) + 5) % 7) + 1]]
SetLayout(k) == /\ k \in CASE scr.engine = "core" -> Kinds
                          [] scr.engine = "x11"  -> {"tile", "monocle", "dwindle", "floating"}
                          [] OTHER -> {}
                /\ scr' = [scr EXCEPT !.kind = k]

(* Mod+L and Mod+H move the border of the master area by five percent. *)
MfactMin(e) == IF e \in {"nova", "ds"} THEN 5 ELSE 10
MfactMax(e) == IF e \in {"nova", "ds"} THEN 95 ELSE 90
HasMfact == scr.engine \notin {"x11", "ws"}

GrowMaster ==
  HasMfact /\ scr' = [scr EXCEPT !.mfact = IF @ < MfactMax(scr.engine) THEN @ + 5 ELSE @]

ShrinkMaster ==
  HasMfact /\ scr' = [scr EXCEPT !.mfact = IF @ > MfactMin(scr.engine) THEN @ - 5 ELSE @]

(* Mod+Period and Mod+Comma. *)
IncMaster == /\ scr.engine \in {"wm", "nova", "ds"} /\ scr.nmaster < MaxMaster
             /\ scr' = [scr EXCEPT !.nmaster = @ + 1]
DecMaster == /\ scr.engine \in {"wm", "nova", "ds"} /\ scr.nmaster > 0
             /\ scr' = [scr EXCEPT !.nmaster = @ - 1]

ToggleGaps == scr.engine \notin {"core", "ws"} /\ scr' = [scr EXCEPT !.gaps = ~@]
ToggleBar  == scr.engine = "wm"   /\ scr' = [scr EXCEPT !.bar = ~@]

LayoutNext ==
  \/ OpenWindow \/ CloseWindow \/ NextLayout \/ PrevLayout
  \/ GrowMaster \/ ShrinkMaster \/ IncMaster \/ DecMaster
  \/ ToggleGaps \/ ToggleBar
  \/ \E k \in Kinds \cup {"floating"} : SetLayout(k)

LayoutSpec == LayoutInit /\ [][LayoutNext]_scr

-----------------------------------------------------------------------------
(* Without a master window, tile and bstack of wm.rs and rwm-core put the  *)
(* stack beside a master area that takes the whole width (see README).     *)
HasMaster(p) == p.nmaster > 0 \/ p.engine \in {"nova", "ds"}
                  \/ p.kind \notin {"tile", "bstack"}

RectsMeet(r, s) == /\ r.x < s.x + s.w /\ s.x < r.x + r.w
                 /\ r.y < s.y + s.h /\ s.y < r.y + r.h

(* No two tiled windows cover the same pixel, whatever the keys did before *)
(* (monocle stacks them on purpose).                                       *)
TilesDisjoint ==
  (HasMaster(scr) /\ scr.kind # "monocle") =>
     LET f == Frames(scr)
     IN  \A i, j \in DOMAIN f : i < j => ~RectsMeet(f[i], f[j])

(* The strip at the top that the engine leaves for the bar. *)
BarOf(p) == CASE p.engine = "wm" -> IF p.bar THEN 22 ELSE 0
              [] p.engine = "ds" -> 22 [] p.engine = "x11" -> 18 [] p.engine = "ws" -> 0
              [] OTHER -> 20

(* Every tiled window lies on the screen and under the strip of the bar. *)
TilesInside ==
  HasMaster(scr) =>
     LET f == Frames(scr)
     IN  \A i \in DOMAIN f :
            /\ f[i].x >= 0 /\ f[i].x + f[i].w <= ScreenW
            /\ f[i].y >= BarOf(scr) /\ f[i].y + f[i].h <= ScreenH

(* The windows use the area: some window ends within the gap and the       *)
(* rounding of at most a pixel per window of the right edge, one of the    *)
(* bottom, one starts at the left, one at the top (with one master window  *)
(* or more; centeredmaster leaves a side empty on purpose).                *)
TilesFill ==
  (scr.n > 0 /\ scr.nmaster > 0 /\ scr.kind \notin {"centered", "floating"}) =>
     LET f == Frames(scr)
         gap == IF scr.engine = "x11" THEN 10 ELSE 6
         slack == gap + scr.n
     IN  /\ \E i \in DOMAIN f : f[i].x <= gap
         /\ \E i \in DOMAIN f : f[i].y <= BarOf(scr) + gap
         /\ \E i \in DOMAIN f : f[i].x + f[i].w >= ScreenW - slack
         /\ \E i \in DOMAIN f : f[i].y + f[i].h >= ScreenH - slack

\* "Tiling layout splits evenly (compositor test), no overlap"
\* (kernel/process/DESIGN.md:47), after any keys of any of the programs:
\* the windows are apart, on the screen, and use the area.
Tiled == TilesDisjoint /\ TilesInside /\ TilesFill
=============================================================================
