------------------------------ MODULE MCDesktop ------------------------------
(***************************************************************************)
(* Two parts of the desktop that share no state: the window manager with a *)
(* terminal and an application on the real screen, and the tiling engines  *)
(* under their keys.  A behaviour is one of one part; the other stays as   *)
(* it was at the start.                                                    *)
(***************************************************************************)
EXTENDS Desktop, LayoutKeys

VARIABLE part

\* A part that does not run has one initial state.
DesktopInit ==
  /\ part \in {"wm", "layouts"}
  /\ DeskInit /\ LayoutInit
  /\ part = "layouts" \/ scr.engine = "wm"

DesktopNext ==
  /\ UNCHANGED part
  /\ \/ part = "wm" /\ DeskNext /\ UNCHANGED scr
     \/ part = "layouts" /\ LayoutNext /\ UNCHANGED deskVars

\* The fairness of DeskFairSpec, in the behaviours of the window manager.
DesktopSpec ==
  /\ DesktopInit /\ [][DesktopNext]_<<part, deskVars, scr>>
  /\ WF_deskVars(part = "wm" /\ WmTurn)
  /\ \A p \in Terms : WF_deskVars(part = "wm" /\ TermTurn(p) /\ UNCHANGED <<wm, inputs>>)
=============================================================================
