------------------------------ MODULE MCScreen ------------------------------
(***************************************************************************)
(* Programs of the screen that share no state: the text of the terminal,   *)
(* the tags of rwm-core, the Nova compositor and the X11 window manager.   *)
(* A behaviour is one of one part; the others stay as they were at the     *)
(* start.                                                                  *)
(***************************************************************************)
EXTENDS Terminal, TagCore, Nova, X11Wm

VARIABLE part

\* A part that does not run has one initial state.
ScreenInit ==
    /\ part \in {"text", "tags", "nova", "x11"}
    /\ TextInit /\ TagInit /\ NovaInit /\ XInit
    /\ part = "tags" \/ ts.prog = "rwm"

ScreenNext ==
    /\ UNCHANGED part
    /\ \/ part = "text" /\ TextNext /\ UNCHANGED <<ts, novaVars, xVars>>
       \/ part = "tags" /\ TagNext /\ UNCHANGED <<textVars, novaVars, xVars>>
       \/ part = "nova" /\ NovaNext /\ UNCHANGED <<textVars, ts, xVars>>
       \/ part = "x11" /\ XNext /\ UNCHANGED <<textVars, ts, novaVars>>

ScreenSpec == ScreenInit /\ [][ScreenNext]_<<part, textVars, ts, novaVars, xVars>>
=============================================================================
