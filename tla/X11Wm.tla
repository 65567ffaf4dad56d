------------------------------- MODULE X11Wm --------------------------------
(***************************************************************************)
(* roguewm for X11 (legacy_x11): the window manager, its plug-ins and the  *)
(* X server with its event queue.  Programs create, map, unmap and destroy *)
(* windows while the events about earlier steps still wait in the queue.   *)
(* A reply that the server refuses ends the window manager: main passes    *)
(* the error on.  Requests without a reply that fail come back as error    *)
(* events, which handle_event ignores.  There is one monitor (state.rs).   *)
(* The layout, what floats and what is dragged decide places and sizes     *)
(* only; see LayoutKeys.                                                   *)
(***************************************************************************)
EXTENDS Naturals, SequencesExt

CONSTANTS XWins,      \* windows
          XTags,      \* tags, 1 among them
          XScratch,   \* the windows of class "scratchpad"
          XQueue,     \* bound: waiting events
          XCommands,  \* bound: commands sent to the socket
          NoWin       \* no window

VARIABLES xw,         \* the window manager
          xs,         \* the server: windows that exist, that are mapped, events
          sock        \* commands: sent to the socket, waiting, executed

xVars == <<xw, xs, sock>>

XInit ==
  /\ xw = [alive |-> TRUE, clients |-> {}, list |-> << >>, sel |-> NoWin, view |-> {1},
           tags |-> [w \in XWins |-> {}]]
  /\ xs = [exists |-> {}, mapped |-> {}, events |-> << >>]
  /\ sock = [sent |-> << >>, queue |-> << >>, done |-> << >>]

-----------------------------------------------------------------------------
(* Programs and the server. *)

Posted(es) == Len(xs.events) + Len(es) <= XQueue
Ev(t, w) == [type |-> t, win |-> w]

CreateWindow(w) ==
  /\ w \notin xs.exists
  /\ xs' = [xs EXCEPT !.exists = @ \cup {w}] /\ UNCHANGED <<xw, sock>>

\* Mapping is redirected to the window manager, again and again until it maps.
MapWindow(w) ==
  /\ w \in xs.exists \ xs.mapped /\ Posted(<<0>>)
  /\ xs' = [xs EXCEPT !.events = Append(@, Ev("map", w))] /\ UNCHANGED <<xw, sock>>

UnmapWindow(w) ==
  /\ w \in xs.mapped /\ Posted(<<0>>)
  /\ xs' = [xs EXCEPT !.mapped = @ \ {w}, !.events = Append(@, Ev("unmap", w))]
  /\ UNCHANGED <<xw, sock>>

DestroyWindow(w) ==
  LET es == IF w \in xs.mapped THEN <<Ev("unmap", w), Ev("destroy", w)>> ELSE <<Ev("destroy", w)>>
  IN  /\ w \in xs.exists /\ Posted(es)
      /\ xs' = [exists |-> xs.exists \ {w}, mapped |-> xs.mapped \ {w}, events |-> xs.events \o es]
      /\ UNCHANGED <<xw, sock>>

\* The pointer enters, or a button is pressed on, a mapped window.
PointWindow ==
  /\ Posted(<<0>>)
  /\ \E t \in {"enter", "click", "modclick"}, w \in xs.mapped :
        xs' = [xs EXCEPT !.events = Append(@, Ev(t, w))]
  /\ UNCHANGED <<xw, sock>>

\* The thread of IpcPlugin; its wake-up goes, with an empty event mask, to the
\* creator of the root window, and no event reaches the window manager.
Listener(c) ==
  /\ Len(sock.sent) < XCommands
  /\ sock' = [sock EXCEPT !.sent = Append(@, c), !.queue = Append(@, c)]
  /\ UNCHANGED <<xw, xs>>

-----------------------------------------------------------------------------
(* The window manager: v is its state before, the value its state after.   *)
(* arrange only sends sizes (see Layouts).                                  *)

XFocus(v, w) == [v EXCEPT !.sel = w]

\* apply_rules: the rules of config.rs put Gimp on no tag and Firefox on the last.
RuleTags(v, w) ==
  IF w \in XScratch THEN {v.view} ELSE {v.view, {}, {CHOOSE t \in XTags : \A s \in XTags : s <= t}}

manage(v, w, tags) ==
  XFocus([v EXCEPT !.clients = @ \cup {w}, !.list = Append(@, w), !.tags[w] = tags], w)

\* MUTANT: the notice about a window that is on no visible tag is ignored.
RemoveVisible(v, w) ==
  IF w \notin v.clients \/ v.tags[w] \cap v.view = {} THEN v
  ELSE LET l == SelectSeq(v.list, LAMBDA u : u # w)
       IN  [v EXCEPT !.clients = @ \ {w}, !.list = l, !.tags[w] = {},
                     !.sel = IF @ # w THEN @ ELSE IF l = << >> THEN NoWin ELSE l[Len(l)]]

\* remove_window: the selection falls to the last of the list, visible or not.
remove_window(v, w) ==
  IF w \notin v.clients THEN v
  ELSE LET l == SelectSeq(v.list, LAMBDA u : u # w)
       IN  [v EXCEPT !.clients = @ \ {w}, !.list = l, !.tags[w] = {},
                     !.sel = IF @ # w THEN @ ELSE IF l = << >> THEN NoWin ELSE l[Len(l)]]

\* Where the selected window is in the list; the first place if it is not.
Here(v) == IF \E i \in DOMAIN v.list : v.list[i] = v.sel
             THEN CHOOSE i \in DOMAIN v.list : v.list[i] = v.sel ELSE 1
Beside(v, up) == IF up THEN (Here(v) % Len(v.list)) + 1
                 ELSE IF Here(v) = 1 THEN Len(v.list) ELSE Here(v) - 1

cycle_focus(v, up) == IF v.list = << >> THEN v ELSE XFocus(v, v.list[Beside(v, up)])

move_stack(v, up) ==
  IF Len(v.list) < 2 THEN v
  ELSE [v EXCEPT !.list[Here(v)] = v.list[Beside(v, up)], !.list[Beside(v, up)] = v.list[Here(v)]]

\* The plug-in's key: hide it, or bring it here; the program is started if there is none.
ScratchToggle(v) ==
  IF v.clients \cap XScratch = {} THEN v
  ELSE LET w == CHOOSE w \in v.clients \cap XScratch : TRUE
       IN  IF v.tags[w] \cap v.view # {} THEN [v EXCEPT !.tags[w] = {}]
           ELSE XFocus([v EXCEPT !.tags[w] = v.view], w)

\* A click on a tag of the bar: nobody has the focus.
BarTag(v, t) == XFocus([v EXCEPT !.view = {t}], NoWin)

\* The commands of the socket; those about layouts and gaps change sizes only.
process_command(v, c) == IF c = "size" THEN v ELSE cycle_focus(v, c = "next")

-----------------------------------------------------------------------------
(* One turn of main: the first event, before it at most one command.       *)

Dies(v) == [v EXCEPT !.alive = FALSE]

\* handle_map_request: the attributes of a window that is gone cannot be had.
handle_map_request(v, w) ==
  IF w \notin xs.exists THEN {Dies(v)}
  ELSE IF w \in v.clients THEN {v}
  ELSE {manage(v, w, t) : t \in RuleTags(v, w)}

handle_enter_notify(v, w) == IF w \in v.clients THEN XFocus(v, w) ELSE v

\* start_mouse_move and start_mouse_resize ask for the geometry first.
StartDrag(v, w) ==
  IF w \notin xs.exists THEN Dies(v) ELSE v

handle_button_press(v, w, mod) ==
  IF w \notin v.clients THEN v
  ELSE IF mod THEN StartDrag(XFocus(v, w), w) ELSE XFocus(v, w)

\* What a key is bound to; Quit ends the process.
process_action(v, act) ==
  CASE act = "focus" -> {cycle_focus(v, up) : up \in BOOLEAN}
    [] act = "swap"  -> {move_stack(v, up) : up \in BOOLEAN}
    [] act = "quit"  -> {Dies(v)}

\* The scratchpad plug-in takes its key from the window manager.
handle_event(v, e) ==
  CASE e.type = "map"     -> handle_map_request(v, e.win)
    [] e.type \in {"unmap", "destroy"} -> {remove_window(v, e.win)}
    [] e.type = "enter"   -> {handle_enter_notify(v, e.win)}
    [] e.type \in {"click", "modclick"} -> {handle_button_press(v, e.win, e.type = "modclick")}
    [] e.type = "bar"     -> {BarTag(v, t) : t \in XTags}
    [] e.type = "scratch" -> {ScratchToggle(v)}
    [] OTHER              -> process_action(v, e.type)

\* A window that was managed, or asked for again, is mapped.
Mapped(v, e) ==
  IF e.type = "map" /\ v.alive THEN xs.mapped \cup {e.win} ELSE xs.mapped

Take == [sent |-> sock.sent, queue |-> Tail(sock.queue), done |-> Append(sock.done, Head(sock.queue))]

\* The scratchpad plug-in consumes its key before the IPC plug-in sees it.
Handle(e) ==
  LET command == e.type # "scratch" /\ sock.queue # << >>
      v == IF command THEN process_command(xw, Last(Take.done)) ELSE xw
  IN  /\ sock' = IF command THEN Take ELSE sock
      /\ \E after \in handle_event(v, e) :
           /\ xw' = after
           /\ xs' = [xs EXCEPT !.events = IF e.win = NoWin THEN @ ELSE Tail(@),
                              !.mapped = Mapped(after, e)]

\* The next event about a window, or one that names none and may come at any time.
XTurn ==
  \/ xs.events # << >> /\ Handle(Head(xs.events))
  \/ \E t \in {"bar", "focus", "swap", "scratch", "quit"} : Handle(Ev(t, NoWin))

\* What happens to windows after the end of the window manager concerns nobody here.
XNext ==
  /\ xw.alive
  /\ \/ \E w \in XWins : CreateWindow(w) \/ MapWindow(w) \/ UnmapWindow(w) \/ DestroyWindow(w)
     \/ PointWindow
     \/ \E c \in {"next", "size"} : Listener(c)
     \/ XTurn

XSpec == XInit /\ [][XNext]_xVars

-----------------------------------------------------------------------------
(* The map of clients and the list of the monitor hold the same windows,   *)
(* each once, and the selected window is one of them, whatever waits in    *)
(* the event queue (manage, remove_window, focus).                         *)
ClientsAgree ==
  /\ ToSet(xw.list) = xw.clients /\ Len(xw.list) = Cardinality(xw.clients)
  /\ xw.sel \in xw.clients \cup {NoWin}

(* A window that is managed is on the screen, or the notice that it is not *)
(* any more is on its way: no window stays in the list for good after its  *)
(* program closed it (handle_unmap_notify, handle_destroy_notify).         *)
NoGhosts ==
  xw.alive => \A w \in xw.clients :
     w \in xs.mapped \/ \E i \in DOMAIN xs.events :
                           xs.events[i] \in {Ev("unmap", w), Ev("destroy", w)}

(* The commands of the socket are executed in the order they were sent,    *)
(* each once (IpcPlugin::on_event).                                        *)
CommandsInOrder == sock.done \o sock.queue = sock.sent

(* The window manager does what its two masters ask: its list follows the   *)
(* windows of the server, whatever events still wait, and its commands come *)
(* from the socket in order (handle_event and IpcPlugin).                   *)
RequestsFollowed == ClientsAgree /\ NoGhosts /\ CommandsInOrder
=============================================================================
