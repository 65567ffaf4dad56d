------------------------------- MODULE Desktop -------------------------------
(***************************************************************************)
(* The window manager wm.rs and its clients: terminals (terminal.rs) and   *)
(* applications that use the RDP library (rdp.rs).  They share nothing but *)
(* the message queues of the kernel: sys_ipc_send drops a message when the *)
(* queue of the receiver is full, and sys_ipc_recv returns at once whether *)
(* there is a message or not.  A client owns one surface, named by its     *)
(* pid.  Modifier keys are not kept: any chord may come at any time.       *)
(* Positions are left out; sizes are those of the layouts.                 *)
(***************************************************************************)
EXTENDS Layouts, FiniteSetsExt

CONSTANTS Terms,      \* processes that run terminal.rs
          Apps,       \* processes that use rdp.rs
          MaxWin,     \* MAX_WIN, window slots
          WmTags,     \* tag numbers
          IpcCap,     \* capacity of a message queue
          MaxInputs,  \* bound on the keys pressed
          MaxFrames   \* bound on the frames an application commits

VARIABLES wm,         \* the state of the window manager, its loop included
          cl,         \* the state of every client
          inbox,      \* the queues of the kernel
          lost,       \* a message to a live process was dropped
          inputs      \* keys pressed so far

deskVars == <<wm, cl, inbox, lost, inputs>>

ASSUME DeskAssumption == /\ MaxWin \in Nat \ {0} /\ IpcCap \in Nat \ {0}
                         /\ Terms \cap Apps = {}

Clients == Terms \cup Apps
WinIdx  == 0..(MaxWin - 1)
NoPid   == "none"
NoDrag  == -1
Zero    == <<0, 0>>

-----------------------------------------------------------------------------
(* Messages. *)

Live(p) == cl[p].st \notin {"off", "gone"}

Put(s, m) == IF Len(s) < IpcCap THEN Append(s, m) ELSE s

(* sys_ipc_send to a client, by the window manager. *)
SendTo(p, m) ==
  IF p \in Clients /\ Live(p)
    THEN /\ inbox' = [inbox EXCEPT ![p] = Put(@, m)]
         /\ lost' = (lost \/ Len(inbox[p]) >= IpcCap)
    ELSE UNCHANGED <<inbox, lost>>

Msg(t) == [type |-> t, size |-> Zero]
Sized(t, s) == [type |-> t, size |-> s]

(* A client takes a message, or none, from its queue and may send one to   *)
(* the window manager ("none" for no message).                             *)
Exchange(p, taken, t) ==
  LET mine == IF taken THEN Tail(inbox[p]) ELSE inbox[p]
      full == Len(inbox["wm"]) >= IpcCap
  IN  /\ inbox' = [inbox EXCEPT
             ![p] = mine,
             !["wm"] = IF t = "none" THEN @
                                     ELSE Put(@, [type |-> t, from |-> p])]
      /\ lost' = (lost \/ (t # "none" /\ full))

-----------------------------------------------------------------------------
(* Windows.  w is the record of the window manager, w.c its slots. *)

empty == [alive |-> FALSE, pid |-> NoPid, surface |-> FALSE, tags |-> {},
          floating |-> FALSE, fullscreen |-> FALSE,
          size |-> Zero, saved |-> Zero, notified |-> Zero]

sel_tags(w) == w.tagset[w.sel]

is_visible(w, i) == w.c[i].alive /\ w.c[i].tags \cap sel_tags(w) # {}

(* The visible window that comes first when walking by step from one slot  *)
(* to the next; the slot itself when none is visible.                      *)
FirstVisible(w, from, step) ==
  LET At(d) == (from + d * step + MaxWin * MaxWin) % MaxWin
      hits  == {d \in 1..MaxWin : is_visible(w, At(d))}
  IN  IF hits = {} THEN from
                   ELSE At(CHOOSE d \in hits : \A e \in hits : d <= e)

next_visible(w, from) == FirstVisible(w, from, 1)
prev_visible(w, from) == FirstVisible(w, from, -1)

visible_tiled(w) == {i \in WinIdx : is_visible(w, i) /\ ~w.c[i].floating
                                                     /\ ~w.c[i].fullscreen}

(* The place of a slot among the tiled ones, which stay in slot order. *)
Rank(T, i) == Cardinality({j \in T : j <= i})

(* A new client goes to the first free slot, or over the one after the     *)
(* focused slot when there is none.                                        *)
FreeSlots(w) == {i \in WinIdx : ~w.c[i].alive}

add_client_slot(w) ==
  IF FreeSlots(w) # {} THEN CHOOSE i \in FreeSlots(w) : \A j \in FreeSlots(w) : i <= j
                       ELSE (w.focused + 1) % MaxWin

add_client(w, pid, surface) ==
  LET i == add_client_slot(w)
  IN  [w EXCEPT !.c[i] = [empty EXCEPT !.alive = TRUE, !.tags = sel_tags(w),
                                       !.pid = pid, !.surface = surface],
                !.n = IF FreeSlots(w) # {} THEN @ + 1 ELSE @,
                !.focused = i]

(* MUTANT: the focus stays on the slot that was emptied. *)
RemoveKeepsFocus(w, i) == [w EXCEPT !.c[i] = empty, !.n = @ - 1]

remove_client(w, i) ==
  LET v == [w EXCEPT !.c[i] = empty, !.n = IF @ > 0 THEN @ - 1 ELSE @]
  IN  IF w.focused = i THEN [v EXCEPT !.focused = next_visible(v, i)] ELSE v

Refocus(w) == IF is_visible(w, w.focused) THEN w
              ELSE [w EXCEPT !.focused = next_visible(w, w.focused)]

(* Focused and first tiled window change places, but the tags stay where   *)
(* they were; with the first one focused, it changes with the second.      *)
zoom(w) ==
  LET T == visible_tiled(w)
      Nth(k) == CHOOSE i \in T : Rank(T, i) = k
      a == IF Nth(1) = w.focused THEN Nth(2) ELSE w.focused
      b == Nth(1)
  IN  IF Cardinality(T) < 2 THEN w
      ELSE [w EXCEPT !.c[a] = [w.c[b] EXCEPT !.tags = w.c[a].tags],
                     !.c[b] = [w.c[a] EXCEPT !.tags = w.c[b].tags],
                     !.focused = b]

view_tag(w, tags) ==
  Refocus([w EXCEPT !.sel = 1 - w.sel, !.tagset[1 - w.sel] = tags])

view_prev_tag(w) == Refocus([w EXCEPT !.sel = 1 - @])

toggle_client_tag(w, i, t) ==
  IF w.c[i].alive /\ SymDiff(w.c[i].tags, {t}) # {}
    THEN [w EXCEPT !.c[i].tags = SymDiff(@, {t})] ELSE w

move_to_tag(w, i, t) ==
  IF w.c[i].alive THEN [w EXCEPT !.c[i].tags = {t}] ELSE w

toggle_fullscreen(w, i) ==
  IF ~w.c[i].alive THEN w
  ELSE IF w.c[i].fullscreen
    THEN [w EXCEPT !.c[i].size = w.c[i].saved, !.c[i].fullscreen = FALSE]
    ELSE [w EXCEPT !.c[i].saved = w.c[i].size, !.c[i].fullscreen = TRUE,
                   !.c[i].size = <<ScreenW, ScreenH>>]

(* Also of a slot that is empty. *)
toggle_floating(w, i) == [w EXCEPT !.c[i].floating = ~@]

(* The sizes a layout gives to n tiled windows (nmaster, mfact, gaps and   *)
(* bar as at the start; LayoutKeys varies them).                           *)
TiledSizes ==
  [k \in Kinds |-> [n \in 0..MaxWin |->
     LET r == arrange(n, [kind |-> k, nmaster |-> 1, mfact |-> 55,
                          gaps |-> TRUE, bar |-> TRUE])
     IN  [i \in 1..n |-> <<Frame(r[i], 0).w, Frame(r[i], 0).h>>]]]

arrange_windows(w) ==
  LET T == visible_tiled(w)
  IN  [w EXCEPT !.c = [i \in WinIdx |->
         IF i \in T
           THEN [w.c[i] EXCEPT !.size = TiledSizes[w.layout][Cardinality(T)][Rank(T, i)]]
           ELSE w.c[i]]]

(* The size without border (2 pixels) and title bar (14 pixels). *)
content_dims(s) == <<AtLeast(s[1] - 4, 0), AtLeast(s[2] - 18, 0)>>

-----------------------------------------------------------------------------
(* The loop of the window manager: all messages, a key, a mouse event, and *)
(* a redraw if anything changed.  The redraw for the clock, which finds    *)
(* nothing to arrange and nobody to tell, is left out.                     *)

(* Slot i has a surface whose content size is not the one its client knows. *)
Moved(w, i) == /\ w.c[i].alive /\ w.c[i].pid # NoPid /\ w.c[i].surface
               /\ content_dims(w.c[i].size) # w.c[i].notified

(* Every client in a moved slot gets RDP_RESIZE.  The size counts as told  *)
(* whether or not the message was taken.                                   *)
notify_layout_changes(w) ==
  LET Of(p) == {i \in WinIdx : Moved(w, i) /\ w.c[i].pid = p}
      told  == {p \in Clients : Live(p) /\ Of(p) # {}}
      Size(p) == content_dims(w.c[CHOOSE i \in Of(p) : TRUE].size)
  IN  /\ wm' = [w EXCEPT !.c = [i \in WinIdx |->
             IF Moved(w, i)
               THEN [w.c[i] EXCEPT !.notified = content_dims(w.c[i].size)]
               ELSE w.c[i]]]
      /\ inbox' = [p \in DOMAIN inbox |->
             IF p \in told THEN Put(inbox[p], Sized("resize", Size(p)))
                           ELSE inbox[p]]
      /\ lost' = (lost \/ \E p \in told : Len(inbox[p]) >= IpcCap)

(* MUTANT: the clients are told before the windows are arranged. *)
DrawTellsFirst ==
  /\ wm.pc = "draw"
  /\ LET w == [wm EXCEPT !.pc = "ipc", !.redraw = FALSE]
     IN  IF wm.redraw
           THEN /\ wm' = arrange_windows([w EXCEPT !.c = [i \in WinIdx |->
                     IF Moved(w, i)
                       THEN [w.c[i] EXCEPT !.notified = content_dims(w.c[i].size)]
                       ELSE w.c[i]]])
                /\ UNCHANGED <<inbox, lost>>
           ELSE wm' = w /\ UNCHANGED <<inbox, lost>>
  /\ UNCHANGED <<cl, inputs>>

draw_scene ==
  /\ wm.pc = "draw"
  /\ LET w == [wm EXCEPT !.pc = "ipc", !.redraw = FALSE]
     IN  IF wm.redraw THEN \E v \in {arrange_windows(w)} : notify_layout_changes(v)
                      ELSE wm' = w /\ UNCHANGED <<inbox, lost>>
  /\ UNCHANGED <<cl, inputs>>

(* The slot a message of client p with its surface is about. *)
SlotOf(w, p) == {i \in WinIdx : w.c[i].alive /\ w.c[i].pid = p /\ w.c[i].surface}

Lowest(S) == CHOOSE i \in S : \A j \in S : i <= j

(* What is left of the queue of the window manager, and at most one reply. *)
Reply(p, ms) ==
  LET q == [inbox EXCEPT !["wm"] = Tail(@)]
  IN  IF Live(p) /\ ms # << >>
        THEN /\ inbox' = [q EXCEPT ![p] = Put(@, ms[1])]
             /\ lost' = (lost \/ Len(inbox[p]) >= IpcCap)
        ELSE inbox' = q /\ UNCHANGED lost

handle_connect(p) ==
  \E u \in {add_client(wm, p, TRUE)} : \E v \in {arrange_windows(u)} :
     LET d == content_dims(v.c[v.focused].size)
     IN  /\ wm' = [v EXCEPT !.c[v.focused].notified = d, !.redraw = TRUE]
         /\ Reply(p, <<Sized("grant", d)>>)

(* MUTANT: only the client that has the focus is answered. *)
CommitAnswersFocused(p) ==
  /\ wm' = [wm EXCEPT !.redraw = TRUE]
  /\ IF wm.focused \notin SlotOf(wm, p) THEN Reply(p, << >>)
                                        ELSE Reply(p, <<Msg("done")>>)

handle_commit(p) ==
  /\ wm' = [wm EXCEPT !.redraw = TRUE]
  /\ IF SlotOf(wm, p) = {} THEN Reply(p, << >>) ELSE Reply(p, <<Msg("done")>>)

handle_disconnect(p) ==
  /\ wm' = [(IF SlotOf(wm, p) = {} THEN wm
             ELSE remove_client(wm, Lowest(SlotOf(wm, p)))) EXCEPT !.redraw = TRUE]
  /\ Reply(p, << >>)

handle_ipc_msg ==
  /\ wm.pc = "ipc" /\ inbox["wm"] # << >>
  /\ LET m == Head(inbox["wm"])
     IN  \/ m.type = "connect"    /\ handle_connect(m.from)
         \/ m.type = "commit"     /\ handle_commit(m.from)
         \/ m.type = "disconnect" /\ handle_disconnect(m.from)
  /\ UNCHANGED <<cl, inputs>>

Drained == /\ wm.pc = "ipc" /\ inbox["wm"] = << >>
           /\ wm' = [wm EXCEPT !.pc = "key"]
           /\ UNCHANGED <<cl, inbox, lost, inputs>>

(* A chord that changes the windows to w: the keys bound with Mod. *)
Bound(w) ==
  /\ wm.pc = "key" /\ inputs < MaxInputs
  /\ wm' = [w EXCEPT !.pc = "mouse", !.redraw = TRUE]
  /\ inputs' = inputs + 1

KeyView == \/ \E t \in WmTags : Bound(view_tag(wm, {t}))
           \/ Bound(view_tag(wm, WmTags))
           \/ Bound(view_prev_tag(wm))

KeyFocus == \/ Bound([wm EXCEPT !.focused = next_visible(wm, @)])
            \/ Bound([wm EXCEPT !.focused = prev_visible(wm, @)])

KeyZoom == Bound(zoom(wm))

KeyTag == \E t \in WmTags : \/ Bound(move_to_tag(wm, wm.focused, t))
                            \/ Bound(toggle_client_tag(wm, wm.focused, t))

KeyToggle == \/ Bound(toggle_fullscreen(wm, wm.focused))
             \/ Bound(toggle_floating(wm, wm.focused))

Turn == <<"tile", "monocle", "grid", "bstack", "spiral", "dwindle", "centered">>

KeyLayout ==
  Bound([wm EXCEPT !.layout = Turn[((CHOOSE i \in 1..7 : Turn[i] = @) % 7) + 1]])

(* Mod+D: the spawned terminal gets a window of its own at once, without a *)
(* surface; when it connects it gets a second one.                         *)
KeySpawn ==
  \E p \in Terms : /\ cl[p].st = "off"
                   /\ Bound(add_client(wm, p, FALSE))
                   /\ cl' = [cl EXCEPT ![p].st = "start"]
                   /\ UNCHANGED <<inbox, lost>>

(* Mod+Shift+C. *)
KeyClose ==
  LET i == wm.focused
      c == wm.c[i]
  IN  IF c.alive /\ c.surface
        THEN Bound(wm) /\ SendTo(c.pid, Msg("close"))
        ELSE /\ Bound(IF c.alive THEN remove_client(wm, i) ELSE wm)
             /\ UNCHANGED <<inbox, lost>>

(* A key without a binding, and every release, goes to the focused client; *)
(* neither causes a redraw.                                                *)
KeyForward ==
  /\ wm.pc = "key" /\ inputs < MaxInputs
  /\ \E t \in {"key", "up"} :
       LET c == wm.c[wm.focused]
       IN  IF c.alive /\ c.surface THEN SendTo(c.pid, Msg(t))
                                   ELSE UNCHANGED <<inbox, lost>>
  /\ wm' = [wm EXCEPT !.pc = "mouse"]
  /\ inputs' = inputs + 1

handle_key ==
  \/ /\ KeyView \/ KeyFocus \/ KeyZoom \/ KeyTag \/ KeyToggle \/ KeyLayout
     /\ UNCHANGED <<cl, inbox, lost>>
  \/ KeySpawn
  \/ (KeyClose \/ KeyForward) /\ UNCHANGED cl

NoKey == /\ wm.pc = "key" /\ wm' = [wm EXCEPT !.pc = "mouse"]
         /\ UNCHANGED <<cl, inbox, lost, inputs>>

(* Press on a floating window, move with the button down, release. *)
handle_mouse ==
  /\ wm.pc = "mouse"
  /\ \/ \E i \in WinIdx :
          /\ is_visible(wm, i) /\ wm.c[i].floating /\ wm.drag = NoDrag
          /\ wm' = [wm EXCEPT !.drag = i, !.focused = i, !.redraw = TRUE,
                              !.pc = "draw"]
     \/ wm.drag # NoDrag /\ wm' = [wm EXCEPT !.redraw = TRUE, !.pc = "draw"]
     \/ wm.drag # NoDrag /\ wm' = [wm EXCEPT !.drag = NoDrag, !.pc = "draw"]
  /\ UNCHANGED <<cl, inbox, lost, inputs>>

NoMouse == /\ wm.pc = "mouse"
           /\ wm' = [wm EXCEPT !.pc = "draw"]
           /\ UNCHANGED <<cl, inbox, lost, inputs>>

WmTurn == handle_ipc_msg \/ Drained \/ NoKey \/ NoMouse \/ draw_scene

-----------------------------------------------------------------------------
(* terminal.rs. *)

Sets(p, st, pending, dirty) ==
  cl' = [cl EXCEPT ![p].st = st, ![p].pending = pending, ![p].dirty = dirty]

Leaves(p) == cl' = [cl EXCEPT ![p].st = "gone"]

(* A frame is sent when the screen changed and none is under way. *)
CommitTerm(p, taken) == /\ Sets(p, "run", TRUE, FALSE)
                        /\ Exchange(p, taken, "commit")

TermStart(p) == /\ cl[p].st = "start"
                /\ Sets(p, "wait", FALSE, FALSE)
                /\ Exchange(p, FALSE, "connect")

(* Two million polls for the grant; other messages are thrown away. *)
TermWait(p) ==
  /\ cl[p].st = "wait" /\ inbox[p] # << >>
  /\ IF Head(inbox[p]).type = "grant"
       THEN CommitTerm(p, TRUE)
       ELSE UNCHANGED cl /\ Exchange(p, TRUE, "none")

TermGiveUp(p) == /\ cl[p].st = "wait"
                 /\ Leaves(p) /\ Exchange(p, FALSE, "none")

(* Keys change the screen; ESC says goodbye, the command "exit" does not. *)
TermKey(p, taken) ==
  \/ Sets(p, "run", cl[p].pending, TRUE) /\ Exchange(p, taken, "none")
  \/ Leaves(p) /\ Exchange(p, taken, "disconnect")
  \/ Leaves(p) /\ Exchange(p, taken, "none")

TermMsg(p) ==
  /\ cl[p].st = "run" /\ inbox[p] # << >>
  /\ LET t == Head(inbox[p]).type
     IN  \/ t = "done" /\ IF cl[p].dirty
                            THEN CommitTerm(p, TRUE)
                            ELSE Sets(p, "run", FALSE, FALSE)
                                 /\ Exchange(p, TRUE, "none")
         \/ t = "key" /\ TermKey(p, TRUE)
         \/ t = "close" /\ Leaves(p) /\ Exchange(p, TRUE, "none")
         \/ t \in {"up", "resize", "grant"} /\ UNCHANGED cl
                                           /\ Exchange(p, TRUE, "none")

(* The terminal polls the keyboard too. *)
TermRawKey(p) == /\ cl[p].st = "run" /\ inbox[p] = << >> /\ inputs < MaxInputs
                 /\ TermKey(p, FALSE)

(* MUTANT: a changed screen is sent whatever is under way. *)
TermFlushAnyhow(p) == /\ cl[p].st = "run" /\ cl[p].dirty
                      /\ CommitTerm(p, FALSE)

TermFlush(p) == /\ cl[p].st = "run" /\ cl[p].dirty /\ ~cl[p].pending
                /\ inbox[p] = << >> /\ CommitTerm(p, FALSE)

-----------------------------------------------------------------------------
(* rdp.rs: the calls an application makes, in any order. *)

App(p, st, size) == cl' = [cl EXCEPT ![p].st = st, ![p].size = size]

(* connect: the request is sent, or there is no window. *)
AppConnect(p) ==
  /\ cl[p].st = "off"
  /\ IF Len(inbox["wm"]) < IpcCap
       THEN App(p, "wait", Zero) /\ Exchange(p, FALSE, "connect")
       ELSE Leaves(p) /\ UNCHANGED <<inbox, lost>>

AppWait(p) ==
  /\ cl[p].st = "wait" /\ inbox[p] # << >>
  /\ IF Head(inbox[p]).type = "grant"
       THEN App(p, "run", Head(inbox[p]).size)
       ELSE UNCHANGED cl
  /\ Exchange(p, TRUE, "none")

(* A resize changes the stored size; the rest goes to the application. *)
Resized(p) == IF Head(inbox[p]).type = "resize" THEN Head(inbox[p]).size
                                                ELSE cl[p].size

poll_event(p) == /\ cl[p].st = "run" /\ inbox[p] # << >>
                 /\ App(p, "run", Resized(p)) /\ Exchange(p, TRUE, "none")

commit(p) ==
  /\ cl[p].st = "run" /\ cl[p].frames < MaxFrames
  /\ cl' = [cl EXCEPT ![p].st = "commit", ![p].frames = @ + 1]
  /\ Exchange(p, FALSE, "commit")

(* Until RDP_PRESENT_DONE, or until there is no message: sys_ipc_recv      *)
(* answers SYSERR_AGAIN and the loop ends.  Keys and a request to close    *)
(* are thrown away.                                                        *)
wait_present_done(p) ==
  /\ cl[p].st = "commit"
  /\ IF inbox[p] = << >>
       THEN App(p, "run", cl[p].size) /\ UNCHANGED <<inbox, lost>>
       ELSE /\ App(p, IF Head(inbox[p]).type = "done" THEN "run" ELSE "commit",
                   Resized(p))
            /\ Exchange(p, TRUE, "none")

disconnect(p) == /\ cl[p].st = "run"
                 /\ Leaves(p) /\ Exchange(p, FALSE, "disconnect")

-----------------------------------------------------------------------------
DeskInit ==
  LET welcome == [empty EXCEPT !.alive = TRUE, !.tags = {1}]
  IN  /\ wm = arrange_windows(
                [c |-> [i \in WinIdx |-> IF i = 0 THEN welcome ELSE empty],
                 n |-> 1, focused |-> 0, tagset |-> [s \in {0, 1} |-> {1}],
                 sel |-> 0, layout |-> "tile", pc |-> "ipc", redraw |-> FALSE,
                 drag |-> NoDrag])
      /\ cl = [p \in Clients |->
                 [st |-> "off", pending |-> FALSE, dirty |-> FALSE,
                  size |-> Zero, frames |-> 0]]
      /\ inbox = [p \in Clients \cup {"wm"} |-> << >>]
      /\ lost = FALSE
      /\ inputs = 0

TermTurn(p) == TermStart(p) \/ TermWait(p) \/ TermMsg(p) \/ TermFlush(p)

DeskNext ==
  \/ WmTurn \/ handle_key \/ handle_mouse
  \/ \E p \in Terms : /\ TermTurn(p) \/ TermGiveUp(p)
                      /\ UNCHANGED <<wm, inputs>>
  \/ \E p \in Terms : TermRawKey(p) /\ inputs' = inputs + 1 /\ UNCHANGED wm
  \/ \E p \in Apps : /\ \/ AppConnect(p) \/ AppWait(p) \/ poll_event(p)
                        \/ commit(p) \/ wait_present_done(p) \/ disconnect(p)
                     /\ UNCHANGED <<wm, inputs>>

DeskSpec == DeskInit /\ [][DeskNext]_deskVars

(* The loops of the window manager and of the terminals never stop.  A     *)
(* terminal that waits for its grant may give up.                          *)
DeskFairness == /\ WF_deskVars(WmTurn)
                /\ \A p \in Terms : WF_deskVars(TermTurn(p) /\ UNCHANGED <<wm, inputs>>)

DeskFairSpec == DeskSpec /\ DeskFairness

-----------------------------------------------------------------------------
(* The count of windows is the number of slots in use, the focus is a slot *)
(* and no two slots hold the surface of one client (add_client and         *)
(* remove_client, with the slot that is overwritten when all are in use).  *)
WindowsCounted ==
  /\ wm.n = Cardinality({i \in WinIdx : wm.c[i].alive})
  /\ wm.focused \in WinIdx
  /\ \A p \in Clients : Cardinality(SlotOf(wm, p)) <= 1

Count(s, P(_)) == Cardinality({k \in DOMAIN s : P(s[k])})

(* Flow control of terminal.rs: however keys, answers and redraws          *)
(* interleave, a terminal has at most one frame under way, counting the    *)
(* requests it sent and the answers it has not read.                       *)
OneFrameInFlight ==
  \A p \in Terms :
     LET Mine(m) == m.type = "commit" /\ m.from = p
         Done(m) == m.type = "done"
         under   == Count(inbox["wm"], Mine) + Count(inbox[p], Done)
     IN  /\ under <= 1
         /\ (under = 1 /\ cl[p].st = "run") => cl[p].pending

(* The size an application has been told last: in its queue, or stored. *)
LastTold(p) ==
  LET news == {k \in DOMAIN inbox[p] : inbox[p][k].type \in {"grant", "resize"}}
  IN  IF news = {} THEN cl[p].size
      ELSE inbox[p][CHOOSE k \in news : \A j \in news : j <= k].size

(* After a redraw, unless a message was lost, every application knows the  *)
(* size of its window, whatever layout, tag, fullscreen or floating keys   *)
(* came between (notify_layout_changes against what rdp.rs stores).        *)
SizesAgree ==
  (wm.pc = "ipc" /\ ~wm.redraw /\ ~lost) =>
     \A p \in Apps : \A i \in SlotOf(wm, p) :
        Live(p) => LastTold(p) = content_dims(wm.c[i].size)

FocusShown(w) == (\E i \in WinIdx : is_visible(w, i)) => is_visible(w, w.focused)

Retagged == /\ wm'.focused = wm.focused /\ wm'.c[wm.focused].alive
            /\ wm'.c[wm.focused].tags # wm.c[wm.focused].tags

(* The focus leaves the visible windows only when the user gives the       *)
(* focused window other tags: closing, disconnecting, opening, zooming and *)
(* changing the view all keep it on a window that can be seen.             *)
FocusKept == [][FocusShown(wm) => (FocusShown(wm') \/ Retagged)]_deskVars

(* A frame a terminal sent is answered, unless a message was lost, the     *)
(* terminal left, or its window was given to another client.               *)
FramesAnswered ==
  \A p \in Terms :
     (cl[p].st = "run" /\ cl[p].pending)
        ~> (~cl[p].pending \/ cl[p].st = "gone" \/ lost \/ SlotOf(wm, p) = {})

(* The window table is consistent in itself and with its clients.            *)
WindowsAgree == WindowsCounted /\ SizesAgree
=============================================================================
