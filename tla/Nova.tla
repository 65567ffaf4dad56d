-------------------------------- MODULE Nova --------------------------------
(***************************************************************************)
(* The Nova compositor (nova.rs) and the applications of the kapp library: *)
(* registration, the surface Nova makes for each client, focus, and the    *)
(* repainting of the screen.  rogue_ds.rs has the same handlers (without   *)
(* Mod+Backspace, Mod+F and Mod+Enter, which change no state kept here),   *)
(* so the module models both.  Both sides drop a message that finds the    *)
(* queue of the other full.  An application's queue is its length, with    *)
(* what it was last told about the focus; where windows go is in Layouts.  *)
(***************************************************************************)
EXTENDS Naturals, Sequences, FiniteSets

CONSTANTS NovaApps,      \* the pids of applications
          NovaSlots,     \* MAX_CLIENTS
          NovaTags,      \* the tags
          NovaCap,       \* IPC_QUEUE_LEN
          NovaSurfaces,  \* MAX_SURFACES of the kernel
          MaxSends       \* bound: messages of an application

VARIABLES nova,     \* slots, count, focus, view
          nbox,     \* Nova's queue
          apps,     \* the applications
          made,     \* surfaces that Nova created and nobody destroyed
          taken,    \* surfaces of applications
          tally     \* what happened: "lost", "full" (no slot), "silent" (focus moved untold)

novaVars == <<nova, nbox, apps, made, taken, tally>>

SlotIdx == 0..(NovaSlots - 1)
NoApp == "nobody"
FreeClient == [pid |-> NoApp, surf |-> 0, tags |-> {1}]

NovaInit ==
    /\ nova = [c |-> [i \in SlotIdx |-> FreeClient], n |-> 0, focused |-> 0, view |-> {1}]
    /\ nbox = << >>
    /\ apps = [p \in NovaApps |-> [st |-> "off", surf |-> FALSE, shown |-> FALSE,
                                   told |-> FALSE, box |-> 0, sends |-> 0]]
    /\ made = {} /\ taken = 0 /\ tally = {}

Alive(v, i) == v.c[i].pid # NoApp
ShownAt(v, i) == Alive(v, i) /\ v.c[i].tags \cap v.view # {}
AliveSlots(v) == {i \in SlotIdx : Alive(v, i)}

\* Distance from slot i to slot j, going up, 1..NovaSlots.
Ahead(i, j) == IF j > i THEN j - i ELSE j + NovaSlots - i

NextShown(v, from) ==
    LET s == {i \in SlotIdx : ShownAt(v, i)}
    IN  IF s = {} THEN from ELSE CHOOSE i \in s : \A j \in s : Ahead(from, i) <= Ahead(from, j)

PrevShown(v, from) ==
    LET s == {i \in SlotIdx : ShownAt(v, i)}
    IN  IF s = {} THEN from ELSE CHOOSE i \in s : \A j \in s : Ahead(i, from) <= Ahead(j, from)

-----------------------------------------------------------------------------
(* Sending: a = the applications after the message, or what was lost. *)

\* make_msg and sys_ipc_send to application p; told is what a focus message says.
SendApp(a, p, told) ==
    IF a[p].st = "gone" THEN a
    ELSE IF a[p].box = NovaCap THEN a
    ELSE [a EXCEPT ![p].box = @ + 1, ![p].told = told]

LostTo(a, p) == IF a[p].st # "gone" /\ a[p].box = NovaCap THEN {"lost"} ELSE {}

\* composite_frame: the background goes over everything; Nova's own surfaces have no
\* buffer, and the commit of one draws nothing.
composite_frame(a) == [p \in NovaApps |-> [a[p] EXCEPT !.shown = FALSE]]

-----------------------------------------------------------------------------
(* Nova *)

\* The first free slot, on the tags in view, with the focus.
NovaAdd(v, p, surf) ==
    LET i == CHOOSE i \in SlotIdx \ AliveSlots(v) : \A j \in SlotIdx \ AliveSlots(v) : i <= j
    IN  [v EXCEPT !.c[i] = [pid |-> p, surf |-> surf, tags |-> v.view], !.n = @ + 1, !.focused = i]

FirstSlotOf(v, p) ==
    CHOOSE i \in SlotIdx : v.c[i].pid = p /\ \A j \in SlotIdx : v.c[j].pid = p => i <= j

\* The surface of a new client; 0 when the kernel has none left.
NewSurface ==
    LET free == (1..NovaSurfaces) \ made
    IN  IF Cardinality(made) + taken >= NovaSurfaces THEN 0
        ELSE CHOOSE s \in free : \A t \in free : s <= t

\* Geometry, and the surface if there is one; both keep what was said of the focus.
Welcome(a, p, surf) ==
    LET one == SendApp(a, p, a[p].told)
    IN  IF surf = 0 THEN one ELSE SendApp(one, p, one[p].told)

WelcomeLost(a, p, surf) ==
    LostTo(a, p) \cup (IF surf = 0 THEN {} ELSE LostTo(SendApp(a, p, a[p].told), p))

HandleRegister(p) ==
    LET surf == NewSurface
    IN  /\ made' = IF surf = 0 THEN made ELSE made \cup {surf}
        /\ IF AliveSlots(nova) = SlotIdx
             THEN UNCHANGED <<nova, apps>> /\ tally' = tally \cup {"full"}
             ELSE /\ nova' = NovaAdd(nova, p, surf)
                  /\ apps' = composite_frame(Welcome(apps, p, surf))
                  /\ tally' = tally \cup WelcomeLost(apps, p, surf)
                                    \cup (IF \E q \in NovaApps : apps[q].told THEN {"silent"} ELSE {})
        /\ UNCHANGED taken

\* MUTANT: the surface outlives the client.
RemoveKeepsSurface(p) ==
    /\ IF p \in {nova.c[i].pid : i \in SlotIdx}
         THEN LET i == FirstSlotOf(nova, p)
                  v == [nova EXCEPT !.c[i] = FreeClient, !.n = @ - 1]
              IN  nova' = [v EXCEPT !.focused = IF @ = i THEN NextShown(v, i) ELSE @]
         ELSE nova' = nova
    /\ made' = made /\ apps' = composite_frame(apps)
    /\ UNCHANGED <<taken, tally>>

\* The first slot of the sender; the focus moves on without a word.
HandleUnregister(p) ==
    /\ IF p \in {nova.c[i].pid : i \in SlotIdx}
         THEN LET i == FirstSlotOf(nova, p)
                  v == [nova EXCEPT !.c[i] = FreeClient, !.n = @ - 1]
              IN  /\ nova' = [v EXCEPT !.focused = IF @ = i THEN NextShown(v, i) ELSE @]
                  /\ made' = made \ {nova.c[i].surf}
         ELSE UNCHANGED <<nova, made>>
    /\ apps' = composite_frame(apps)
    /\ UNCHANGED <<taken, tally>>

HandleCommit == /\ apps' = composite_frame(apps)
                /\ UNCHANGED <<nova, made, taken, tally>>

HandleTitle == UNCHANGED <<nova, apps, made, taken, tally>>

handle_ipc ==
    /\ nbox # << >> /\ nbox' = Tail(nbox)
    /\ LET m == Head(nbox)
       IN  \/ m.type = "register" /\ HandleRegister(m.pid)
           \/ m.type = "unregister" /\ HandleUnregister(m.pid)
           \/ m.type = "commit" /\ HandleCommit
           \/ m.type = "title" /\ HandleTitle

\* A shortcut is handled when the queue is empty, and repaints.
Shortcut(v, a) == /\ nbox = << >>
                  /\ nova' = v /\ apps' = composite_frame(a)
                  /\ UNCHANGED <<nbox, made, taken>>

\* Mod+1..9 and Mod+0; the focus stays where it is.
ViewKey == /\ \E s \in {{t} : t \in NovaTags} \cup {NovaTags} : Shortcut([nova EXCEPT !.view = s], apps)
           /\ UNCHANGED tally

\* focus: the old client is told that it lost the focus, the new one that it has it.
focus(i) ==
    LET old == nova.c[nova.focused].pid
        new == nova.c[i].pid
        leaves == nova.focused # i /\ old # NoApp
        a == IF leaves THEN SendApp(apps, old, FALSE) ELSE apps
    IN  /\ Shortcut([nova EXCEPT !.focused = i], IF Alive(nova, i) THEN SendApp(a, new, TRUE) ELSE a)
        /\ tally' = tally \cup (IF leaves THEN LostTo(apps, old) ELSE {})
                          \cup (IF Alive(nova, i) THEN LostTo(a, new) ELSE {})

FocusKey == focus(NextShown(nova, nova.focused)) \/ focus(PrevShown(nova, nova.focused))

\* Any other key goes to the client with the focus.
forward_key ==
    LET p == nova.c[nova.focused].pid
    IN  /\ nbox = << >> /\ p # NoApp /\ apps[p].st # "gone"
        /\ apps' = SendApp(apps, p, apps[p].told)
        /\ tally' = tally \cup LostTo(apps, p)
        /\ UNCHANGED <<nova, nbox, made, taken>>

-----------------------------------------------------------------------------
(* kapp *)

SendNova(p, type) ==
    nbox' = IF Len(nbox) < NovaCap THEN Append(nbox, [type |-> type, pid |-> p]) ELSE nbox

Sends(p, from) == apps[p].st \in from /\ apps[p].sends < MaxSends

\* App::new registers; App::register may be called again.
AppRegister(p) ==
    /\ Sends(p, {"off", "on"})
    /\ SendNova(p, "register")
    /\ apps' = [apps EXCEPT ![p].st = "on", ![p].sends = @ + 1]
    /\ UNCHANGED <<nova, made, taken, tally>>

\* Window::new: a surface of its own, attached, and the first notice.
WindowNew(p) ==
    /\ Sends(p, {"on"}) /\ ~apps[p].surf /\ Cardinality(made) + taken < NovaSurfaces
    /\ taken' = taken + 1
    /\ SendNova(p, "commit")
    /\ apps' = [apps EXCEPT ![p].surf = TRUE, ![p].sends = @ + 1]
    /\ UNCHANGED <<nova, made, tally>>

\* Window::commit: the kernel draws the pixels at once, then Nova is told.
WindowCommit(p) ==
    /\ Sends(p, {"on"}) /\ apps[p].surf
    /\ SendNova(p, "commit")
    /\ apps' = [apps EXCEPT ![p].shown = TRUE, ![p].sends = @ + 1]
    /\ UNCHANGED <<nova, made, taken, tally>>

SetTitle(p) ==
    /\ Sends(p, {"on"})
    /\ SendNova(p, "title")
    /\ apps' = [apps EXCEPT ![p].sends = @ + 1]
    /\ UNCHANGED <<nova, made, taken, tally>>

\* unregister, and the end of the program; or the end without it.
AppLeaves(p) ==
    /\ apps[p].st = "on"
    /\ apps' = [apps EXCEPT ![p].st = "gone", ![p].told = FALSE, ![p].box = 0]
    /\ SendNova(p, "unregister") \/ UNCHANGED nbox
    /\ UNCHANGED <<nova, made, taken, tally>>

\* poll_event and decode_event; a surface assignment reads as "no event".
AppPoll(p) ==
    /\ apps[p].st = "on" /\ apps[p].box > 0
    /\ apps' = [apps EXCEPT ![p].box = @ - 1]
    /\ UNCHANGED <<nova, nbox, made, taken, tally>>

NovaTurn == handle_ipc \/ ViewKey \/ FocusKey \/ forward_key

NovaNext ==
    \/ NovaTurn
    \/ \E p \in NovaApps :
         \/ AppRegister(p) \/ WindowNew(p) \/ WindowCommit(p) \/ SetTitle(p)
         \/ AppLeaves(p) \/ AppPoll(p)

NovaSpec == NovaInit /\ [][NovaNext]_novaVars

-----------------------------------------------------------------------------
(***************************************************************************)
(* Nova's books: n counts the live slots, every live slot has a surface of *)
(* its own (or none, when the kernel had none left), and every surface     *)
(* Nova made and did not destroy belongs to a live slot.  A registration   *)
(* that finds no slot is the exception: its surface is never destroyed.    *)
(***************************************************************************)
NovaBooks ==
    LET live == AliveSlots(nova)
        surfs == {nova.c[i].surf : i \in live} \ {0}
    IN  /\ nova.n = Cardinality(live)
        /\ surfs \subseteq made
        /\ \A i, j \in live : i # j /\ nova.c[i].surf # 0 => nova.c[i].surf # nova.c[j].surf
        /\ "full" \notin tally => made = surfs

(***************************************************************************)
(* Of the applications at most one was last told that it has the focus, as *)
(* long as no message was lost and nobody registered while another had it: *)
(* add_client takes the focus away without telling.                        *)
(***************************************************************************)
OneFocusTold ==
    tally \cap {"lost", "silent"} = {} => Cardinality({p \in NovaApps : apps[p].told}) <= 1

\* Nova agrees with the kernel about surfaces, and with the applications about
\* the focus.
NovaAgrees == NovaBooks /\ OneFocusTold
=============================================================================
