------------------------------ MODULE TagCore ------------------------------
(***************************************************************************)
(* rwm-core's WmState and Monitor: clients on tags, the two views of the   *)
(* monitor, the focus and the stack of past foci, and the two programs     *)
(* that drive them: rwm (on RogueOS) and rwm-desktop (in a window of the   *)
(* host).  One action per key.  Where the windows go is in Layouts.        *)
(***************************************************************************)
EXTENDS Naturals, SequencesExt

CONSTANTS TagSet,          \* the tags, 1..n
          MaxTagClients,   \* bound: clients at a time
          TagPrograms      \* "rwm", "desktop"

VARIABLE ts

NoClient == 0
ClientIds == 1..MaxTagClients

Held(s) == Range(s.clients)

current_tags(s) == s.view[s.sel]

\* The clients of the monitor that the view shows, in their order.
VisibleOf(s) == SelectSeq(s.clients, LAMBDA c : s.tags[c] \cap current_tags(s) # {})

\* visible_tiled: what the layout gets.
TiledOf(s) == SelectSeq(VisibleOf(s), LAMBDA c : c \notin s.floating)

FirstOf(q) == IF q = << >> THEN NoClient ELSE Head(q)

\* focused = the first visible client, or none.
FocusFirst(s) == [s EXCEPT !.focused = FirstOf(VisibleOf(s))]

Without(q, c) == SelectSeq(q, LAMBDA d : d # c)

-----------------------------------------------------------------------------
(* WmState *)

add_client_tagged(s, c, tags) ==
    [s EXCEPT !.clients = Append(@, c), !.stack = <<c>> \o @, !.tags[c] = tags]

\* The focus goes to the top of the stack, shown or not.
remove_from_state(s, c) ==
    LET t == [s EXCEPT !.clients = Without(@, c), !.stack = Without(@, c), !.tags[c] = {},
                        !.floating = @ \ {c}]
    IN  [t EXCEPT !.focused = IF @ = c THEN FirstOf(t.stack) ELSE @]

\* The other view is selected, and set unless there is nothing to set it to.
view_tags(s, tags) ==
    IF tags = current_tags(s) THEN s
    ELSE [s EXCEPT !.sel = 1 - @, !.view[1 - s.sel] = IF tags = {} THEN @ ELSE tags]

toggle_view(s, t) ==
    LET new == (current_tags(s) \ {t}) \cup ({t} \ current_tags(s))
    IN  IF new = {} THEN s ELSE [s EXCEPT !.view[s.sel] = new]

tag_client(s, c, tags) == [s EXCEPT !.tags[c] = IF tags = {} THEN @ ELSE tags]

raise_in_stack(s, c) == [s EXCEPT !.stack = <<c>> \o Without(@, c)]

-----------------------------------------------------------------------------
(* The helpers that rwm and rwm-desktop share word for word. *)

focus_stack(s, forward) ==
    LET v == VisibleOf(s)
        n == Len(v)
        pos == IF \E i \in 1..n : v[i] = s.focused
               THEN CHOOSE i \in 1..n : v[i] = s.focused ELSE 1
        c == v[IF forward THEN (pos % n) + 1 ELSE ((pos + n - 2) % n) + 1]
    IN  IF n = 0 THEN s ELSE raise_in_stack([s EXCEPT !.focused = c], c)

ViewOneTag(s, t) == FocusFirst(view_tags(s, {t}))

\* MUTANT: the focus stays with the client that left.
MoveKeepsFocus(s, t) ==
    IF s.focused = NoClient THEN s ELSE tag_client(s, s.focused, {t})

MoveFocused(s, t) ==
    IF s.focused = NoClient THEN s ELSE FocusFirst(tag_client(s, s.focused, {t}))

(* rwm-desktop only *)

\* Mod+N: on the tags in view, with the focus; the stack has it on top already.
spawn_client(s, c) == [add_client_tagged(s, c, current_tags(s)) EXCEPT !.focused = c]

\* Mod+Enter: the tags of the master and of the other client change places.
ZoomTags(s) ==
    LET tiled == TiledOf(s)
        master == tiled[1]
        other == IF master = s.focused THEN tiled[2] ELSE s.focused
    IN  IF Len(tiled) < 2 \/ s.focused = NoClient THEN s
        ELSE [s EXCEPT !.tags[master] = s.tags[other], !.tags[other] = s.tags[master],
                       !.focused = other]

ToggleFloat(s) ==
    IF s.focused = NoClient THEN s
    ELSE [s EXCEPT !.floating = IF s.focused \in @ THEN @ \ {s.focused} ELSE @ \cup {s.focused}]

-----------------------------------------------------------------------------
\* Both start with one client per tag and tag 1 in both views.
TagInit ==
    \E p \in TagPrograms :
        LET n == Cardinality(TagSet)
            empty0 == [prog |-> p, clients |-> << >>, stack |-> << >>, focused |-> 1,
                       tags |-> [c \in ClientIds |-> {}], floating |-> {},
                       view |-> [i \in {0, 1} |-> {1}], sel |-> 0]
            made[k \in 0..n] == IF k = 0 THEN empty0 ELSE add_client_tagged(made[k - 1], k, {k})
        IN  ts = made[n]

KeyTagView == \E t \in TagSet : ts' = ViewOneTag(ts, t)
KeyTagMove == \E t \in TagSet : ts' = MoveFocused(ts, t)
KeyFocusStack == \E forward \in BOOLEAN : ts' = focus_stack(ts, forward)

OnDesktop == ts.prog = "desktop"

KeyViewAll == OnDesktop /\ ts' = view_tags(ts, TagSet)
KeyLastView == OnDesktop /\ ts' = [ts EXCEPT !.sel = 1 - @]
KeyToggleView == OnDesktop /\ \E t \in TagSet : ts' = toggle_view(ts, t)
KeyZoomTags == OnDesktop /\ ts' = ZoomTags(ts)
KeyFloat == OnDesktop /\ ts' = ToggleFloat(ts)
KeyCloseClient ==
    OnDesktop /\ ts.focused # NoClient /\ ts' = remove_from_state(ts, ts.focused)
\* A SlotMap key is never used twice: no list holds a removed one (StackMatches), so that
\* here it can be.
KeyNewClient ==
    /\ OnDesktop
    /\ \E c \in ClientIds \ Held(ts) :
         /\ \A d \in ClientIds \ Held(ts) : c <= d
         /\ ts' = spawn_client(ts, c)

TagNext ==
    \/ KeyTagView \/ KeyTagMove \/ KeyFocusStack
    \/ KeyViewAll \/ KeyLastView \/ KeyToggleView \/ KeyZoomTags \/ KeyFloat
    \/ KeyCloseClient \/ KeyNewClient

TagSpec == TagInit /\ [][TagNext]_ts

-----------------------------------------------------------------------------
(***************************************************************************)
(* The list of clients and the stack of foci hold the same clients, each   *)
(* once, and the focus is one of them or nobody: no key is left that       *)
(* remove_client took from the SlotMap.                                    *)
(***************************************************************************)
StackMatches ==
    /\ Range(ts.stack) = Held(ts)
    /\ Len(ts.stack) = Cardinality(Held(ts)) /\ Len(ts.clients) = Cardinality(Held(ts))
    /\ ts.focused \in Held(ts) \cup {NoClient}

(***************************************************************************)
(* Every client keeps a tag and both views keep one, so that every client  *)
(* can be brought back by some key (toggle_view and tag_client refuse the  *)
(* empty set; zoom exchanges what others have).                            *)
(***************************************************************************)
NobodyOutOfReach ==
    /\ \A c \in Held(ts) : ts.tags[c] # {}
    /\ ts.view[0] # {} /\ ts.view[1] # {}

(***************************************************************************)
(* In rwm the focus is on a client in view whenever one is in view, after  *)
(* any keys: view_tag and move_to_tag choose anew.  (In rwm-desktop it may *)
(* stay on a hidden client: Mod+Tab, Mod+Ctrl+n and Mod+Shift+C do not.)   *)
(***************************************************************************)
FocusInView ==
    ts.prog = "rwm" =>
        IF VisibleOf(ts) = << >> THEN ts.focused = NoClient
        ELSE ts.focused \in Range(VisibleOf(ts))

\* The three places that hold clients agree, and every client can be shown and
\* focused, after any keys of the two programs.
ClientsReachable == StackMatches /\ NobodyOutOfReach /\ FocusInView
=============================================================================
