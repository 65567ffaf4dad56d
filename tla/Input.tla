------------------------------- MODULE Input -------------------------------
(***************************************************************************)
(* The PS/2 driver (kernel/arch/x86_64/ps2.rs), and the key and mouse      *)
(* queues (kernel/drivers/input.rs) with the calls that read them.         *)
(*                                                                         *)
(* Nothing here is driven by interrupts: a reader first drains the device, *)
(* then takes one event.  The controller delivers the bytes of keyboard    *)
(* and mouse in any interleaving; the two state machines of the driver are *)
(* disjoint, so that a poll is given by how many bytes of each it takes.   *)
(* Every key stroke and every mouse packet carries its number.             *)
(***************************************************************************)
EXTENDS Integers, Sequences, FiniteSets

CONSTANTS KeyQueueSize,   \* QUEUE_SIZE: room for one event less
          PollMax,        \* bytes taken by one poll_and_push
          MaxStrokes,     \* bound: key strokes
          MaxPackets,     \* bound: mouse packets
          MaxHeld         \* bound: bytes waiting in a device

\* Scan codes, as make codes without the break bit: one key of the plain table, one of
\* the extended table, Shift (plain only) and Super (extended only).
Bases == {"A", "UP", "SHIFT", "SUPER"}
PrefixByte == [base |-> "E0", brk |-> FALSE, num |-> 0]
IsExtendedKey(k) == k \in {"UP", "SUPER"}

VARIABLES kbdWire,   \* bytes waiting in the keyboard
          auxWire,   \* bytes waiting in the mouse
          ps2,       \* the statics of ps2.rs and input.rs
          held,      \* keys that are down
          strokes,   \* strokes so far
          packets,   \* mouse packets so far
          seen,      \* what the readers have got: keys, mouse events
          lateAck    \* whether the answer to "enable reporting" came after the wait for it

inVars == <<kbdWire, auxWire, ps2, held, strokes, packets, seen, lateAck>>

AckByte == [pkt |-> 0, part |-> 0, bit3 |-> TRUE]

\* After init and init_mouse.
InputInit ==
    /\ lateAck \in BOOLEAN
    /\ kbdWire = <<>>
    /\ auxWire = IF lateAck THEN <<AckByte>> ELSE <<>>
    /\ ps2 = [ext |-> FALSE, mods |-> {}, state |-> 0, bytes |-> <<AckByte, AckByte, AckByte>>,
              keys |-> <<>>, mice |-> <<>>, drops |-> 0]
    /\ held = {} /\ strokes = 0 /\ packets = 0
    /\ seen = [keys |-> <<>>, mice |-> <<>>]

-----------------------------------------------------------------------------
(* ps2.rs and input.rs                                                     *)

\* push_event and push_mouse_event on one queue: dropped when full.
push_event(s, f, ev) ==
    IF Len(s[f]) = KeyQueueSize - 1 THEN [s EXCEPT !.drops = @ + 1]
    ELSE [s EXCEPT ![f] = Append(@, ev)]

\* The two tables of process_scancode; 0 stands for a code in neither.
Keycode(ext, base) ==
    CASE ext /\ base \in {"UP", "SUPER"} -> base
      [] ~ext /\ base \in {"A", "SHIFT"} -> base
      [] OTHER -> "0"

\* Mutant of process_scancode: the prefix is kept.
ScancodeKeepsPrefix(s, b) ==
    LET k == Keycode(s.ext, b.base)
    IN  IF b.base = "E0" THEN [s EXCEPT !.ext = TRUE]
        ELSE IF k = "0" THEN s
        ELSE push_event(s, "keys", [key |-> k, pressed |-> ~b.brk, num |-> b.num])

process_scancode(s, b) ==
    LET k == Keycode(s.ext, b.base)
        t == [s EXCEPT !.ext = FALSE]
        u == IF k \notin {"SHIFT", "SUPER"} THEN t
             ELSE [t EXCEPT !.mods = IF b.brk THEN @ \ {k} ELSE @ \cup {k}]
    IN  IF b.base = "E0" THEN [s EXCEPT !.ext = TRUE]
        ELSE IF k = "0" THEN t
        ELSE push_event(u, "keys", [key |-> k, pressed |-> ~b.brk, num |-> b.num])

\* Three bytes make a packet; one whose first byte has no bit 3 is dropped whole.
process_mouse_byte(s, b) ==
    LET t == [s EXCEPT !.bytes[s.state + 1] = b]
        u == [t EXCEPT !.state = 0]
    IN  IF s.state < 2 THEN [t EXCEPT !.state = @ + 1]
        ELSE IF t.bytes[1].bit3 THEN push_event(u, "mice", t.bytes) ELSE u

\* poll_and_push: the driver after i bytes of the keyboard and j of the mouse.
poll_and_push(i, j) ==
    LET keyed[n \in 0..i] == IF n = 0 THEN ps2 ELSE process_scancode(keyed[n - 1], kbdWire[n])
        moved[n \in 0..j] == IF n = 0 THEN keyed[i] ELSE process_mouse_byte(moved[n - 1], auxWire[n])
    IN  moved[j]

\* sys_poll_input (f = "keys") and sys_poll_mouse (f = "mice"): drain, then pop one event.
Poll(f) ==
    \E i \in 0..Len(kbdWire), j \in 0..Len(auxWire) :
        LET s == poll_and_push(i, j)
        IN  /\ (i + j = PollMax \/ (i = Len(kbdWire) /\ j = Len(auxWire))) /\ i + j <= PollMax
            /\ kbdWire' = SubSeq(kbdWire, i + 1, Len(kbdWire))
            /\ auxWire' = SubSeq(auxWire, j + 1, Len(auxWire))
            /\ IF s[f] = <<>> THEN ps2' = s /\ seen' = seen
               ELSE /\ ps2' = [s EXCEPT ![f] = Tail(@)]
                    /\ seen' = [seen EXCEPT ![f] = Append(@, Head(s[f]))]
            /\ UNCHANGED <<held, strokes, packets, lateAck>>

sys_poll_input == Poll("keys")
sys_poll_mouse == Poll("mice")

-----------------------------------------------------------------------------
(* The devices: an extended key sends the prefix first.                    *)

Stroke(k) ==
    LET code == [base |-> k, brk |-> k \in held, num |-> strokes + 1]
        sent == IF IsExtendedKey(k) THEN <<PrefixByte, code>> ELSE <<code>>
    IN  /\ strokes < MaxStrokes /\ Len(kbdWire) + Len(sent) <= MaxHeld
        /\ strokes' = strokes + 1
        /\ kbdWire' = kbdWire \o sent
        /\ held' = IF k \in held THEN held \ {k} ELSE held \cup {k}
        /\ UNCHANGED <<auxWire, ps2, packets, seen, lateAck>>

\* A packet: bit 3 of the first byte is set, that of the movement bytes is anything.
MoveMouse(x, y) ==
    LET n == packets + 1
        bits == <<TRUE, x, y>>
    IN  /\ n <= MaxPackets /\ Len(auxWire) + 3 <= MaxHeld + 1
        /\ packets' = n
        /\ auxWire' = auxWire \o [p \in 1..3 |-> [pkt |-> n, part |-> p, bit3 |-> bits[p]]]
        /\ UNCHANGED <<kbdWire, ps2, held, strokes, seen, lateAck>>

InputNext ==
    \/ sys_poll_input \/ sys_poll_mouse
    \/ \E k \in Bases : Stroke(k)
    \/ \E x, y \in BOOLEAN : MoveMouse(x, y)

InputSpec == InputInit /\ [][InputNext]_inVars

-----------------------------------------------------------------------------
(***************************************************************************)
(* The events in the key queue and those delivered are strokes that were   *)
(* made, in the order they were made, each once; while nothing was dropped *)
(* none is missing in between, however the polls cut the byte stream       *)
(* (between the prefix and the code too).                                  *)
(***************************************************************************)
KeysFaithful ==
    LET all == seen.keys \o ps2.keys
    IN  /\ \A i, j \in DOMAIN all : i < j => all[i].num < all[j].num
        /\ ps2.drops = 0 => \A i \in DOMAIN all : all[i].num = i

DownFor(events) ==
    {k \in Bases : \E i \in DOMAIN events :
        /\ events[i].key = k /\ events[i].pressed
        /\ \A j \in DOMAIN events : events[j].key = k => j <= i}

(***************************************************************************)
(* Once both the keyboard and the queue are empty and no event was         *)
(* dropped, the keys that are down for a reader that has seen all events   *)
(* are the keys that are down.  (A dropped release would leave the window  *)
(* manager with a modifier that is stuck.)                                 *)
(***************************************************************************)
ReaderKnowsHeld == kbdWire = <<>> /\ ps2.keys = <<>> /\ ps2.drops = 0 => DownFor(seen.keys) = held

(***************************************************************************)
(* Every mouse event is made of the three bytes of one packet, unless the  *)
(* mouse answered "enable reporting" after init_mouse had stopped waiting: *)
(* the driver does not find its way back from that byte.                   *)
(***************************************************************************)
MouseFaithful ==
    ~lateAck => \A i \in DOMAIN (seen.mice \o ps2.mice) :
        LET e == (seen.mice \o ps2.mice)[i]
        IN  \A p \in 1..3 : e[p].part = p /\ e[p].pkt = e[1].pkt

\* The events of both devices are those that were made, although their bytes
\* come through one port and polls end anywhere (poll_keyboard_into_input).
InputFaithful == KeysFaithful /\ ReaderKnowsHeld /\ MouseFaithful
=============================================================================
