--------------------------------- MODULE Tty ---------------------------------
(***************************************************************************)
(* The serial terminal (kernel/drivers/tty.rs): a ring of unread bytes, an *)
(* echo, a backspace, and the two readers: read of fd 0 (sys_read in       *)
(* kernel/syscall/dispatcher/io.rs) and getline (the shell of              *)
(* kernel/init/main.rs).  A reader polls the line before every byte.       *)
(*                                                                         *)
(* A typed byte is its number and its kind; the display is the sequence of *)
(* the bytes that are visible, a backspace removing the last of them.      *)
(***************************************************************************)
EXTENDS Integers, Sequences

CONSTANTS TtyRing,      \* RING_SIZE: room for one byte less
          TtyCounts,    \* sizes of the reader's buffer
          TtyMaxTyped   \* bound: bytes typed

Kinds == {"char", "newline", "backspace", "control"}

VARIABLES line,     \* bytes in the serial port
          tty,      \* ring and display
          typed,    \* bytes typed so far
          reader,   \* the call in progress: which, its room, what it has
          given,    \* what the calls that returned have given
          slip      \* whether a backspace met more than one unread byte

ttyVars == <<line, tty, typed, reader, given, slip>>

NoCall == [call |-> "none", room |-> 0, got |-> <<>>]

\* After init.
TtyInit ==
    /\ line = <<>> /\ tty = [ring |-> <<>>, display |-> <<>>] /\ typed = 0
    /\ reader = NoCall /\ given = <<>> /\ slip = FALSE

\* ring_push: a full ring refuses; the caller sees that the ring did not change.
ring_push(ring, b) == IF Len(ring) = TtyRing - 1 THEN ring ELSE Append(ring, b)

\* Mutant of Discipline: a byte is echoed whether or not the ring takes it.
EchoAlways(t, b) ==
    CASE b.kind = "backspace" ->
            IF t.ring = <<>> THEN t
            ELSE [ring |-> Tail(t.ring), display |-> SubSeq(t.display, 1, Len(t.display) - 1)]
      [] b.kind = "control" -> t
      [] OTHER -> [ring |-> ring_push(t.ring, b), display |-> Append(t.display, b)]

\* One byte of poll: the discipline.  The backspace takes the OLDEST unread byte.
Discipline(t, b) ==
    CASE b.kind = "backspace" ->
            IF t.ring = <<>> THEN t
            ELSE [ring |-> Tail(t.ring), display |-> SubSeq(t.display, 1, Len(t.display) - 1)]
      [] b.kind = "control" -> t
      [] OTHER -> LET r == ring_push(t.ring, b)
                  IN  IF r = t.ring THEN t ELSE [ring |-> r, display |-> Append(t.display, b)]

\* poll: everything the port has.
poll ==
    LET after[n \in 0..Len(line)] == IF n = 0 THEN tty ELSE Discipline(after[n - 1], line[n])
    IN  after[Len(line)]

Slips ==
    LET after[n \in 0..Len(line)] == IF n = 0 THEN tty ELSE Discipline(after[n - 1], line[n])
    IN  \E n \in DOMAIN line : line[n].kind = "backspace" /\ Len(after[n - 1].ring) > 1

Type(kind) ==
    /\ typed < TtyMaxTyped
    /\ typed' = typed + 1
    /\ line' = Append(line, [num |-> typed + 1, kind |-> kind])
    /\ UNCHANGED <<tty, reader, given, slip>>

Call(c, n) ==
    /\ reader = NoCall
    /\ reader' = [call |-> c, room |-> n, got |-> <<>>]
    /\ UNCHANGED <<line, tty, typed, given, slip>>

Return(got) == reader' = NoCall /\ given' = Append(given, got)
Continue(got) == reader' = [reader EXCEPT !.got = got] /\ given' = given

\* One turn of the loop of sys_read: it returns at a newline, when the buffer is full, or
\* when nothing more is there and something was read.
ReadTurn ==
    /\ reader.call = "read"
    /\ slip' = (slip \/ Slips) /\ line' = <<>> /\ typed' = typed
    /\ \/ /\ poll.ring = <<>>
          /\ tty' = poll
          /\ IF reader.got = <<>> THEN Continue(<<>>) ELSE Return(reader.got)
       \/ /\ poll.ring # <<>>
          /\ tty' = [poll EXCEPT !.ring = Tail(@)]
          /\ LET b == Head(poll.ring)
                 got == Append(reader.got, b)
             IN  IF b.kind = "newline" \/ Len(got) = reader.room THEN Return(got) ELSE Continue(got)

\* Mutant of GetlineTurn: a newline is a byte like any other.
GetlineKeepsNewline ==
    /\ reader.call = "getline"
    /\ slip' = (slip \/ Slips) /\ line' = <<>> /\ typed' = typed
    /\ \/ poll.ring = <<>> /\ tty' = poll /\ Continue(reader.got)
       \/ /\ poll.ring # <<>>
          /\ tty' = [poll EXCEPT !.ring = Tail(@)]
          /\ LET got == Append(reader.got, Head(poll.ring))
             IN  IF Len(got) = reader.room THEN Return(got) ELSE Continue(got)

\* One turn of getline: it returns at a newline, which it takes, or when the buffer is full.
GetlineTurn ==
    /\ reader.call = "getline"
    /\ slip' = (slip \/ Slips) /\ line' = <<>> /\ typed' = typed
    /\ \/ poll.ring = <<>> /\ tty' = poll /\ Continue(reader.got)
       \/ /\ poll.ring # <<>>
          /\ tty' = [poll EXCEPT !.ring = Tail(@)]
          /\ LET b == Head(poll.ring)
                 got == Append(reader.got, b)
             IN  IF b.kind = "newline" \/ Len(got) = reader.room THEN Return(got) ELSE Continue(got)

TtyNext ==
    \/ \E kind \in Kinds : Type(kind)
    \/ \E n \in TtyCounts : Call("read", n) \/ Call("getline", n)
    \/ ReadTurn \/ GetlineTurn

TtySpec == TtyInit /\ [][TtyNext]_ttyVars /\ WF_ttyVars(ReadTurn) /\ WF_ttyVars(GetlineTurn)

-----------------------------------------------------------------------------
AllGiven ==
    LET upto[n \in 0..Len(given)] == IF n = 0 THEN <<>> ELSE upto[n - 1] \o given[n]
    IN  upto[Len(given)]

Delivered == AllGiven \o reader.got \o tty.ring

(***************************************************************************)
(* What is on the display is what the readers have got or will get: a byte *)
(* that finds the ring full is not echoed, and a backspace takes back both *)
(* or neither.  The exception is a backspace that meets more than one      *)
(* unread byte: the display loses the newest, the ring the oldest.         *)
(***************************************************************************)
EchoIsInput == ~slip => tty.display = Delivered

(***************************************************************************)
(* The readers get bytes in the order they were typed, each once.          *)
(***************************************************************************)
ReadInOrder == \A i, j \in DOMAIN Delivered : i < j => Delivered[i].num < Delivered[j].num

(***************************************************************************)
(* No call returns bytes beyond a newline, and none returns empty-handed.  *)
(***************************************************************************)
OneLinePerCall ==
    \A c \in DOMAIN given :
        given[c] # <<>> /\ \A i \in DOMAIN given[c] : given[c][i].kind = "newline" => i = Len(given[c])

\* What was typed and shown is what is read, in order and line by line
\* (poll of tty.rs, sys_read on the terminal and getline together).
TypedIsRead == EchoIsInput /\ ReadInOrder /\ OneLinePerCall

NewlineWaits == \E i \in DOMAIN tty.ring : tty.ring[i].kind = "newline"

(***************************************************************************)
(* Once the line is quiet, a call ends if a newline waits for it: the loop *)
(* spins in the kernel and lets nobody else run until then.  (A backspace  *)
(* that comes first may take the newline back.)                            *)
(***************************************************************************)
CallsReturn ==
    (reader.call # "none" /\ NewlineWaits /\ line = <<>> /\ typed = TtyMaxTyped) ~> reader.call = "none"
=============================================================================
