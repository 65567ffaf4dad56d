------------------------------- MODULE Terminal -------------------------------
(***************************************************************************)
(* The text screen of terminal.rs: the rows of CHAR_BUF, the line that is  *)
(* being typed, and the pixels the cursor is drawn on.  A printed line is  *)
(* the number of its turn, so the order of lines can be told; the line     *)
(* being typed is kept as its length, with the length the bottom row       *)
(* shows.                                                                  *)
(***************************************************************************)
EXTENDS Integers, Sequences, FiniteSets

CONSTANTS TermRows,   \* TERM_ROWS
          TermCols,   \* TERM_COLS
          MaxPrinted, \* bound on the lines printed
          Replies     \* numbers of lines a command may print

VARIABLES rows,       \* CHAR_BUF without the bottom row: numbers, 0 is blank
          prompt,     \* what the bottom row shows: a length, or blank
          cur,        \* CUR_ROW
          len,        \* LINE_LEN
          cursor,     \* the column render() drew the cursor at
          printed,    \* lines printed so far
          cleared     \* lines printed before the screen was cleared last

textVars == <<rows, prompt, cur, len, cursor, printed, cleared>>

Blank   == -1
MaxLine == TermCols - 2

Shown == [r |-> rows, c |-> cur, k |-> printed]

scroll_up(s) == [s EXCEPT !.r = [i \in 1..(TermRows - 1) |->
                    IF i < TermRows - 1 THEN s.r[i + 1] ELSE 0]]

(* MUTANT: the screen scrolls one line late. *)
PrintLate(s) ==
  LET t == IF s.c > TermRows - 1 THEN [scroll_up(s) EXCEPT !.c = TermRows - 2] ELSE s
  IN  [t EXCEPT !.r = [i \in 1..(TermRows - 1) |->
                          IF i = t.c + 1 THEN s.k + 1 ELSE t.r[i]],
                !.c = t.c + 1, !.k = @ + 1]

print_line(s) ==
  LET t == IF s.c >= TermRows - 1 THEN [scroll_up(s) EXCEPT !.c = TermRows - 2] ELSE s
  IN  [t EXCEPT !.r = [i \in 1..(TermRows - 1) |->
                          IF i = t.c + 1 THEN s.k + 1 ELSE t.r[i]],
                !.c = t.c + 1, !.k = @ + 1]

Lines(s, k) == LET f[n \in 0..k] == IF n = 0 THEN s ELSE print_line(f[n - 1])
               IN  f[k]

Wipe(s) == [s EXCEPT !.r = [i \in 1..(TermRows - 1) |-> 0], !.c = 0]

Show(s) == rows' = s.r /\ cur' = s.c /\ printed' = s.k

(* show_prompt and render at the end of a key. *)
Typed(n) == len' = n /\ prompt' = n /\ cursor' = n + 2

TextInit ==
  /\ rows = [i \in 1..(TermRows - 1) |-> IF i = 1 THEN 1 ELSE 0]
  /\ cur = 1 /\ printed = 1 /\ cleared = 0
  /\ len = 0 /\ prompt = 0 /\ cursor = 2

(* ENTER: the line is printed, then what the command prints; "clear" wipes *)
(* the rows, the echo included.                                            *)
Enter(k) == /\ printed + 1 + k <= MaxPrinted
            /\ len = 0 => k = 0
            /\ Show(Lines(Shown, 1 + k))
            /\ Typed(0)
            /\ UNCHANGED cleared

EnterClear == /\ printed < MaxPrinted /\ len > 0
              /\ Show(Wipe(print_line(Shown)))
              /\ cleared' = printed + 1
              /\ Typed(0)

Backspace == /\ len > 0 /\ Typed(len - 1)
             /\ UNCHANGED <<rows, cur, printed, cleared>>

Char == /\ len < MaxLine /\ Typed(len + 1)
        /\ UNCHANGED <<rows, cur, printed, cleared>>

TextNext == \/ \E k \in Replies : Enter(k)
            \/ EnterClear \/ Backspace \/ Char

TextSpec == TextInit /\ [][TextNext]_textVars

-----------------------------------------------------------------------------
Capacity == TermRows - 1

(* The screen shows the last lines printed since it was cleared, oldest at *)
(* the top, without a hole, a repetition or a line lost before the screen  *)
(* is full (print_line with scroll_up at the boundary).                    *)
ScreenIsLog ==
  LET since == printed - cleared
      n     == IF since < Capacity THEN since ELSE Capacity
  IN  /\ cur = n
      /\ \A i \in 1..Capacity : rows[i] = IF i <= n THEN printed - n + i ELSE 0

CharW == 5
CharH == 8
Pad   == 4
PxW   == TermCols * CharW + Pad * 2
PxH   == TermRows * CharH + Pad * 2

(* render draws the cursor inside the pixel buffer, even with the line     *)
(* full, when its last pixel already belongs to the row below.             *)
CursorInBuffer ==
  LET cx == Pad + cursor * CharW
      cy == Pad + (TermRows - 1) * CharH + 6 + 1
  IN  /\ cy * PxW + cx + CharW <= PxW * PxH
      /\ cx + CharW <= PxW + 1

(* What the terminal shows: the end of its log, and a cursor in the buffer.  *)
TextShown == ScreenIsLog /\ CursorInBuffer
=============================================================================
