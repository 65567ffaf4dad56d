------------------------------ MODULE MCBuddy ------------------------------
(***************************************************************************)
(* A region of ten pages, of which the initial block takes eight.          *)
(***************************************************************************)
EXTENDS Buddy
=============================================================================
