---------------------------- MODULE CircularLog ----------------------------
(***************************************************************************)
(* What the row buffer of log2mem promises, with no rows, stores or        *)
(* threads: messages are numbered in the order they begin, message c goes  *)
(* to slot c % NumRows and takes the place of the message there, and parts *)
(* are added to a message whole, one at a time, for as long as they fit.   *)
(*                                                                         *)
(* The one thing it does not promise is the message in a slot that was     *)
(* taken again while an earlier message of the same slot was still being   *)
(* written: that message is Lost until the slot is next taken cleanly.     *)
(***************************************************************************)
EXTENDS Integers, Sequences

CONSTANTS
  NumRows,  \* messages the log keeps
  Room,     \* what one message may take
  Parts,    \* the parts a message is made of, each a sequence of cells
  Lost      \* stands for a message written by two writers at once

VARIABLES
  taken,    \* messages begun
  open,     \* the messages still being written
  kept      \* per slot the message kept there: the cells of its parts

lvars == <<taken, open, kept>>
Place(c) == c % NumRows

LogInit ==
  /\ taken = 0
  /\ open = {}
  /\ kept = [s \in 0 .. NumRows - 1 |-> <<>>]

\* The next message begins, in the place of the message NumRows before it.
Begin ==
  /\ taken' = taken + 1
  /\ open' = open \cup {taken}
  /\ kept' = [kept EXCEPT ![Place(taken)] =
       IF \E c \in open : Place(c) = Place(taken) THEN Lost ELSE <<>>]

\* A writer adds one part to its message.
Add(c, part) ==
  /\ c \in open
  /\ kept[Place(c)] # Lost
  /\ Len(kept[Place(c)]) + Len(part) <= Room
  /\ kept' = [kept EXCEPT ![Place(c)] = @ \o part]
  /\ UNCHANGED <<taken, open>>

End(c) ==
  /\ c \in open
  /\ open' = open \ {c}
  /\ UNCHANGED <<taken, kept>>

LogNext ==
  \/ Begin
  \/ \E c \in open : End(c) \/ \E part \in Parts : Add(c, part)

LogSpec == LogInit /\ [][LogNext]_lvars
=============================================================================
