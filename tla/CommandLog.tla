----------------------------- MODULE CommandLog -----------------------------
(***************************************************************************)
(* What the operator may rely on when it sends a command: the console      *)
(* reads a log from which nothing gets lost, without the requests,         *)
(* offsets, batches and notices that stand between the two.                *)
(*                                                                         *)
(* The commands are obeyed one by one in the order they were sent.  A      *)
(* program that is started again goes back, to a command up to which all   *)
(* were obeyed before: it may obey some again, and skips none.             *)
(***************************************************************************)
EXTENDS Naturals, Sequences

CONSTANT Orders

VARIABLES
  log,     \* the commands sent
  next,    \* the command to obey next
  obeyed   \* the commands obeyed at least once

vars == <<log, next, obeyed>>

Init ==
  /\ log = <<>>
  /\ next = 1
  /\ obeyed = {}

Order(c) ==
  /\ log' = Append(log, c)
  /\ UNCHANGED <<next, obeyed>>

Comply ==
  /\ next \in DOMAIN log
  /\ next' = next + 1
  /\ obeyed' = obeyed \cup {next}
  /\ UNCHANGED log

StartAgain ==
  /\ \E n \in 1 .. next :
       /\ 1 .. n - 1 \subseteq obeyed
       /\ next' = n
  /\ UNCHANGED <<log, obeyed>>

Next == (\E c \in Orders : Order(c)) \/ Comply \/ StartAgain

Spec == Init /\ [][Next]_vars
=============================================================================
