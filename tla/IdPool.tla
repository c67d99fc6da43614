------------------------------- MODULE IdPool -------------------------------
(***************************************************************************)
(* What the users of struct numtab rely on: a pool of small integers.      *)
(* fs.c draws 9P tags and fids from such pools and wl9.c draws image ids.  *)
(* An id is handed out to one holder at a time, the smallest free one      *)
(* first, and an id that is out can always be returned, and no other.      *)
(***************************************************************************)
EXTENDS Integers

VARIABLES
  out,    \* the ids that are handed out
  call,   \* the last call: the operation and its argument
  res     \* the value it returned

vars == <<out, call, res>>

Init ==
  /\ out = {}
  /\ call = [op |-> "none", num |-> 0]
  /\ res = 0

(* The smallest id that is not out.                                        *)
Get ==
  /\ call' = [op |-> "numget", num |-> 0]
  /\ res' \in Nat \ out
  /\ \A n \in 0 .. res' - 1 : n \in out
  /\ out' = out \cup {res'}

(* There is no memory to hand out another id.                              *)
GetFails ==
  /\ call' = [op |-> "numget", num |-> 0]
  /\ res' = -1
  /\ UNCHANGED out

Put ==
  /\ call' = [op |-> "numput", num |-> call'.num]
  /\ call'.num \in out
  /\ out' = out \ {call'.num}
  /\ res' = 0

PutRefused ==
  /\ call' = [op |-> "numput", num |-> call'.num]
  /\ call'.num \in Int \ out
  /\ res' = -1
  /\ UNCHANGED out

Next == Get \/ GetFails \/ Put \/ PutRefused

Spec == Init /\ [][Next]_vars
=============================================================================
