----------------------------- MODULE AsyncReads -----------------------------
(***************************************************************************)
(* What wl9.c expects of fsread with a tag, fsasync, fsdispatch and        *)
(* fsflush.  A reader is a callback with its argument: mouseread and       *)
(* kbdread of each window, wctlread, snarfget.  A reader that is armed is  *)
(* run once, after the server has answered and while no other reader runs, *)
(* unless it is cancelled first; a reader that is not armed never runs.    *)
(***************************************************************************)
EXTENDS Naturals

CONSTANTS
  Reader,
  None       \* no reader

VARIABLES
  armed,      \* readers with an outstanding read
  answered,   \* armed readers whose reply is on its way to them
  running     \* the reader whose callback is executing, or None

vars == <<armed, answered, running>>

Init == armed = {} /\ answered = {} /\ running = None

Arm(r) ==
  /\ r \notin armed
  /\ armed' = armed \cup {r}
  /\ UNCHANGED <<answered, running>>

Answer(r) ==
  /\ r \in armed \ answered
  /\ answered' = answered \cup {r}
  /\ UNCHANGED <<armed, running>>

(* Only the main loop dispatches, never a callback.                        *)
Fire(r) ==
  /\ running = None
  /\ r \in answered
  /\ armed' = armed \ {r}
  /\ answered' = answered \ {r}
  /\ running' = r

Finish ==
  /\ running # None
  /\ running' = None
  /\ UNCHANGED <<armed, answered>>

(* Whether or not the answer is already on its way.                        *)
Cancel(r) ==
  /\ running = None
  /\ r \in armed
  /\ armed' = armed \ {r}
  /\ answered' = answered \ {r}
  /\ UNCHANGED running

Next == Finish \/ \E r \in Reader : Arm(r) \/ Answer(r) \/ Fire(r) \/ Cancel(r)

Spec == Init /\ [][Next]_vars
=============================================================================
