-------------------------------- MODULE Seat --------------------------------
(* What the mouse and the keyboard of wl9.c have in common: the windows,   *)
(* the clients they are of, and which of them rio has made current.        *)

CONSTANTS
  Windows,    \* struct windows
  Owner       \* the client of each window, and of each resource of a seat

None == "none"

SeatAssumption == Windows \subseteq DOMAIN Owner /\ None \notin Windows

VARIABLES
  win,       \* windows that are there
  current    \* w->current
=============================================================================
