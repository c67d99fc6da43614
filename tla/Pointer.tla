------------------------------ MODULE Pointer ------------------------------
(***************************************************************************)
(* The mouse in wl9.c: mousefocus with its lists of active and inactive    *)
(* pointers, mouseread, and the windows that come, go and lose the input.  *)
(*                                                                         *)
(* rio gives the mouse to one window as long as a button is down.  Its     *)
(* events wait at each window; replies to reads of two windows are handled *)
(* in any order, for fsdispatch takes the last reply first.                *)
(***************************************************************************)
EXTENDS Seat, Integers, Sequences

CONSTANTS
  Pointers,   \* wl_pointer resources
  Buttons,    \* bits of the buttons
  MaxEvents   \* model bound: mouse events that wait at a window

PointerAssumption ==
  SeatAssumption /\ Pointers \subseteq DOMAIN Owner /\ MaxEvents \in Nat

VARIABLES
  button,    \* w->button
  ptr,       \* pointers that are there
  mactive,   \* those on mouse.active; the others are on mouse.inactive
  mfocus,    \* mouse.focus
  mqueue,    \* rio: for each window the buttons of events not read yet
  held,      \* rio: buttons that are down
  holder,    \* rio: the window that gets the mouse meanwhile
  minside,   \* clients: the surface that each pointer entered and did not leave
  mdown,     \* clients: the buttons pressed on each surface, by pointer
  mlate      \* pointers made while their client had the mouse or a button down

mriov == <<mqueue, held, holder>>
mclientv == <<minside, mdown, mlate>>
mvars == <<win, current, button, ptr, mactive, mfocus, mriov, mclientv>>

MInit ==
  /\ win = {} /\ current = {} /\ button = [w \in Windows |-> {}]
  /\ ptr = {} /\ mactive = {} /\ mfocus = None
  /\ mqueue = [w \in Windows |-> <<>>] /\ held = {} /\ holder = None
  /\ minside = [p \in Pointers |-> None]
  /\ mdown = [p \in Pointers |-> [w \in Windows |-> {}]] /\ mlate = {}

Of(client) == {p \in ptr : Owner[p] = client}

(* wl_pointers on the lists that belong to the window's client.            *)
MOfWindow(w) == IF w = None THEN {} ELSE Of(Owner[w])

MLeftNone == {}

(* Those that get a leave when the focus moves.                            *)
MLeft == IF mfocus = None THEN {} ELSE mactive

MouseFocus(w) ==
  LET entered == MOfWindow(w) \ (mactive \ MLeft)
  IN
  /\ mactive' = (mactive \ MLeft) \cup entered
  /\ minside' = [p \in Pointers |-> CASE p \in entered -> w
                                     [] p \in MLeft \ entered -> None
                                     [] OTHER -> minside[p]]
  /\ mfocus' = w

-----------------------------------------------------------------------------
MNewWindow(w) ==
  /\ w \notin win
  /\ win' = win \cup {w}
  /\ UNCHANGED <<current, button, ptr, mactive, mfocus, mriov, mclientv>>

MFocusStays(w) == FALSE

MFocusGoes(w) == mfocus = w

(* xdg_surface_destroy; the client forgets what it knew of the surface.    *)
MDestroyWindow(w) ==
  /\ w \in win
  /\ win' = win \ {w} /\ current' = current \ {w}
  /\ IF MFocusGoes(w) THEN MouseFocus(None) ELSE UNCHANGED <<mactive, minside, mfocus>>
  /\ button' = [button EXCEPT ![w] = {}]
  /\ mdown' = [p \in Pointers |-> [mdown[p] EXCEPT ![w] = {}]]
  /\ mqueue' = [mqueue EXCEPT ![w] = <<>>]
  /\ IF holder = w THEN held' = {} /\ holder' = None ELSE UNCHANGED <<held, holder>>
  /\ UNCHANGED <<ptr, mlate>>

(* wctlread: the window becomes the current one of rio, or stops being it. *)
GainCurrent(w) ==
  /\ w \in win \ current
  /\ current' = current \cup {w}
  /\ UNCHANGED <<win, button, ptr, mactive, mfocus, mriov, mclientv>>

LoseCurrent(w) ==
  /\ w \in win \cap current
  /\ current' = current \ {w}
  /\ IF mfocus = w THEN MouseFocus(None) ELSE UNCHANGED <<mactive, minside, mfocus>>
  /\ UNCHANGED <<win, button, ptr, mriov, mdown, mlate>>

HasMouse(p) == mfocus # None /\ Owner[p] = Owner[mfocus]

GetPointer(p) ==
  /\ p \notin ptr
  /\ ptr' = ptr \cup {p}
  /\ mactive' = IF HasMouse(p) THEN mactive \cup {p} ELSE mactive
  /\ mlate' = IF HasMouse(p) \/ \E w \in win : Owner[w] = Owner[p] /\ button[w] # {}
             THEN mlate \cup {p} ELSE mlate
  /\ UNCHANGED <<win, current, button, mfocus, mriov, minside, mdown>>

UnlinkedNot(p) == mactive

(* unlink_resource *)
Unlinked(p) == mactive \ {p}

(* wl_pointer.release *)
MRelease(p) ==
  /\ p \in ptr
  /\ ptr' = ptr \ {p} /\ mactive' = Unlinked(p)
  /\ minside' = [minside EXCEPT ![p] = None]
  /\ mdown' = [mdown EXCEPT ![p] = [w \in Windows |-> {}]]
  /\ mlate' = mlate \ {p}
  /\ UNCHANGED <<win, current, button, mfocus, mriov>>

(* rio: the mouse moves, or a button goes down or up.                      *)
MouseEvent(w, b) ==
  /\ w \in win /\ held # {} => w = holder
  /\ Len(mqueue[w]) < MaxEvents
  /\ mqueue' = [mqueue EXCEPT ![w] = Append(@, b)]
  /\ held' = b /\ holder' = IF b = {} THEN None ELSE w
  /\ UNCHANGED <<win, current, button, ptr, mactive, mfocus, mclientv>>

(* The buttons a client thinks are down, after w has read b.               *)
ToldPresses(w, b, was) == was \cup (b \ button[w])

Told(w, b, was) == (was \cup (b \ button[w])) \ (button[w] \ b)

(* mouseread.  A client takes an event for the surface its pointer is in.  *)
MouseRead(w) ==
  /\ w \in win /\ mqueue[w] # <<>>
  /\ LET b == Head(mqueue[w])
     IN  /\ IF mfocus # w THEN MouseFocus(w) ELSE UNCHANGED <<mactive, minside, mfocus>>
         /\ button' = [button EXCEPT ![w] = b]
         /\ mdown' = [p \in Pointers |->
                      IF p \in mactive' /\ minside'[p] # None
                      THEN [mdown[p] EXCEPT ![minside'[p]] = Told(w, b, @)]
                      ELSE mdown[p]]
  /\ mqueue' = [mqueue EXCEPT ![w] = Tail(@)]
  /\ UNCHANGED <<win, current, ptr, held, holder, mlate>>

MNext ==
  \/ \E w \in Windows : \/ MNewWindow(w) \/ MDestroyWindow(w)
                        \/ GainCurrent(w) \/ LoseCurrent(w) \/ MouseRead(w)
                        \/ \E b \in SUBSET Buttons : MouseEvent(w, b)
  \/ \E p \in Pointers : GetPointer(p) \/ MRelease(p)

MSpec == MInit /\ [][MNext]_mvars

-----------------------------------------------------------------------------
MTypeOK ==
  /\ win \subseteq Windows /\ current \subseteq win
  /\ button \in [Windows -> SUBSET Buttons]
  /\ mactive \subseteq ptr /\ ptr \subseteq Pointers
  /\ mfocus \in Windows \cup {None} /\ holder \in Windows \cup {None}
  /\ held \subseteq Buttons
  /\ mqueue \in [Windows -> Seq(SUBSET Buttons)]
  /\ minside \in [Pointers -> Windows \cup {None}]
  /\ mdown \in [Pointers -> [Windows -> SUBSET Buttons]]
  /\ mlate \subseteq Pointers

(* The pointers on mouse.active are those of the client in focus, whenever *)
(* they were made, and the focus is on a window that is there: an event    *)
(* never goes to another client (wl9.c:325, 335, 1507).                    *)
MActiveIsFocus ==
  /\ mfocus \in win \cup {None}
  /\ mactive = MOfWindow(mfocus)

(* A pointer is inside exactly the surface in focus: each enter is paired  *)
(* with a leave before the next, and before the surface goes.  A pointer   *)
(* made while its client has the mouse gets no enter (wl9.c:1508).         *)
MInsideIsFocus ==
  \A p \in ptr \ mlate : minside[p] = IF p \in mactive THEN mfocus ELSE None

(* Mouse events go to the client of the window they are of and to no other *)
(* (wl9.c:317-344, 543).                                                   *)
MFocusAgrees == MTypeOK /\ MActiveIsFocus /\ MInsideIsFocus

(* What a client counted from the presses and releases on a surface is     *)
(* what its window last read, also when the focus went away and came back  *)
(* while a button was down (wl9.c:543, 570).                               *)
ButtonsAgree ==
  \A p \in ptr \ mlate, w \in win : Owner[p] = Owner[w] => mdown[p][w] = button[w]

(* A client gets the mouse events of its own windows and of no other, each *)
(* for the surface the pointer was said to be in, and what it counts to be *)
(* down there is what the window last read (wl9.c:317-344, 543-570).       *)
MouseAgrees == MFocusAgrees /\ ButtonsAgree
=============================================================================
