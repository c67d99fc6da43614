-------------------------------- MODULE Kbd --------------------------------
(***************************************************************************)
(* The keyboard in wl9.c: kbdfocus, kbdevent, and the part of wctlread     *)
(* that follows rio's current window.                                      *)
(*                                                                         *)
(* rio has one current window, which gets the keys: a message k with the   *)
(* keys that are down, the new one last, or K with those that remain.  A   *)
(* reply waits until it is handled; what wl9 sends to a client is applied  *)
(* at once.                                                                *)
(***************************************************************************)
EXTENDS Seat, Integers, FiniteSets, Sequences, SequencesExt

CONSTANTS
  Keyboards,   \* wl_keyboard resources
  Keys,        \* runes of the keys
  ModBit,      \* the bit of each key that is a modifier
  MaxQueue     \* model bound: replies that wait

KbdAssumption ==
  /\ SeatAssumption /\ Keyboards \subseteq DOMAIN Owner
  /\ IsFiniteSet(Keys) /\ None \notin Keys /\ DOMAIN ModBit \subseteq Keys
  /\ MaxQueue \in Nat

VARIABLES
  keys,      \* w->keys
  kbds,      \* keyboards that are there
  active,    \* those on kbd.active
  focus,     \* kbd.focus
  mods,      \* kbd.mods
  input,     \* rio: the current window
  pressed,   \* rio: keys that are down
  queue,     \* rio: what the windows have not read yet
  inside,    \* clients: the surface that each keyboard entered last
  down,      \* clients: the keys each keyboard has down
  told,      \* clients: the modifiers each keyboard was told
  late,      \* keyboards made while their client had the focus
  orderly    \* of the behaviour: replies are handled in the order of the
             \* events, none is lost, and no key is down when a window
             \* stops being current

riov == <<input, pressed, queue>>
clientv == <<inside, down, told, late>>
vars == <<win, current, keys, kbds, active, focus, mods, riov, clientv, orderly>>

Init ==
  /\ win = {} /\ current = {} /\ keys = [w \in Windows |-> {}]
  /\ kbds = {} /\ active = {} /\ focus = None /\ mods = {}
  /\ input = None /\ pressed = {} /\ queue = <<>>
  /\ inside = [k \in Keyboards |-> None]
  /\ down = [k \in Keyboards |-> {}] /\ told = [k \in Keyboards |-> {}]
  /\ late = {} /\ orderly \in BOOLEAN

keymapmodRunes(ks) == ks

keymapmod(ks) == {ModBit[x] : x \in ks \cap DOMAIN ModBit}

OfWindow(w) == IF w = None THEN {} ELSE {k \in kbds : Owner[k] = Owner[w]}

(* Keyboards that get a leave when the focus moves to w.                   *)
LeftNone(w) == {}

Left(w) == IF focus \in {None, w} THEN {} ELSE active

(* kbd.active once w has the focus.                                        *)
ActiveIn(w) == IF focus = w THEN active ELSE (active \ Left(w)) \cup OfWindow(w)

(* kbdfocus: an enter has no keys, and no modifiers follow it.             *)
KbdFocus(w) ==
  LET entered == ActiveIn(w) \ (active \ Left(w))
  IN
  /\ active' = ActiveIn(w)
  /\ inside' = [k \in Keyboards |-> CASE k \in entered -> w
                                      [] k \in Left(w) \ entered -> None
                                      [] OTHER -> inside[k]]
  /\ down' = [k \in Keyboards |-> IF k \in Left(w) \cup entered THEN {} ELSE down[k]]
  /\ focus' = w

-----------------------------------------------------------------------------
NewWindow(w) ==
  /\ w \notin win
  /\ win' = win \cup {w}
  /\ UNCHANGED <<current, keys, kbds, active, focus, mods, riov, clientv>>

FocusStays(w) == FALSE

FocusGoes(w) == focus = w

(* The replies of a queue that are not for w.                              *)
Kept(q, w) ==
  LET kept[i \in 0 .. Len(q)] ==
        IF i = 0 THEN <<>>
        ELSE IF q[i].win = w THEN kept[i - 1] ELSE Append(kept[i - 1], q[i])
  IN  kept[Len(q)]

(* xdg_surface_destroy; the reads of w's files are flushed.                *)
DestroyWindow(w) ==
  /\ w \in win
  /\ orderly => /\ keys[w] = {} /\ (input = w => pressed = {})
                /\ \A i \in DOMAIN queue : queue[i].win # w
  /\ win' = win \ {w} /\ current' = current \ {w} /\ keys' = [keys EXCEPT ![w] = {}]
  /\ IF FocusGoes(w) THEN KbdFocus(None) ELSE UNCHANGED <<active, inside, down, focus>>
  /\ input' = IF input = w THEN None ELSE input
  /\ pressed' = IF input = w THEN {} ELSE pressed
  /\ queue' = Kept(queue, w)
  /\ UNCHANGED <<kbds, mods, told, late>>

HasKbd(k) == focus # None /\ Owner[k] = Owner[focus]

GetKeyboard(k) ==
  /\ k \notin kbds
  /\ kbds' = kbds \cup {k}
  /\ active' = IF HasKbd(k) THEN active \cup {k} ELSE active
  /\ late' = IF HasKbd(k) THEN late \cup {k} ELSE late
  /\ UNCHANGED <<win, current, keys, focus, mods, riov, inside, down, told>>

(* wl_keyboard.release *)
Release(k) ==
  /\ k \in kbds
  /\ kbds' = kbds \ {k} /\ active' = active \ {k} /\ late' = late \ {k}
  /\ inside' = [inside EXCEPT ![k] = None]
  /\ down' = [down EXCEPT ![k] = {}] /\ told' = [told EXCEPT ![k] = {}]
  /\ UNCHANGED <<win, current, keys, focus, mods, riov>>

-----------------------------------------------------------------------------
(* rio.                                                                    *)

Reply(file, w, ks, key, cur) ==
  [file |-> file, win |-> w, keys |-> ks, key |-> key, current |-> cur]

Press(key) ==
  /\ input # None /\ key \notin pressed /\ Len(queue) < MaxQueue
  /\ pressed' = pressed \cup {key}
  /\ queue' = Append(queue, Reply("k", input, pressed, key, TRUE))
  /\ UNCHANGED <<win, current, keys, kbds, active, focus, mods, input, clientv>>

ReleaseKey(key) ==
  /\ input # None /\ key \in pressed /\ Len(queue) < MaxQueue
  /\ pressed' = pressed \ {key}
  /\ queue' = Append(queue, Reply("K", input, pressed', None, TRUE))
  /\ UNCHANGED <<win, current, keys, kbds, active, focus, mods, input, clientv>>

(* Keys that are let go while no window has the input are told to nobody.  *)
SwitchInput(w) ==
  /\ w \in win \cup {None} /\ w # input /\ Len(queue) < MaxQueue
  /\ orderly => pressed = {}
  /\ input' = w
  /\ pressed' \in IF w = None THEN SUBSET pressed ELSE {pressed}
  /\ queue' = queue
       \o (IF input = None THEN <<>> ELSE <<Reply("wctl", input, {}, None, FALSE)>>)
       \o (IF w = None THEN <<>> ELSE <<Reply("wctl", w, {}, None, TRUE)>>)
  /\ UNCHANGED <<win, current, keys, kbds, active, focus, mods, clientv>>

(* Replies to reads of one file come in order.                             *)
SameFile(d, e) == d.win = e.win /\ (d.file = "wctl" <=> e.file = "wctl")

Ready ==
  {i \in DOMAIN queue :
    \A j \in 1 .. i - 1 : ~ orderly /\ ~ SameFile(queue[j], queue[i])}

-----------------------------------------------------------------------------
(* wctlread *)
WctlRead(w, cur) ==
  IF cur = (w \in current)
  THEN UNCHANGED <<current, active, inside, down, focus>>
  ELSE /\ current' = IF cur THEN current \cup {w} ELSE current \ {w}
       /\ IF cur THEN KbdFocus(w)
          ELSE IF FocusGoes(w) THEN KbdFocus(None)
          ELSE UNCHANGED <<active, inside, down, focus>>

HandleWctl(i) ==
  /\ queue[i].file = "wctl"
  /\ WctlRead(queue[i].win, queue[i].current)
  /\ queue' = RemoveAt(queue, i)
  /\ UNCHANGED <<win, keys, kbds, mods, input, pressed, told, late>>

(* wctlread returns before it looks at what is current: the window moved,  *)
(* and has no buffer to draw, or something failed.                         *)
WctlLost(i) ==
  /\ ~ orderly /\ queue[i].file = "wctl"
  /\ queue' = RemoveAt(queue, i)
  /\ UNCHANGED <<win, current, keys, kbds, active, focus, mods, input, pressed, clientv>>

ContinuesAnyPress(w, e) ==
  \/ e.file = "k"
  \/ e.keys \subseteq keys[w] /\ Cardinality(e.keys) = Cardinality(keys[w]) - 1

(* What w->keys and the message have to do with each other for a key event *)
(* to tell the difference: one key more, or one less.                      *)
Continues(w, e) ==
  IF e.file = "k" THEN e.keys = keys[w]
  ELSE e.keys \subseteq keys[w] /\ Cardinality(e.keys) = Cardinality(keys[w]) - 1

(* An enter for w, with the keys before the event.                         *)
NeedEnter(w, e) == focus # w \/ ~ Continues(w, e)

ModsBefore(e) == keymapmod(e.keys)

ModsAfter(e) == keymapmod(e.keys \cup {e.key})

ModsChangedBefore(e) == ModsBefore(e) # mods

(* The modifiers of the event are sent if they are not kbd.mods.           *)
ModsChanged(e) == ModsAfter(e) # mods

GoneNothing(w, e) == {}

(* The key that a release is of.                                           *)
Gone(w, e) == keys[w] \ e.keys

(* kbdevent: the focus moves, an enter says what was down before if w->keys *)
(* does not, and then the key and the modifiers are sent.                  *)
KbdEvent(w, e) ==
  LET press == e.file = "k"
      after == IF press THEN e.keys \cup {e.key} ELSE e.keys
      to == ActiveIn(w)
      enters == NeedEnter(w, e)
      base(k) == IF enters THEN e.keys ELSE down[k]
  IN
  /\ active' = to /\ focus' = w
  /\ inside' = [k \in Keyboards |-> CASE k \in to /\ enters -> w
                                      [] k \in Left(w) \ to -> None
                                      [] OTHER -> inside[k]]
  /\ down' = [k \in Keyboards |-> CASE k \in to /\ press -> base(k) \cup {e.key}
                                    [] k \in to /\ ~ press -> base(k) \ Gone(w, e)
                                    [] k \in Left(w) \ to -> {}
                                    [] OTHER -> down[k]]
  /\ told' = [k \in Keyboards |->
               CASE k \in to /\ ModsChanged(e) /\ (press \/ ~ enters) -> ModsAfter(e)
                 [] k \in to /\ enters /\ ~ (ModsChanged(e) /\ press) -> ModsBefore(e)
                 [] OTHER -> told[k]]
  /\ keys' = [keys EXCEPT ![w] = after]
  /\ mods' = keymapmod(after)

HandleKbd(i) ==
  /\ queue[i].file # "wctl"
  /\ KbdEvent(queue[i].win, queue[i])
  /\ queue' = RemoveAt(queue, i)
  /\ UNCHANGED <<win, current, kbds, input, pressed, late>>

Next ==
  /\ UNCHANGED orderly
  /\ \/ \E w \in Windows : NewWindow(w) \/ DestroyWindow(w)
     \/ \E w \in Windows \cup {None} : SwitchInput(w)
     \/ \E k \in Keyboards : GetKeyboard(k) \/ Release(k)
     \/ \E key \in Keys : Press(key) \/ ReleaseKey(key)
     \/ \E i \in Ready : HandleWctl(i) \/ WctlLost(i) \/ HandleKbd(i)

Spec == Init /\ [][Next]_vars

-----------------------------------------------------------------------------
Message ==
  [file : {"k"}, win : win, keys : SUBSET Keys, key : Keys, current : {TRUE}]
    \cup [file : {"K"}, win : win, keys : SUBSET Keys, key : {None}, current : {TRUE}]
    \cup [file : {"wctl"}, win : win, keys : {{}}, key : {None}, current : BOOLEAN]

Mods == {ModBit[x] : x \in DOMAIN ModBit}

TypeOK ==
  /\ win \subseteq Windows /\ current \subseteq win
  /\ keys \in [Windows -> SUBSET Keys]
  /\ active \subseteq kbds /\ kbds \subseteq Keyboards
  /\ focus \in Windows \cup {None} /\ input \in win \cup {None}
  /\ pressed \subseteq Keys
  /\ queue \in Seq(Message)
  /\ inside \in [Keyboards -> Windows \cup {None}]
  /\ down \in [Keyboards -> SUBSET Keys]
  /\ told \in [Keyboards -> SUBSET Mods] /\ mods \subseteq Mods
  /\ late \subseteq Keyboards /\ orderly \in BOOLEAN

(* The keyboards on kbd.active are those of the client in focus, and the   *)
(* focus is on a window that is there: a key never goes to another client, *)
(* in whatever order wctl and kbd replies come (wl9.c:354, 1329, 1529).    *)
ActiveIsFocus ==
  /\ focus \in win \cup {None}
  /\ active = OfWindow(focus)

(* A keyboard is inside exactly the surface in focus, unless it was made   *)
(* while its client had the focus (wl9.c:360, 372, 645).                   *)
InsideIsFocus ==
  \A k \in kbds \ late : inside[k] = IF k \in active THEN focus ELSE None

(* In order, the focus stays with rio's current window: a key that arrives *)
(* late does not take it back (wl9.c:618).                                 *)
FocusIsCurrent == focus # None => focus \in current

(* Keys go to the client of the window they are of and to no other         *)
(* (wl9.c:346-376, 618-657).                                               *)
FocusAgrees ==
  TypeOK /\ ActiveIsFocus /\ InsideIsFocus /\ (orderly => FocusIsCurrent)

(* No key is stuck: a client never has a key down that its window did not  *)
(* read as down, also when the focus moved by wctl and by keys, replies    *)
(* were lost, and w->keys was stale when the window got keys again         *)
(* (wl9.c:618-662).                                                        *)
NoStuckKeys == \A k \in active \ late : down[k] \subseteq keys[focus]

(* In order, and with no key down when the current window changes, a       *)
(* client has down just the keys that are down in the window, and has the  *)
(* modifiers that go with them, although those are only sent when they     *)
(* differ from those of the last event of any window (wl9.c:618-662).      *)
KeysAgree ==
  orderly => \A k \in active \ late :
    down[k] = keys[focus] /\ told[k] = keymapmod(keys[focus])
=============================================================================
