------------------------------ MODULE Keymap -------------------------------
(* writekeymap of src/keymap.c, which makes an XKB keymap of the lines of  *)
(* /dev/kbmap, for keymapinit of wl9.c or from the standard input for      *)
(* kbmaptoxkb.c.  A line is a level, a scan code and a rune.  Names of     *)
(* runes and of keys are the runes themselves.                             *)
EXTENDS Integers, Sequences, FiniteSets

CONSTANTS
  Levels, Scans, Runes,    \* of the lines
  MaxLines,                \* lines of a keymap
  FIRST                    \* keys there is room for at first; 128 in the code

KeymapAssumption ==
  /\ Levels \subseteq 0 .. 9 /\ Scans \subseteq 0 .. 255 /\ Runes \subseteq Nat
  /\ MaxLines \in Nat /\ FIRST \in Nat \ {0}

VARIABLES
  source,     \* "kbmap" or "stdin"
  lines,      \* what was read
  last,       \* the level and scan code of the last line
  keys,       \* scan, rune[0] and rune[1] of each key
  room,       \* of keys, in keys
  decl,       \* the keycodes written
  symbols,    \* the keys written: their names and symbols
  kpc,        \* "lines", "done", "failed", "abort" or "undefined"
  status      \* what the program exits with, or -1 if it goes on

keymapv == <<source, lines, last, keys, room, decl, symbols, kpc, status>>

KeymapInit ==
  /\ source \in {"kbmap", "stdin"} /\ lines = {} /\ last = <<-1, 0>>
  /\ keys = <<>> /\ room = 0 /\ decl = <<>> /\ symbols = <<>>
  /\ kpc = "lines" /\ status = -1

Max16 == 65535        \* a uint_least16_t
MaxRune == 1114111    \* 0x10FFFF

U16(n) == n % (Max16 + 1)

(* The levels that give a rune a key.                                      *)
KeyLevels == {0, 2, 5, 6}

(* A rune of more than 16 bits is never equal to one that was stored.      *)
DuplicateByScan(scan, rune) == \E i \in DOMAIN keys : keys[i].scan = scan

Duplicate(scan, rune) == \E i \in DOMAIN keys : keys[i].rune0 = rune

(* The array is there at first and grows at a power of two, but not at the *)
(* first one.                                                              *)
Grows == Len(keys) = 0 \/ (Len(keys) > FIRST /\ \E e \in 0 .. 16 : Len(keys) = 2^e)

RoomNow == IF Grows THEN (IF Len(keys) = 0 THEN FIRST ELSE 2 * Len(keys)) ELSE room

Key(scan, rune) == [scan |-> U16(scan), rune0 |-> U16(rune), rune1 |-> 0]

(* bsearch, which may miss a key if they are not sorted.                   *)
SortedKeys == \A i, j \in DOMAIN keys : i < j => keys[i].scan < keys[j].scan

Search(scan) ==
  LET found == {i \in DOMAIN keys : keys[i].scan = scan}
  IN  IF SortedKeys /\ found # {} THEN found ELSE found \cup {0}

Shifted(level, i, rune) ==
  IF i = 0 \/ level # 1 THEN keys ELSE [keys EXCEPT ![i].rune1 = U16(rune)]

(* One turn of writekeymap's loop.                                         *)
Line(level, scan, rune) ==
  /\ kpc = "lines" /\ Cardinality(lines) < MaxLines
  /\ source = "kbmap" => last[1] < level \/ (last[1] = level /\ last[2] < scan)
  /\ lines' = lines \cup {<<level, scan, rune>>} /\ last' = <<level, scan>>
  /\ \/ rune \notin 1 .. MaxRune /\ UNCHANGED <<keys, room, decl, kpc>>
     \/ /\ rune \in 1 .. MaxRune /\ level \notin KeyLevels
        /\ \E i \in Search(scan) : keys' = Shifted(level, i, rune)
        /\ UNCHANGED <<room, decl, kpc>>
     \/ /\ rune \in 1 .. MaxRune /\ level \in KeyLevels /\ Duplicate(scan, rune)
        /\ UNCHANGED <<keys, room, decl, kpc>>
     \/ /\ rune \in 1 .. MaxRune /\ level \in KeyLevels /\ ~ Duplicate(scan, rune)
        /\ Len(keys) < RoomNow
        /\ keys' = Append(keys, Key(scan, rune)) /\ room' = RoomNow
        /\ decl' = Append(decl, rune) /\ UNCHANGED kpc
     \/ /\ rune \in 1 .. MaxRune /\ level \in KeyLevels /\ ~ Duplicate(scan, rune)
        /\ Len(keys) >= RoomNow
        /\ kpc' = "undefined" /\ UNCHANGED <<keys, room, decl>>
  /\ UNCHANGED <<source, symbols, status>>

(* A read of kbmap, or of the standard input, fails, or realloc does.      *)
Fails ==
  /\ kpc' = "failed" /\ status' = IF source = "kbmap" THEN 1 ELSE 0

LineFails ==
  /\ kpc = "lines" /\ Fails
  /\ UNCHANGED <<source, lines, last, keys, room, decl, symbols>>

(* The symbols of a key; runetoxkb asserts that a rune is not 0.           *)
Symbols(k) ==
  IF k.rune1 # 0 /\ k.rune1 # k.rune0 THEN <<k.rune0, k.rune1>> ELSE <<k.rune0>>

(* The rest of writekeymap.  kbmaptoxkb exits with what the comparison of  *)
(* its result with 0 gives: 1 if all is well.                              *)
Lines ==
  /\ kpc = "lines"
  /\ IF \E i \in DOMAIN keys : keys[i].rune0 = 0
     THEN kpc' = "abort" /\ UNCHANGED <<symbols, status>>
     ELSE /\ symbols' = [i \in DOMAIN keys |-> <<keys[i].rune0, Symbols(keys[i])>>]
          /\ \/ kpc' = "done" /\ status' = IF source = "kbmap" THEN -1 ELSE 1
             \/ Fails
  /\ UNCHANGED <<source, lines, last, keys, room, decl>>

KeymapNext ==
  \/ \E level \in Levels, scan \in Scans, rune \in Runes : Line(level, scan, rune)
  \/ LineFails \/ Lines

KeymapSpec == KeymapInit /\ [][KeymapNext]_keymapv

-----------------------------------------------------------------------------
(* The runes that are to have a key, and the line each is taken from.      *)
Keyed == {l \in lines : l[1] \in {0, 2, 5, 6} /\ l[3] \in 1 .. Max16}

Earlier(l, m) == l[1] < m[1] \/ (l[1] = m[1] /\ l[2] < m[2])

FirstOf(rune) ==
  CHOOSE l \in Keyed : l[3] = rune /\ \A m \in Keyed : m[3] = rune => m = l \/ Earlier(l, m)

(* README.md: every entry of the tables 0, 2, 5 and 6 has a keycode, which *)
(* keys of the same rune share.                                            *)
EachHasKeycode ==
  /\ {decl[i] : i \in DOMAIN decl} = {l[3] : l \in Keyed}
  /\ \A i, j \in DOMAIN decl : i # j => decl[i] # decl[j]

(* README.md: there is a key for each keycode, of the right name.          *)
EachHasKey ==
  Len(symbols) = Len(decl)
    /\ \A i \in DOMAIN decl : symbols[i][1] = decl[i] /\ symbols[i][2][1] = decl[i]

(* README.md: the key has two levels if the first scan code of its rune is *)
(* not escaped and has an entry in table 1 as well.                        *)
ShiftOf(l) == {m[3] : m \in {n \in lines : l[1] = 0 /\ n[1] = 1 /\ n[2] = l[2]}}

EachHasShift ==
  \A i \in DOMAIN symbols :
    LET l == FirstOf(symbols[i][1])
        shift == (ShiftOf(l) \cap 1 .. Max16) \ {l[3]}
    IN  symbols[i][2] = IF shift = {} THEN <<l[3]>> ELSE <<l[3], CHOOSE r \in shift : TRUE>>

(* The keymap is the one that README.md describes: always, the keycodes,   *)
(* and for a file with its lines in order, as /dev/kbmap is, the shifted   *)
(* symbols, which are searched for in an array that is sorted only by this *)
(* order.  It is not for runes of more than 16 bits, which are cut off,    *)
(* and there the assertion fails for some of them.  No key is written past *)
(* the end of the array as long as there are no more than it has at first  *)
(* (keymap.c:193-196, 214, 258-290).                                       *)
KeymapAgrees ==
  LET short == \A l \in lines : l[3] <= Max16 \/ l[3] > MaxRune
  IN  /\ kpc = "done" /\ short =>
           /\ EachHasKeycode /\ EachHasKey
           /\ source = "kbmap" => EachHasShift
      /\ kpc = "abort" => ~ short
      /\ kpc = "undefined" => Len(keys) = FIRST
=============================================================================
