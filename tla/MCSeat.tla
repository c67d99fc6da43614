------------------------------ MODULE MCSeat -------------------------------
(* The parts of the seat, Pointer and Kbd, over windows w1 and w2 of one   *)
(* client and w3 of another, with a pointer and a keyboard each, and the   *)
(* text of the keyboard's messages, KbdText.  A behaviour is one of the    *)
(* mouse, of the keyboard, or of the text; the other variables stay as     *)
(* they began.  Replies out of order are for two windows and one keyboard, *)
(* without modifiers.                                                      *)
EXTENDS Pointer, Kbd, KbdText

CONSTANTS w1, w2, w3, p1, p2, k1, k2, x, y, shift

MCOwner == [r \in {w1, w2, w3, p1, p2, k1, k2} |->
              IF r \in {w3, p2, k2} THEN "b" ELSE "a"]

MCModBit == [r \in {shift} |-> 0]

(* On both sides of each length of UTF-8 and of the surrogates.            *)
MCRunes == {127, 128, 2048, 55295, 65536, 1114111}

(* One cut short, a surrogate, and one beyond the runes.                   *)
MCBad == {<<195>>, <<237, 160, 128>>, <<244, 144, 128, 128>>}

VARIABLE part    \* which of them runs

ASSUME PointerAssumption /\ KbdAssumption /\ KbdTextAssumption

mousev == <<button, ptr, mactive, mfocus, mriov, mclientv>>
kbdv == <<keys, kbds, active, focus, mods, riov, clientv, orderly>>

MCInit ==
  /\ part \in {"mouse", "kbd", "text"}
  /\ MInit /\ Init /\ (part # "kbd" => orderly)
  /\ IF part = "text" THEN TextInit
     ELSE sent = <<>> /\ reply = <<>> /\ pos = 1 /\ events = <<>>

Small ==
  IF orderly THEN pressed \subseteq {x, shift}
  ELSE win \subseteq {w1, w3} /\ kbds \subseteq {k1} /\ pressed \subseteq {x, y}

MCNext ==
  /\ UNCHANGED part
  /\ \/ part = "mouse" /\ MNext /\ UNCHANGED <<kbdv, textv>>
     \/ part = "kbd" /\ Next /\ Small' /\ UNCHANGED <<mousev, textv>>
     \/ part = "text" /\ TextNext /\ UNCHANGED <<win, current, mousev, kbdv>>

MCSpec ==
  MCInit /\ [][MCNext]_<<win, current, mousev, kbdv, textv, part>>

=============================================================================
