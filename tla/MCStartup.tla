----------------------------- MODULE MCStartup -----------------------------
(* main, and writekeymap, which it calls once: a behaviour is one of main, *)
(* or of a keymap alone; the other variables stay as they began.           *)
EXTENDS Main, Keymap

VARIABLE part    \* the one that runs

ASSUME KeymapAssumption

MCInit == part \in {"main", "keymap"} /\ MainInit /\ KeymapInit

MCNext ==
  /\ UNCHANGED part
  /\ \/ part = "main" /\ MainNext /\ UNCHANGED keymapv
     \/ part = "keymap" /\ KeymapNext /\ UNCHANGED mainv

MCSpec == MCInit /\ [][MCNext]_<<part, mainv, keymapv>>
=============================================================================
