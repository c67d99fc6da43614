--------------------------- MODULE StartupProofs ---------------------------
(***************************************************************************)
(* Proofs about Main for any addresses, lengths of $wsys and bounds, and   *)
(* about Keymap for any levels, scan codes, runes and number of keys.      *)
(***************************************************************************)
EXTENDS Main, Keymap, SequenceTheorems, TLAPS

ClientsOK ==
  /\ conn \in [Addr -> {None, "launched", "other"}]
  /\ wins \in [Addr -> Nat]

(* The program has had no window yet while main knows its client.          *)
ChildOK ==
  child # None =>
    /\ child \in Addr /\ conn[child] = "launched" /\ wins[child] = 0
    /\ took = <<>>

BeforeLaunch ==
  mpc \in {"version", "setup", "launch"} =>
    child = None /\ took = <<>> /\ wins = [a \in Addr |-> 0]

TookOK == took \in {<<>>, << <<"launched", 1>> >>}

ChildInv == ClientsOK /\ ChildOK /\ BeforeLaunch /\ TookOK

-----------------------------------------------------------------------------
LEMMA ChildInit == MainInit => ChildInv
  BY DEF MainInit, ChildInv, ClientsOK, ChildOK, BeforeLaunch, TookOK

(* A client that goes takes its windows along, and is forgotten as child.  *)
LEMMA DestroyChild ==
  ASSUME ChildInv, NEW as, Destroy(as),
         mpc \notin {"version", "setup", "launch"},
         mpc' \notin {"version", "setup", "launch"}, took' = took
  PROVE  ChildInv'
<1> USE DEF ChildInv, Destroy
<1>1. ClientsOK'
  BY DEF ClientsOK
<1>2. ChildOK'
  BY DEF ChildOK, ChildDestroyed, ClientsOK
<1>3. BeforeLaunch' /\ TookOK'
  BY DEF BeforeLaunch, TookOK
<1>4. QED
  BY <1>1, <1>2, <1>3

(* Only the window of the child takes over, and then there is no child.    *)
LEMMA WinnewChild ==
  ASSUME ChildInv, NEW a \in Addr, NEW ok \in BOOLEAN, Winnew(a, ok)
  PROVE  ChildInv'
<1> USE DEF ChildInv, Winnew, Dispatching
<1>1. ClientsOK'
  BY DEF ClientsOK
<1>2. ChildOK' /\ TookOK'
  <2>1. CASE a = child
    <3>1. a # None
      BY MainAssumption
    <3>2. conn[a] = "launched" /\ wins[a] = 0 /\ took = <<>>
      BY <2>1, <3>1 DEF ChildOK
    <3>3. CASE ok
      <4>1. child' = None
        BY <2>1, <3>3 DEF ChildIsDone
      <4>2. took' = << <<"launched", 1>> >>
        BY <2>1, <3>2, <3>3
      <4>3. QED
        BY <4>1, <4>2 DEF ChildOK, TookOK
    <3>4. CASE ~ ok
      BY <2>1, <3>2, <3>4 DEF ChildOK, TookOK, ChildIsDone
    <3>5. QED
      BY <3>3, <3>4
  <2>2. CASE a # child
    BY <2>2 DEF ChildOK, TookOK, ClientsOK
  <2>3. QED
    BY <2>1, <2>2
<1>3. BeforeLaunch'
  BY DEF BeforeLaunch
<1>4. QED
  BY <1>1, <1>2, <1>3

LEMMA ChildStep == ChildInv /\ [MainNext]_mainv => ChildInv'
<1> SUFFICES ASSUME ChildInv, [MainNext]_mainv PROVE ChildInv'
  OBVIOUS
<1> USE DEF ChildInv
<1>1. CASE \E a \in Addr, ok \in BOOLEAN : Winnew(a, ok)
  BY <1>1, WinnewChild
<1>2. CASE FlushClients
  BY <1>2, DestroyChild DEF FlushClients
<1>3. CASE \E a \in Addr : Disconnected(a)
  BY <1>3, DestroyChild DEF Disconnected, Dispatching
<1>4. CASE \E a \in Addr : Launch(a)
  BY <1>4 DEF Launch, ClientsOK, ChildOK, BeforeLaunch, TookOK
<1>5. CASE \E a \in Addr : Connect(a)
  BY <1>5 DEF Connect, Dispatching, None, ClientsOK, ChildOK, BeforeLaunch, TookOK
<1>6. CASE \E a \in Addr : HangUp(a) \/ Request(a) \/ Reply9p(a)
  <2>1. UNCHANGED <<child, conn, wins, took>>
    BY <1>6 DEF HangUp, Request, Reply9p
  <2>2. mpc' = mpc \/ mpc' = "events"
    BY <1>6 DEF HangUp, Request, Reply9p, Dispatching
  <2>3. QED
    BY <2>1, <2>2 DEF ClientsOK, ChildOK, BeforeLaunch, TookOK
<1>7. CASE \E n \in PathLens : Setup(n)
  BY <1>7 DEF Setup, clientsv, ClientsOK, ChildOK, BeforeLaunch, TookOK
<1>8. CASE SetupFails \/ NoProgram \/ LaunchFails \/ Turn \/ DispatchReturns
  <2>1. UNCHANGED <<child, conn, wins, took>>
    BY <1>8 DEF SetupFails, NoProgram, LaunchFails, Turn, DispatchReturns, clientsv
  <2>2. mpc' \notin {"version", "setup", "launch"}
    BY <1>8 DEF SetupFails, NoProgram, LaunchFails, Turn, DispatchReturns
  <2>3. QED
    BY <2>1, <2>2 DEF ClientsOK, ChildOK, BeforeLaunch, TookOK
<1>9. CASE Fsinit
  BY <1>9 DEF Fsinit, clientsv, ClientsOK, ChildOK, BeforeLaunch, TookOK
<1>10. CASE UNCHANGED mainv
  BY <1>10 DEF mainv, clientsv, ClientsOK, ChildOK, BeforeLaunch, TookOK
<1>11. QED
  BY <1>1, <1>2, <1>3, <1>4, <1>5, <1>6, <1>7, <1>8, <1>9, <1>10 DEF MainNext

(* drawinit's window is only ever taken over by the first window of the    *)
(* program that wl9 launched (README.md:28; wl9.c:713-719).                *)
THEOREM ChildTakesOver == MainSpec => []OnlyChildTakesOver
<1>1. ChildInv => OnlyChildTakesOver
  BY DEF ChildInv, ChildOK, TookOK, OnlyChildTakesOver
<1>2. MainSpec => []ChildInv
  BY ChildInit, ChildStep, PTL DEF MainSpec
<1>3. QED
  BY <1>1, <1>2, PTL

-----------------------------------------------------------------------------
(* Start-up hands out the numbers in order, so that after each call it is  *)
(* known which fid is which, and it is an open that tells whether the walk *)
(* before it got to the end.                                               *)
Var == {"root", "env", "wsys", "snarf", "ctl", "data", "kbmap"}

LastCall == IF dflag THEN 12 ELSE 17

(* How many numbers are out before a call.                                 *)
Count ==
  CASE step = 1 -> 0
    [] step = 2 -> 1
    [] step \in 3 .. 5 -> 2
    [] step = 6 -> 3
    [] step \in 7 .. 8 -> 4
    [] step \in 9 .. 11 \/ (dflag /\ step > 11) -> 5
    [] step \in 12 .. 13 /\ ~ dflag -> 6
    [] step > 13 /\ ~ dflag -> 7

StepOK ==
  /\ dflag \in BOOLEAN
  /\ step \in 1 .. LastCall + 1
  /\ mpc \in {"version", "setup"} => step <= LastCall
  /\ Running => step = LastCall + 1

FidTypeOK ==
  /\ fid \in [Var -> 0 .. 6]
  /\ named \in [Fid -> Var \cup {None}]
  /\ opened \subseteq Fid
  /\ out = 0 .. Count - 1
  /\ \A f \in Fid : named[f] # None => f \in out

(* The variable x has the number f, from the call after walk on, and the   *)
(* file is open after the call open.                                       *)
Walked(x, f, walk, open) ==
  /\ step > walk => fid[x] = f /\ named[f] \in {x, None}
  /\ step > open => named[f] = x /\ f \in opened

FilesOK ==
  /\ step > 1 => fid["root"] = 0 /\ named[0] = "root"
  /\ step > 5 => fid["wsys"] = 2 /\ named[2] \in {"wsys", None}
  /\ Walked("snarf", 3, 6, 7)
  /\ ~ dflag => Walked("ctl", 4, 8, 9) /\ Walked("data", 5, 11, 12)
  /\ dflag /\ step > 8 => fid["kbmap"] = 4
  /\ ~ dflag /\ step > 13 => fid["kbmap"] = 6

SetupInv == StepOK /\ FidTypeOK /\ FilesOK

LEMMA SetupInit == MainInit => SetupInv
  BY DEF MainInit, SetupInv, StepOK, FidTypeOK, FilesOK, Walked, Count, LastCall, Var, Fid, Running

(* numget gives the smallest number.                                       *)
LEMMA NewFidIs ==
  ASSUME NEW k \in 0 .. 7, out = 0 .. k - 1
  PROVE  NewFid = k
<1>1. k \in Fid \ out /\ \A y \in Fid \ out : k <= y
  BY DEF Fid
<1>2. \A x \in Fid \ out : (\A y \in Fid \ out : x <= y) => x = k
  BY <1>1 DEF Fid
<1>3. QED
  BY <1>1, <1>2 DEF NewFid, Min

LEMMA CallsAre ==
  ASSUME NEW n \in Nat
  PROVE  /\ Len(Calls(n)) = LastCall
         /\ Calls(n)[1] = Call("attach", "root", None, 0)
         /\ Calls(n)[2] = Call("walk", "env", "root", 2)
         /\ Calls(n)[3] = Call("open", "env", None, 0)
         /\ Calls(n)[4] = Call("read", "env", None, 0)
         /\ Calls(n)[5] = Call("walk", "wsys", "root", n)
         /\ Calls(n)[6] = Call("walk", "snarf", "root", 2)
         /\ Calls(n)[7] = Call("open", "snarf", None, 0)
         /\ dflag => /\ Calls(n)[8] = Call("walk", "kbmap", "root", 2)
                     /\ Calls(n)[9] = Call("open", "kbmap", None, 0)
                     /\ Calls(n)[10] = Call("read", "kbmap", None, 0)
                     /\ Calls(n)[11] = Call("clunk", "kbmap", None, 0)
                     /\ Calls(n)[12] = Call("display", None, None, 0)
         /\ ~ dflag => /\ Calls(n)[8] = Call("walk", "ctl", "data", 3)
                       /\ Calls(n)[9] = Call("open", "ctl", None, 0)
                       /\ Calls(n)[10] = Call("read", "ctl", None, 0)
                       /\ Calls(n)[11] = Call("walk", "data", "root", 4)
                       /\ Calls(n)[12] = Call("open", "data", None, 0)
                       /\ Calls(n)[13] = Call("walk", "kbmap", "root", 2)
                       /\ Calls(n)[14] = Call("open", "kbmap", None, 0)
                       /\ Calls(n)[15] = Call("read", "kbmap", None, 0)
                       /\ Calls(n)[16] = Call("clunk", "kbmap", None, 0)
                       /\ Calls(n)[17] = Call("display", None, None, 0)
  BY SMT DEF Calls, Drawinit, LastCall

(* What each kind of call does, with the next number.                      *)
LEMMA AttachDoes ==
  ASSUME FidTypeOK, Count = 0, Works(Call("attach", "root", None, 0))
  PROVE  /\ fid' = [fid EXCEPT !["root"] = 0] /\ out' = 0 .. 0
         /\ named' = [named EXCEPT ![0] = "root"] /\ opened' = opened
<1>1. NewFid = 0 /\ out = {}
  BY NewFidIs DEF FidTypeOK
<1>2. QED
  BY <1>1 DEF Works, Call

LEMMA WalkDoes ==
  ASSUME FidTypeOK, NEW x \in Var, NEW from, NEW n, NEW k \in 0 .. 6, Count = k,
         Works(Call("walk", x, from, n))
  PROVE  /\ fid' = [fid EXCEPT ![x] = k] /\ out' = 0 .. k /\ opened' = opened
         /\ \E y \in {x, None} : named' = [named EXCEPT ![k] = y]
<1>0. k \in 0 .. 7 /\ out = 0 .. k - 1
  BY DEF FidTypeOK
<1>1. NewFid = k
  BY <1>0, NewFidIs
<1>2. out' = out \cup {k} /\ fid' = [fid EXCEPT ![x] = k] /\ opened' = opened
  BY <1>1 DEF Works, Call
<1>3. \E y \in {x, None} : named' = [named EXCEPT ![k] = y]
  BY <1>1 DEF Works, Call, WalkNames
<1>4. out' = 0 .. k
  BY <1>2 DEF FidTypeOK
<1>5. QED
  BY <1>2, <1>3, <1>4

LEMMA OpenDoes ==
  ASSUME NEW x \in Var, Works(Call("open", x, None, 0))
  PROVE  /\ named[fid[x]] # None /\ opened' = opened \cup {fid[x]}
         /\ UNCHANGED <<fid, out, named>>
  BY DEF Works, Call, OpenWorks

LEMMA ClunkDoes ==
  ASSUME Works(Call("clunk", "kbmap", None, 0))
  PROVE  /\ named' = [named EXCEPT ![fid["kbmap"]] = None]
         /\ opened' = opened \ {fid["kbmap"]} /\ UNCHANGED <<fid, out>>
  BY DEF Works, Call

LEMMA OthersDo ==
  ASSUME NEW x, NEW op \in {"read", "display"}, Works(Call(op, x, None, 0))
  PROVE  UNCHANGED <<fid, out, named, opened>>
  BY DEF Works, Call

(* One step for each call of main before its loop.                         *)
LEMMA SetupStep ==
  ASSUME SetupInv, NEW n \in PathLens, Setup(n)
  PROVE  SetupInv'
<1> USE DEF SetupInv
<1>1. n \in Nat /\ Works(Calls(n)[step])
  BY MainAssumption DEF Setup
<1>2. /\ step' = step + 1 /\ dflag' = dflag /\ mpc = "setup"
      /\ mpc' = IF step = LastCall THEN "launch" ELSE "setup"
  BY <1>1, CallsAre DEF Setup
<1> USE <1>1 DEF StepOK, FidTypeOK, FilesOK, Walked, Count, LastCall, Var, Fid, None,
               Running
<1>3. CASE step = 1
  <2>1. Works(Call("attach", "root", None, 0)) /\ Count = 0
    BY <1>3, CallsAre
  <2>2. QED
    BY <1>3, <1>2, <2>1, AttachDoes
<1>4. CASE step = 2
  <2>1. Works(Call("walk", "env", "root", 2)) /\ Count = 1
    BY <1>4, CallsAre
  <2>2. QED
    BY <1>4, <1>2, <2>1, WalkDoes
<1>5. CASE step = 3
  <2>1. Works(Call("open", "env", None, 0))
    BY <1>5, CallsAre
  <2>2. QED
    BY <1>5, <1>2, <2>1, OpenDoes
<1>6. CASE step = 4
  <2>1. Works(Call("read", "env", None, 0))
    BY <1>6, CallsAre
  <2>2. QED
    BY <1>6, <1>2, <2>1, OthersDo
<1>7. CASE step = 5
  <2>1. Works(Call("walk", "wsys", "root", n)) /\ Count = 2
    BY <1>7, CallsAre
  <2>2. QED
    BY <1>7, <1>2, <2>1, WalkDoes
<1>8. CASE step = 6
  <2>1. Works(Call("walk", "snarf", "root", 2)) /\ Count = 3
    BY <1>8, CallsAre
  <2>2. QED
    BY <1>8, <1>2, <2>1, WalkDoes
<1>9. CASE step = 7
  <2>1. Works(Call("open", "snarf", None, 0))
    BY <1>9, CallsAre
  <2>2. QED
    BY <1>9, <1>2, <2>1, OpenDoes
<1>10. CASE step = 8 /\ dflag
  <2>1. Works(Call("walk", "kbmap", "root", 2)) /\ Count = 4
    BY <1>10, CallsAre
  <2>2. QED
    BY <1>10, <1>2, <2>1, WalkDoes
<1>11. CASE step = 9 /\ dflag
  <2>1. Works(Call("open", "kbmap", None, 0))
    BY <1>11, CallsAre
  <2>2. QED
    BY <1>11, <1>2, <2>1, OpenDoes
<1>12. CASE step = 10 /\ dflag
  <2>1. Works(Call("read", "kbmap", None, 0))
    BY <1>12, CallsAre
  <2>2. QED
    BY <1>12, <1>2, <2>1, OthersDo
<1>13. CASE step = 11 /\ dflag
  <2>1. Works(Call("clunk", "kbmap", None, 0))
    BY <1>13, CallsAre
  <2>2. QED
    BY <1>13, <1>2, <2>1, ClunkDoes
<1>14. CASE step = 12 /\ dflag
  <2>1. Works(Call("display", None, None, 0))
    BY <1>14, CallsAre
  <2>2. QED
    BY <1>14, <1>2, <2>1, OthersDo
<1>15. CASE step = 8 /\ ~ dflag
  <2>1. Works(Call("walk", "ctl", "data", 3)) /\ Count = 4
    BY <1>15, CallsAre
  <2>2. QED
    BY <1>15, <1>2, <2>1, WalkDoes
<1>16. CASE step = 9 /\ ~ dflag
  <2>1. Works(Call("open", "ctl", None, 0))
    BY <1>16, CallsAre
  <2>2. QED
    BY <1>16, <1>2, <2>1, OpenDoes
<1>17. CASE step = 10 /\ ~ dflag
  <2>1. Works(Call("read", "ctl", None, 0))
    BY <1>17, CallsAre
  <2>2. QED
    BY <1>17, <1>2, <2>1, OthersDo
<1>18. CASE step = 11 /\ ~ dflag
  <2>1. Works(Call("walk", "data", "root", 4)) /\ Count = 5
    BY <1>18, CallsAre
  <2>2. QED
    BY <1>18, <1>2, <2>1, WalkDoes
<1>19. CASE step = 12 /\ ~ dflag
  <2>1. Works(Call("open", "data", None, 0))
    BY <1>19, CallsAre
  <2>2. QED
    BY <1>19, <1>2, <2>1, OpenDoes
<1>20. CASE step = 13 /\ ~ dflag
  <2>1. Works(Call("walk", "kbmap", "root", 2)) /\ Count = 6
    BY <1>20, CallsAre
  <2>2. QED
    BY <1>20, <1>2, <2>1, WalkDoes
<1>21. CASE step = 14 /\ ~ dflag
  <2>1. Works(Call("open", "kbmap", None, 0))
    BY <1>21, CallsAre
  <2>2. QED
    BY <1>21, <1>2, <2>1, OpenDoes
<1>22. CASE step = 15 /\ ~ dflag
  <2>1. Works(Call("read", "kbmap", None, 0))
    BY <1>22, CallsAre
  <2>2. QED
    BY <1>22, <1>2, <2>1, OthersDo
<1>23. CASE step = 16 /\ ~ dflag
  <2>1. Works(Call("clunk", "kbmap", None, 0))
    BY <1>23, CallsAre
  <2>2. QED
    BY <1>23, <1>2, <2>1, ClunkDoes
<1>24. CASE step = 17 /\ ~ dflag
  <2>1. Works(Call("display", None, None, 0))
    BY <1>24, CallsAre
  <2>2. QED
    BY <1>24, <1>2, <2>1, OthersDo
<1>25. step \in 1 .. LastCall
  BY <1>2
<1> HIDE DEF SetupInv, StepOK, FidTypeOK, FilesOK, Walked, Count, Running, Var, Fid
<1>26. QED
  BY <1>3, <1>4, <1>5, <1>6, <1>7, <1>8, <1>9, <1>10, <1>11, <1>12, <1>13, <1>14,
     <1>15, <1>16, <1>17, <1>18, <1>19, <1>20, <1>21, <1>22, <1>23, <1>24, <1>25

LEMMA SetupRest == SetupInv /\ [MainNext]_mainv => SetupInv'
<1> SUFFICES ASSUME SetupInv, [MainNext]_mainv PROVE SetupInv'
  OBVIOUS
<1>1. CASE \E n \in PathLens : Setup(n)
  BY <1>1, SetupStep
<1>2. CASE ~ \E n \in PathLens : Setup(n)
  <2>1. UNCHANGED <<dflag, step, fid, out, named, opened>>
    BY <1>2 DEF MainNext, mainv, setupv, Fsinit, SetupFails, NoProgram, LaunchFails, Turn,
       FlushClients, DispatchReturns, Launch, Connect, Disconnected, HangUp, Request,
       Reply9p, Winnew
  <2>2. /\ mpc' \in {"version", "setup"} => mpc \in {"version", "setup"}
        /\ Running' => Running
    BY <1>2 DEF MainNext, mainv, Fsinit, SetupFails, NoProgram, LaunchFails, Turn,
       FlushClients, Running, DispatchReturns, Launch, Connect, Disconnected, HangUp,
       Request, Reply9p, Winnew, Dispatching
  <2>3. LastCall' = LastCall /\ Count' = Count
    BY <2>1 DEF LastCall, Count
  <2>4. StepOK'
    BY <2>1, <2>2, <2>3 DEF SetupInv, StepOK
  <2>5. FidTypeOK'
    BY <2>1, <2>3 DEF SetupInv, FidTypeOK
  <2>6. FilesOK'
    BY <2>1 DEF SetupInv, FilesOK, Walked
  <2>7. QED
    BY <2>4, <2>5, <2>6 DEF SetupInv
<1>3. QED
  BY <1>1, <1>2

(* Whichever walks get only half way, main does not come to its loop with  *)
(* a fid that is not the file it should be, for any length of $wsys.       *)
THEOREM FidsAreReady == MainSpec => []FidsReady
<1>1. SetupInv => FidsReady
  BY SMTT(20) DEF SetupInv, StepOK, FidTypeOK, FilesOK, Walked, Count, LastCall, FidsReady, Names
<1>2. MainSpec => []SetupInv
  BY SetupInit, SetupRest, PTL DEF MainSpec
<1>3. QED
  BY <1>1, <1>2, PTL
-----------------------------------------------------------------------------
(* The keymap.                                                             *)

KeyType == [scan : 0 .. 255, rune0 : 0 .. Max16, rune1 : 0 .. Max16]

KeymapTypeOK ==
  /\ source \in {"kbmap", "stdin"}
  /\ lines \subseteq Levels \X Scans \X Runes
  /\ last \in Int \X Int
  /\ keys \in Seq(KeyType)
  /\ decl \in Seq(Runes) /\ Len(decl) = Len(keys)
  /\ kpc \in {"lines", "done", "failed", "abort", "undefined"}

(* The array never grows.                                                  *)
RoomOK == Len(keys) <= FIRST /\ room = (IF keys = <<>> THEN 0 ELSE FIRST)

(* The lines of a file have come in order, each of its own place.          *)
OrderOK ==
  source = "kbmap" =>
    /\ \A l \in lines : Earlier(l, last) \/ (l[1] = last[1] /\ l[2] = last[2])
    /\ \A l, m \in lines : l[1] = m[1] /\ l[2] = m[2] => l = m

Short == \A l \in lines : l[3] <= Max16 \/ l[3] > MaxRune

(* Each rune that is to have a key has one, and no other has.              *)
DeclOK ==
  /\ \A i \in DOMAIN keys : decl[i] = keys[i].rune0
  /\ \A i \in DOMAIN keys : \E l \in Keyed : l[3] = decl[i]
  /\ \A l \in Keyed : \E i \in DOMAIN keys : decl[i] = l[3]
  /\ \A i, j \in DOMAIN keys : decl[i] = decl[j] => i = j

IsFirst(l) == \A m \in Keyed : m[3] = l[3] => m = l \/ Earlier(l, m)

Shifts(l) == {n \in lines : n[1] = 1 /\ n[2] = l[2] /\ n[3] \in 1 .. Max16}

(* What key i has beside its rune is of the first line of this rune, l.    *)
MadeOf(i, l) ==
  /\ l[3] = decl[i] /\ l[2] = keys[i].scan /\ IsFirst(l)
  /\ keys[i].rune1 # 0 => l[1] = 0 /\ \E n \in Shifts(l) : n[3] = keys[i].rune1
  /\ l[1] = 0 => \A n \in Shifts(l) : n[3] = keys[i].rune1

MadeOK == \A i \in DOMAIN keys : \E l \in Keyed : MadeOf(i, l)

(* While lines of the first two tables come, bsearch finds what is there.  *)
SortOK == last[1] <= 1 => SortedKeys

KeysOK ==
  Short /\ kpc # "undefined" =>
    DeclOK /\ (source = "kbmap" => MadeOK /\ SortOK)

EndOK ==
  /\ kpc = "done" =>
       /\ symbols = [i \in DOMAIN keys |-> <<keys[i].rune0, Symbols(keys[i])>>]
       /\ \A i \in DOMAIN keys : keys[i].rune0 # 0
  /\ kpc = "abort" => ~ Short
  /\ kpc = "undefined" => Len(keys) = FIRST

KeymapInv == KeymapTypeOK /\ RoomOK /\ OrderOK /\ KeysOK /\ EndOK

LEMMA Limits == Max16 \in Nat /\ MaxRune \in Nat /\ 255 < Max16 /\ Max16 < MaxRune
  BY DEF Max16, MaxRune

LEMMA U16Is == \A n \in Nat : U16(n) \in 0 .. Max16 /\ (n <= Max16 => U16(n) = n)
<1> SUFFICES ASSUME NEW n \in Nat PROVE U16(n) \in 0 .. Max16 /\ (n <= Max16 => U16(n) = n)
  OBVIOUS
<1>1. U16(n) \in Nat /\ U16(n) < 65536 /\ (n < 65536 => U16(n) = n)
  BY DEF U16, Max16
<1>2. \A m \in Int : m < 65536 <=> m <= Max16
  BY DEF Max16
<1>3. U16(n) <= Max16 /\ (n <= Max16 => U16(n) = n)
  BY <1>1, <1>2
<1>4. QED
  BY <1>1, <1>3, Limits

LEMMA KeymapInitOK ==
  ASSUME KeymapAssumption, KeymapInit PROVE KeymapInv
<1> USE DEF KeymapInit
<1>1. KeymapTypeOK
  BY DEF KeymapTypeOK
<1>2. RoomOK /\ OrderOK /\ EndOK
  <2>1. FIRST \in Nat
    BY DEF KeymapAssumption
  <2>2. RoomOK
    BY <2>1 DEF RoomOK
  <2>3. OrderOK /\ EndOK
    BY DEF OrderOK, EndOK
  <2>4. QED
    BY <2>2, <2>3
<1>3. DOMAIN keys = {} /\ Keyed = {}
  BY DEF Keyed
<1>4. KeysOK
  BY <1>3 DEF KeysOK, DeclOK, MadeOK, SortOK, SortedKeys
<1>5. QED
  BY <1>1, <1>2, <1>4 DEF KeymapInv

(* A line that is read, after those of a file before it.                   *)
LEMMA LineReads ==
  ASSUME KeymapAssumption, KeymapInv, NEW level \in Levels, NEW scan \in Scans,
         NEW rune \in Runes, Line(level, scan, rune)
  PROVE  /\ level \in Int /\ scan \in 0 .. 255 /\ U16(scan) = scan /\ rune \in Nat
         /\ lines' \subseteq Levels \X Scans \X Runes /\ last' \in Int \X Int
         /\ source = "kbmap" =>
              /\ \A l \in lines : Earlier(l, <<level, scan, rune>>)
              /\ last[1] <= level
         /\ OrderOK'
<1> DEFINE new == <<level, scan, rune>>
<1>1. /\ level \in Int /\ scan \in 0 .. 255 /\ rune \in Nat
      /\ lines \subseteq Levels \X Scans \X Runes
  BY DEF KeymapAssumption, KeymapInv, KeymapTypeOK
<1>2. U16(scan) = scan
  BY <1>1, Limits, U16Is
<1>3. lines' = lines \cup {new} /\ last' = <<level, scan>> /\ source' = source
  BY DEF Line
<1>4. new \in Levels \X Scans \X Runes
  OBVIOUS
<1>5. \A l \in lines : l[1] \in Int /\ l[2] \in Int
  <2>1. Levels \subseteq Int /\ Scans \subseteq Int
    BY DEF KeymapAssumption
  <2>2. QED
    BY <1>1, <2>1
<1>6. last[1] \in Int /\ last[2] \in Int
  BY DEF KeymapInv, KeymapTypeOK
<1>7. ASSUME source = "kbmap"
      PROVE  (\A l \in lines : Earlier(l, new)) /\ last[1] <= level
  <2>1. last[1] < level \/ (last[1] = level /\ last[2] < scan)
    BY <1>7 DEF Line
  <2>2. new[1] = level /\ new[2] = scan
    OBVIOUS
  <2> HIDE DEF new
  <2>3. \A l \in lines : Earlier(l, last) \/ (l[1] = last[1] /\ l[2] = last[2])
    BY <1>7 DEF KeymapInv, OrderOK
  <2>4. QED
    BY <1>1, <1>5, <1>6, <2>1, <2>2, <2>3 DEF Earlier
<1>8. OrderOK'
  <2> SUFFICES ASSUME source = "kbmap"
               PROVE  /\ \A l \in lines' : Earlier(l, last') \/ (l[1] = last'[1] /\ l[2] = last'[2])
                      /\ \A l, m \in lines' : l[1] = m[1] /\ l[2] = m[2] => l = m
    BY <1>3 DEF OrderOK, Earlier
  <2>1. new[1] = level /\ new[2] = scan /\ last'[1] = level /\ last'[2] = scan
    BY <1>3
  <2>2. \A l \in lines : Earlier(l, new)
    BY <1>7
  <2> HIDE DEF new
  <2>3. \A l \in lines : ~ (l[1] = new[1] /\ l[2] = new[2])
    BY <1>1, <1>5, <2>1, <2>2 DEF Earlier
  <2>4. \A l, m \in lines : l[1] = m[1] /\ l[2] = m[2] => l = m
    BY DEF KeymapInv, OrderOK
  <2>5. \A l \in lines' : Earlier(l, last') \/ (l[1] = last'[1] /\ l[2] = last'[2])
    BY <1>3, <2>1, <2>2 DEF Earlier
  <2>6. \A l, m \in lines' : l[1] = m[1] /\ l[2] = m[2] => l = m
    BY <1>3, <2>3, <2>4
  <2>7. QED
    BY <2>5, <2>6
<1>9. lines' \subseteq Levels \X Scans \X Runes /\ last' \in Int \X Int
  <2>1. lines' \subseteq Levels \X Scans \X Runes
    BY <1>1, <1>3, <1>4
  <2>2. last' \in Int \X Int
    BY <1>1, <1>3
  <2>3. QED
    BY <2>1, <2>2
<1>10. QED
  BY <1>1, <1>2, <1>7, <1>8, <1>9

(* What is still to be shown of a line once its keys are known.            *)
LEMMA LineKeeps ==
  ASSUME KeymapAssumption, KeymapInv, NEW level \in Levels, NEW scan \in Scans,
         NEW rune \in Runes, Line(level, scan, rune),
         keys' \in Seq(KeyType), decl' \in Seq(Runes), Len(decl') = Len(keys'),
         RoomOK', KeysOK', kpc' \in {"lines", "undefined"},
         kpc' = "undefined" => Len(keys') = FIRST
  PROVE  KeymapInv'
<1>1. KeymapTypeOK'
  <2>1. source' = source
    BY DEF Line
  <2>2. lines' \subseteq Levels \X Scans \X Runes /\ last' \in Int \X Int
    BY LineReads
  <2>3. QED
    BY <2>1, <2>2 DEF KeymapTypeOK, KeymapInv
<1>2. OrderOK'
  BY LineReads
<1>3. EndOK'
  BY DEF EndOK
<1>4. QED
  BY <1>1, <1>2, <1>3 DEF KeymapInv

(* Lines whose runes have no key leave the runes that have one.            *)
LEMMA UnkeyedLine ==
  ASSUME KeymapAssumption, KeymapInv, NEW level \in Levels, NEW scan \in Scans,
         NEW rune \in Runes, Line(level, scan, rune),
         rune \notin 1 .. MaxRune \/ level \notin KeyLevels
  PROVE  Short' => Short /\ Keyed' = Keyed
<1> DEFINE new == <<level, scan, rune>>
<1>1. lines' = lines \cup {new} /\ new[1] = level /\ new[3] = rune
  BY DEF Line
<1>2. rune \in Nat
  BY LineReads
<1>3. new \notin Keyed'
  BY <1>1, <1>2, Limits DEF Keyed, KeyLevels
<1> HIDE DEF new
<1>4. QED
  BY <1>1, <1>3 DEF Keyed, Short

LEMMA NothingLine ==
  ASSUME KeymapAssumption, KeymapInv, NEW level \in Levels, NEW scan \in Scans,
         NEW rune \in Runes, Line(level, scan, rune), rune \notin 1 .. MaxRune
  PROVE  KeymapInv'
<1>1. rune \in Nat /\ level \in Int /\ (source = "kbmap" => last[1] <= level)
  BY ZenonT(40), LineReads
<1>2. (rune = 0 \/ rune > MaxRune) /\ UNCHANGED <<keys, room, decl, kpc, source>> /\ kpc = "lines"
  BY <1>1, Limits DEF Line
<1>3. Short' => Short /\ Keyed' = Keyed
  BY UnkeyedLine
<1>4. KeysOK'
  <2> SUFFICES ASSUME Short' PROVE DeclOK' /\ (source = "kbmap" => MadeOK' /\ SortOK')
    BY <1>2 DEF KeysOK
  <2>1. DeclOK /\ (source = "kbmap" => MadeOK /\ SortOK)
    BY <1>2, <1>3 DEF KeymapInv, KeysOK
  <2>2. DeclOK'
    BY <1>2, <1>3, <2>1 DEF DeclOK
  <2>3. \A l : Shifts(l)' = Shifts(l)
    <3>1. lines' = lines \cup {<<level, scan, rune>>}
      BY DEF Line
    <3>2. QED
      BY <1>1, <1>2, <3>1, Limits DEF Shifts
  <2>4. \A l : IsFirst(l)' <=> IsFirst(l)
    BY <1>3 DEF IsFirst
  <2>5. MadeOK => MadeOK'
    BY <1>2, <1>3, <2>3, <2>4 DEF MadeOK, MadeOf
  <2>6. source = "kbmap" /\ SortOK => SortOK'
    <3>1. last[1] \in Int /\ last'[1] = level
      BY DEF KeymapInv, KeymapTypeOK, Line
    <3>2. QED
      BY <1>1, <1>2, <3>1 DEF SortOK, SortedKeys
  <2>7. QED
    BY <2>1, <2>2, <2>5, <2>6
<1>5. RoomOK'
  BY <1>2 DEF KeymapInv, RoomOK
<1>6. QED
  BY <1>2, <1>4, <1>5, LineKeeps DEF KeymapInv, KeymapTypeOK

(* The keys that bsearch may find: the one of the scan code, if sorted.    *)
LEMMA SearchFinds ==
  ASSUME KeymapTypeOK, NEW scan \in 0 .. 255, NEW i \in Search(scan)
  PROVE  /\ i = 0 \/ (i \in DOMAIN keys /\ keys[i].scan = scan)
         /\ SortedKeys =>
              /\ i = 0 => \A j \in DOMAIN keys : keys[j].scan # scan
              /\ i # 0 => \A j \in DOMAIN keys : keys[j].scan = scan => j = i
<1>1. i = 0 \/ (i \in DOMAIN keys /\ keys[i].scan = scan)
  BY DEF Search
<1>2. DOMAIN keys = 1 .. Len(keys) /\ Len(keys) \in Nat
  BY DEF KeymapTypeOK
<1>3. ASSUME SortedKeys, i = 0 PROVE \A j \in DOMAIN keys : keys[j].scan # scan
  <2>1. {j \in DOMAIN keys : keys[j].scan = scan} = {}
    BY <1>2, <1>3 DEF Search
  <2>2. QED
    BY <2>1
<1>4. ASSUME SortedKeys, i # 0, NEW j \in DOMAIN keys, keys[j].scan = scan PROVE j = i
  <2>1. i \in DOMAIN keys /\ keys[i].scan = scan
    BY <1>1, <1>4
  <2>2. i < j \/ j < i \/ i = j
    BY <1>2, <2>1
  <2>3. QED
    BY <1>4, <2>1, <2>2 DEF SortedKeys
<1>5. QED
  BY <1>1, <1>3, <1>4

(* A second symbol changes rune1 of one key and nothing else of the keys.  *)
LEMMA ShiftedIs ==
  ASSUME KeymapTypeOK, NEW level, NEW i, NEW rune \in Nat,
         i = 0 \/ i \in DOMAIN keys, keys' = Shifted(level, i, rune)
  PROVE  /\ keys' \in Seq(KeyType) /\ Len(keys') = Len(keys) /\ DOMAIN keys' = DOMAIN keys
         /\ \A j \in DOMAIN keys :
              /\ keys'[j].scan = keys[j].scan /\ keys'[j].rune0 = keys[j].rune0
              /\ keys'[j].rune1 = IF level = 1 /\ j = i THEN U16(rune) ELSE keys[j].rune1
<1>1. keys \in Seq(KeyType) /\ DOMAIN keys = 1 .. Len(keys) /\ Len(keys) \in Nat
  BY DEF KeymapTypeOK
<1>2. CASE i = 0 \/ level # 1
  <2>1. keys' = keys
    BY <1>2 DEF Shifted
  <2>2. ~ (0 \in DOMAIN keys)
    BY <1>1
  <2>3. QED
    BY <1>1, <1>2, <2>1, <2>2
<1>3. CASE i # 0 /\ level = 1
  <2>1. keys' = [keys EXCEPT ![i].rune1 = U16(rune)] /\ i \in DOMAIN keys
    BY <1>3 DEF Shifted
  <2>2. U16(rune) \in 0 .. Max16
    BY U16Is
  <2> DEFINE k == [keys[i] EXCEPT !.rune1 = U16(rune)]
  <2>3. keys[i] \in KeyType
    BY <1>1, <2>1
  <2>4. k \in KeyType /\ k.scan = keys[i].scan /\ k.rune0 = keys[i].rune0 /\ k.rune1 = U16(rune)
    BY <2>2, <2>3 DEF KeyType
  <2>5. keys' = [keys EXCEPT ![i] = k]
    BY <2>1
  <2> HIDE DEF k
  <2>6. \A j \in DOMAIN keys : keys'[j] = IF j = i THEN k ELSE keys[j]
    BY <1>1, <2>1, <2>5
  <2>7. keys' \in Seq(KeyType) /\ Len(keys') = Len(keys) /\ DOMAIN keys' = DOMAIN keys
    BY <1>1, <2>1, <2>4, <2>5, ExceptSeq
  <2>8. QED
    BY <1>3, <2>4, <2>6, <2>7
<1>4. QED
  BY <1>2, <1>3

LEMMA ShiftLine ==
  ASSUME KeymapAssumption, KeymapInv, NEW level \in Levels, NEW scan \in Scans,
         NEW rune \in Runes, Line(level, scan, rune),
         rune \in 1 .. MaxRune, level \notin KeyLevels
  PROVE  KeymapInv'
<1> DEFINE new == <<level, scan, rune>>
<1>1. /\ rune \in Nat /\ level \in Int /\ scan \in 0 .. 255
      /\ source = "kbmap" => (\A l \in lines : Earlier(l, new)) /\ last[1] <= level
  BY LineReads
<1>2. /\ \E i \in Search(scan) : keys' = Shifted(level, i, rune)
      /\ UNCHANGED <<room, decl, kpc, source>> /\ kpc = "lines"
      /\ lines' = lines \cup {new} /\ last'[1] = level
  BY <1>1, Limits DEF Line
<1>3. PICK i \in Search(scan) : keys' = Shifted(level, i, rune)
  BY <1>2
<1>4. KeymapTypeOK /\ last[1] \in Int /\ DOMAIN keys = 1 .. Len(keys) /\ Len(keys) \in Nat
  BY DEF KeymapInv, KeymapTypeOK
<1>5. /\ i = 0 \/ (i \in DOMAIN keys /\ keys[i].scan = scan)
      /\ SortedKeys =>
           /\ i = 0 => \A j \in DOMAIN keys : keys[j].scan # scan
           /\ i # 0 => \A j \in DOMAIN keys : keys[j].scan = scan => j = i
  BY <1>1, <1>4, SearchFinds
<1>6. /\ keys' \in Seq(KeyType) /\ Len(keys') = Len(keys) /\ DOMAIN keys' = DOMAIN keys
      /\ \A j \in DOMAIN keys :
           /\ keys'[j].scan = keys[j].scan /\ keys'[j].rune0 = keys[j].rune0
           /\ keys'[j].rune1 = IF level = 1 /\ j = i THEN U16(rune) ELSE keys[j].rune1
  BY <1>1, <1>3, <1>4, <1>5, ShiftedIs
<1>7. Short' => Short /\ Keyed' = Keyed
  BY UnkeyedLine
<1>8. new[1] = level /\ new[2] = scan /\ new[3] = rune
  OBVIOUS
<1> HIDE DEF new
<1>9. ASSUME Short' PROVE DeclOK' /\ (source = "kbmap" => MadeOK' /\ SortOK')
  <2>1. Short /\ Keyed' = Keyed /\ DeclOK /\ (source = "kbmap" => MadeOK /\ SortOK)
    BY <1>2, <1>7, <1>9 DEF KeymapInv, KeysOK
  <2>2. DeclOK'
    BY <1>2, <1>6, <2>1 DEF DeclOK
  <2>3. rune <= Max16 /\ U16(rune) = rune
    <3>1. rune <= Max16
      BY <1>1, <1>2, <1>8, <1>9, Limits DEF Short
    <3>2. QED
      BY <1>1, <3>1, U16Is
  <2>4. ASSUME source = "kbmap" PROVE SortOK'
    BY <1>1, <1>2, <1>4, <1>6, <2>1, <2>4 DEF SortOK, SortedKeys
  <2>5. ASSUME source = "kbmap", NEW j \in DOMAIN keys PROVE \E l \in Keyed' : MadeOf(j, l)'
    <3>1. PICK l \in Keyed : MadeOf(j, l)
      BY <2>1, <2>5 DEF MadeOK
    <3>2. IsFirst(l)' /\ l[3] = decl'[j] /\ l[2] = keys'[j].scan
      BY <1>2, <1>6, <2>1, <2>5, <3>1 DEF MadeOf, IsFirst
    <3>3. l \in lines /\ l[1] \in {0, 2, 5, 6} /\ l[1] \in Int
      BY <3>1 DEF Keyed
    <3>4. CASE level # 1
      <4>1. Shifts(l)' = Shifts(l)
        BY <1>2, <1>8, <3>4 DEF Shifts
      <4>2. keys'[j].rune1 = keys[j].rune1
        BY <1>6, <3>4
      <4>3. MadeOf(j, l)'
        BY <3>1, <3>2, <4>1, <4>2 DEF MadeOf
      <4>4. QED
        BY <2>1, <4>3
    <3>5. CASE level = 1
      <4>1. SortedKeys
        BY <1>1, <1>4, <2>1, <2>5, <3>5 DEF SortOK
      <4>2. l[1] = 0
        BY <1>1, <1>8, <2>5, <3>3, <3>5 DEF Earlier
      <4>3. CASE l[2] = scan
        <5>1. keys[j].scan = scan
          BY <3>1, <4>3 DEF MadeOf
        <5>2. j = i
          BY <1>5, <2>5, <4>1, <5>1
        <5>3. keys'[j].rune1 = rune
          BY <1>6, <2>3, <3>5, <5>2
        <5>4. new \in Shifts(l)'
          BY <1>1, <1>2, <1>8, <2>3, <3>5, <4>3 DEF Shifts
        <5>5. \A n \in lines : ~ (n[1] = 1 /\ n[2] = scan)
          BY <1>1, <1>8, <2>5, <3>5 DEF Earlier
        <5>6. Shifts(l)' = {new}
          BY <1>2, <4>3, <5>4, <5>5 DEF Shifts
        <5>7. MadeOf(j, l)'
          BY <1>8, <3>2, <4>2, <5>3, <5>6 DEF MadeOf
        <5>8. QED
          BY <2>1, <5>7
      <4>4. CASE l[2] # scan
        <5>1. keys[j].scan # scan
          BY <3>1, <4>4 DEF MadeOf
        <5>2. j # i
          BY <1>4, <1>5, <2>5, <5>1
        <5>3. keys'[j].rune1 = keys[j].rune1
          BY <1>6, <5>2
        <5>4. Shifts(l)' = Shifts(l)
          BY <1>2, <1>8, <4>4 DEF Shifts
        <5>5. MadeOf(j, l)'
          BY <3>1, <3>2, <5>3, <5>4 DEF MadeOf
        <5>6. QED
          BY <2>1, <5>5
      <4>5. QED
        BY <4>3, <4>4
    <3>6. QED
      BY <3>4, <3>5
  <2>6. source = "kbmap" => MadeOK'
    BY <1>6, <2>5 DEF MadeOK
  <2>7. QED
    BY <2>2, <2>4, <2>6
<1>10. KeysOK'
  BY <1>2, <1>9 DEF KeysOK
<1>11. RoomOK'
  BY <1>2, <1>4, <1>6 DEF KeymapInv, RoomOK
<1>12. QED
  BY <1>2, <1>4, <1>6, <1>10, <1>11, LineKeeps DEF KeymapTypeOK

(* A rune that has a key already: what the new line says does not count.   *)
LEMMA DuplicateLine ==
  ASSUME KeymapAssumption, KeymapInv, NEW level \in Levels, NEW scan \in Scans,
         NEW rune \in Runes, Line(level, scan, rune),
         rune \in 1 .. MaxRune, level \in KeyLevels, Duplicate(scan, rune)
  PROVE  KeymapInv'
<1> DEFINE new == <<level, scan, rune>>
<1>1. /\ rune \in Nat /\ level \in Int /\ scan \in 0 .. 255
      /\ source = "kbmap" => (\A l \in lines : Earlier(l, new)) /\ last[1] <= level
  BY LineReads
<1>2. /\ UNCHANGED <<keys, room, decl, kpc, source>> /\ kpc = "lines"
      /\ lines' = lines \cup {new} /\ last'[1] = level
  BY <1>1, Limits DEF Line
<1>3. new[1] = level /\ new[2] = scan /\ new[3] = rune
  OBVIOUS
<1>4. last[1] \in Int
  BY DEF KeymapInv, KeymapTypeOK
<1> HIDE DEF new
<1>5. ASSUME Short' PROVE DeclOK' /\ (source = "kbmap" => MadeOK' /\ SortOK')
  <2>1. Short /\ rune <= Max16
    BY <1>1, <1>2, <1>3, <1>5, Limits DEF Short
  <2>2. DeclOK /\ (source = "kbmap" => MadeOK /\ SortOK)
    BY <1>2, <2>1 DEF KeymapInv, KeysOK
  <2>3. Keyed' = Keyed \cup {new}
    BY <1>1, <1>2, <1>3, <2>1 DEF Keyed, KeyLevels
  <2>4. PICK d \in DOMAIN keys : decl[d] = rune
    BY <2>2 DEF DeclOK, Duplicate
  <2>5. DeclOK'
    BY <1>2, <1>3, <2>2, <2>3, <2>4 DEF DeclOK
  <2>6. \A l : Shifts(l)' = Shifts(l)
    BY <1>2, <1>3 DEF Shifts, KeyLevels
  <2>7. ASSUME source = "kbmap" PROVE MadeOK'
    <3>1. \A l \in Keyed : IsFirst(l) => IsFirst(l)'
      BY <1>1, <2>3, <2>7 DEF IsFirst, Keyed
    <3>2. QED
      BY <1>2, <2>2, <2>3, <2>6, <2>7, <3>1 DEF MadeOK, MadeOf
  <2>8. source = "kbmap" => SortOK'
    BY <1>1, <1>2, <1>4, <2>2 DEF SortOK, SortedKeys
  <2>9. QED
    BY <2>5, <2>7, <2>8
<1>6. KeysOK' /\ RoomOK'
  BY <1>2, <1>5 DEF KeysOK, KeymapInv, RoomOK
<1>7. QED
  BY <1>2, <1>6, LineKeeps DEF KeymapInv, KeymapTypeOK

(* No room is left only when there are FIRST keys.                         *)
LEMMA RoomIs ==
  ASSUME KeymapAssumption, KeymapTypeOK, RoomOK
  PROVE  /\ RoomNow = FIRST /\ FIRST \in Nat
         /\ ~ (Len(keys) < RoomNow) => Len(keys) = FIRST
<1>1. Len(keys) \in Nat /\ (keys = <<>> <=> Len(keys) = 0) /\ FIRST \in Nat \ {0}
  BY DEF KeymapTypeOK, KeymapAssumption
<1>2. Len(keys) <= FIRST
  BY DEF RoomOK
<1>3. Grows <=> Len(keys) = 0
  <2>1. ~ (Len(keys) > FIRST)
    BY <1>1, <1>2
  <2>2. QED
    BY <2>1, Zenon DEF Grows
<1>4. RoomNow = FIRST
  BY <1>1, <1>3 DEF RoomNow, RoomOK
<1>5. QED
  BY <1>1, <1>2, <1>4

(* A rune that has no key yet: the new line is the first with this rune.   *)
LEMMA NewKeyLine ==
  ASSUME KeymapAssumption, KeymapInv, NEW level \in Levels, NEW scan \in Scans,
         NEW rune \in Runes, Line(level, scan, rune), rune \in 1 .. MaxRune,
         level \in KeyLevels, ~ Duplicate(scan, rune), Len(keys) < RoomNow
  PROVE  KeymapInv'
<1> DEFINE new == <<level, scan, rune>>
           n == Len(keys) + 1
           k == Key(scan, rune)
<1>1. /\ rune \in Nat /\ level \in Int /\ scan \in 0 .. 255 /\ U16(scan) = scan
      /\ source = "kbmap" => (\A l \in lines : Earlier(l, new)) /\ last[1] <= level
      /\ \A l \in lines : l[1] \in Int /\ l[2] \in Int
  <2>1. lines \subseteq Levels \X Scans \X Runes /\ Levels \subseteq Int /\ Scans \subseteq Int
    BY DEF KeymapInv, KeymapTypeOK, KeymapAssumption
  <2>2. QED
    BY <2>1, LineReads
<1>2. KeymapTypeOK /\ RoomOK
  BY DEF KeymapInv
<1>3. RoomNow = FIRST /\ FIRST \in Nat
  BY <1>2, RoomIs
<1>4. /\ keys' = Append(keys, k) /\ room' = RoomNow /\ decl' = Append(decl, rune)
      /\ UNCHANGED <<kpc, source>> /\ kpc = "lines"
      /\ lines' = lines \cup {new} /\ last'[1] = level
  BY <1>1, <1>3 DEF Line
<1>5. new[1] = level /\ new[2] = scan /\ new[3] = rune
  OBVIOUS
<1>6. k \in KeyType /\ k.scan = scan /\ k.rune0 = U16(rune) /\ k.rune1 = 0
  BY <1>1, U16Is, Limits DEF Key, KeyType
<1>7. keys \in Seq(KeyType) /\ decl \in Seq(Runes) /\ Len(decl) = Len(keys) /\ Len(keys) \in Nat
  BY <1>2 DEF KeymapTypeOK
<1> HIDE DEF new, k
<1>8. /\ keys' \in Seq(KeyType) /\ Len(keys') = n /\ DOMAIN keys' = DOMAIN keys \cup {n}
      /\ \A i \in DOMAIN keys : keys'[i] = keys[i]
      /\ keys'[n] = k /\ n \notin DOMAIN keys
  BY <1>4, <1>6, <1>7
<1>9. /\ decl' \in Seq(Runes) /\ Len(decl') = n
      /\ \A i \in DOMAIN keys : decl'[i] = decl[i]
      /\ decl'[n] = rune
  BY <1>4, <1>7
<1>10. DOMAIN keys = 1 .. Len(keys)
  BY <1>7
<1> HIDE DEF n
<1>11. ASSUME Short' PROVE DeclOK' /\ (source = "kbmap" => MadeOK' /\ SortOK')
  <2>1. Short /\ rune <= Max16 /\ U16(rune) = rune
    <3>1. Short /\ rune <= Max16
      BY <1>1, <1>4, <1>5, <1>11, Limits DEF Short
    <3>2. QED
      BY <1>1, <3>1, U16Is
  <2>2. DeclOK /\ (source = "kbmap" => MadeOK /\ SortOK)
    BY <1>4, <2>1 DEF KeymapInv, KeysOK
  <2>3. Keyed' = Keyed \cup {new}
    BY <1>1, <1>4, <1>5, <2>1, Limits DEF Keyed, KeyLevels
  <2>4. \A i \in DOMAIN keys : decl[i] # rune
    BY <2>2 DEF DeclOK, Duplicate
  <2>5. \A m \in Keyed : m[3] # rune
    BY <2>2, <2>4 DEF DeclOK
  <2>6. DeclOK'
    <3>1. \A i \in DOMAIN keys' : decl'[i] = keys'[i].rune0
      BY <1>6, <1>8, <1>9, <2>1, <2>2 DEF DeclOK
    <3>2. \A i \in DOMAIN keys' : \E l \in Keyed' : l[3] = decl'[i]
      BY <1>5, <1>8, <1>9, <2>2, <2>3 DEF DeclOK
    <3>3. \A l \in Keyed' : \E i \in DOMAIN keys' : decl'[i] = l[3]
      BY <1>5, <1>8, <1>9, <2>2, <2>3 DEF DeclOK
    <3>4. \A i, j \in DOMAIN keys' : decl'[i] = decl'[j] => i = j
      BY <1>8, <1>9, <2>2, <2>4 DEF DeclOK
    <3>5. QED
      BY <3>1, <3>2, <3>3, <3>4 DEF DeclOK
  <2>7. \A l : Shifts(l)' = Shifts(l)
    BY <1>4, <1>5 DEF Shifts, KeyLevels
  <2>8. ASSUME source = "kbmap", NEW i \in DOMAIN keys' PROVE \E l \in Keyed' : MadeOf(i, l)'
    <3>1. CASE i \in DOMAIN keys
      <4>1. PICK l \in Keyed : MadeOf(i, l)
        BY <2>2, <2>8, <3>1 DEF MadeOK
      <4>2. l[3] # rune
        BY <2>5, <4>1
      <4>3. IsFirst(l)'
        BY <1>5, <2>3, <4>1, <4>2 DEF IsFirst, MadeOf
      <4>4. MadeOf(i, l)'
        BY <1>8, <1>9, <2>7, <3>1, <4>1, <4>3 DEF MadeOf
      <4>5. QED
        BY <2>3, <4>1, <4>4
    <3>2. CASE i = n
      <4>1. IsFirst(new)'
        BY <1>5, <2>3, <2>5 DEF IsFirst
      <4>2. Shifts(new) = {} \/ level # 0
        <5>1. ASSUME level = 0, NEW m \in Shifts(new) PROVE FALSE
          <6>1. m \in lines /\ m[1] = 1
            BY <5>1 DEF Shifts
          <6>2. Earlier(m, new)
            BY <1>1, <2>8, <6>1
          <6>3. QED
            BY <1>1, <1>5, <5>1, <6>1, <6>2 DEF Earlier
        <5>2. QED
          BY <5>1
      <4>3. keys'[i].rune1 = 0 /\ keys'[i].scan = scan /\ decl'[i] = rune
        BY <1>6, <1>8, <1>9, <3>2
      <4>4. MadeOf(i, new)'
        BY <1>5, <2>7, <4>1, <4>2, <4>3 DEF MadeOf
      <4>5. QED
        BY <2>3, <4>4
    <3>3. QED
      BY <1>8, <3>1, <3>2
  <2>9. source = "kbmap" => MadeOK'
    BY <2>8 DEF MadeOK
  <2>10. ASSUME source = "kbmap", last'[1] <= 1 PROVE SortedKeys'
    <3>1. last[1] <= 1 /\ level \in {0, 1}
      <4>1. last[1] \in Int
        BY <1>2 DEF KeymapTypeOK
      <4>2. level \in {0, 2, 5, 6}
        BY DEF KeyLevels
      <4>3. QED
        BY <1>1, <1>4, <2>10, <4>1, <4>2
    <3>2. SortedKeys
      BY <2>2, <2>10, <3>1 DEF SortOK
    <3>3. \A i \in DOMAIN keys : keys[i].scan < scan
      <4>1. TAKE i \in DOMAIN keys
      <4>2. PICK l \in Keyed : MadeOf(i, l)
        BY <2>2, <2>10 DEF MadeOK
      <4>3. l \in lines /\ l[1] \in {0, 2, 5, 6} /\ l[2] = keys[i].scan
        BY <4>2 DEF Keyed, MadeOf
      <4>4. level = 0
        BY <3>1 DEF KeyLevels
      <4>5. Earlier(l, new)
        BY <1>1, <2>10, <4>3
      <4>6. QED
        BY <1>1, <1>5, <4>3, <4>4, <4>5 DEF Earlier
    <3>4. \A i, j \in DOMAIN keys' : i < j => keys'[i].scan < keys'[j].scan
      <4>1. TAKE i, j \in DOMAIN keys'
      <4>2. HAVE i < j
      <4>3. i \in DOMAIN keys /\ (j \in DOMAIN keys \/ j = n)
        BY <1>7, <1>8, <1>10, <4>2 DEF n
      <4>4. QED
        BY <1>6, <1>8, <3>2, <3>3, <4>2, <4>3 DEF SortedKeys
    <3>5. QED
      BY <3>4 DEF SortedKeys
  <2>11. source = "kbmap" => SortOK'
    BY <2>10 DEF SortOK
  <2>12. QED
    BY <2>6, <2>9, <2>11
<1>12. KeysOK'
  BY <1>4, <1>11 DEF KeysOK
<1>13. RoomOK'
  <2>1. Len(keys') <= FIRST
    BY <1>3, <1>7, <1>8 DEF n
  <2>2. keys' # <<>>
    BY <1>7, <1>8 DEF n
  <2>3. QED
    BY <1>3, <1>4, <2>1, <2>2 DEF RoomOK
<1>14. QED
  BY <1>4, <1>8, <1>9, <1>12, <1>13, LineKeeps

LEMMA LineStep ==
  ASSUME KeymapAssumption, KeymapInv, NEW level \in Levels, NEW scan \in Scans,
         NEW rune \in Runes, Line(level, scan, rune)
  PROVE  KeymapInv'
<1>1. CASE rune \notin 1 .. MaxRune
  BY <1>1, NothingLine
<1>2. CASE rune \in 1 .. MaxRune /\ level \notin KeyLevels
  BY <1>2, ShiftLine
<1>3. CASE rune \in 1 .. MaxRune /\ level \in KeyLevels /\ Duplicate(scan, rune)
  BY <1>3, DuplicateLine
<1>4. CASE rune \in 1 .. MaxRune /\ level \in KeyLevels /\ ~ Duplicate(scan, rune)
  <2>1. CASE Len(keys) < RoomNow
    BY <1>4, <2>1, NewKeyLine
  <2>2. CASE ~ (Len(keys) < RoomNow)
    <3>1. kpc' = "undefined" /\ UNCHANGED <<keys, room, decl>>
      BY <1>4, <2>2 DEF Line
    <3>2. KeymapTypeOK /\ RoomOK
      BY DEF KeymapInv
    <3>3. Len(keys) = FIRST
      BY <2>2, <3>2, RoomIs
    <3>4. RoomOK' /\ KeysOK'
      BY <3>1, <3>2 DEF RoomOK, KeysOK
    <3>5. QED
      BY <3>1, <3>2, <3>3, <3>4, LineKeeps DEF KeymapTypeOK
  <2>3. QED
    BY <2>1, <2>2
<1>5. QED
  BY <1>1, <1>2, <1>3, <1>4

(* The symbols are written from keys whose runes are not cut off.          *)
LEMMA LinesStep ==
  ASSUME KeymapInv, Lines
  PROVE  KeymapInv'
<1>1. UNCHANGED <<source, lines, last, keys, room, decl>> /\ kpc = "lines"
  BY DEF Lines
<1>2. kpc' \in {"abort", "done", "failed"}
  BY DEF Lines, Fails
<1>3. KeymapTypeOK' /\ RoomOK'
  BY <1>1, <1>2 DEF KeymapInv, KeymapTypeOK, RoomOK
<1>4. OrderOK'
  BY <1>1 DEF KeymapInv, OrderOK
<1>5. KeysOK'
  BY <1>1 DEF KeymapInv, KeysOK, Short, DeclOK, Keyed, MadeOK, MadeOf, IsFirst, Shifts, SortOK,
              SortedKeys
<1>6. EndOK'
  <2>1. CASE \E i \in DOMAIN keys : keys[i].rune0 = 0
    <3>1. kpc' = "abort"
      BY <2>1 DEF Lines
    <3>2. ASSUME Short PROVE FALSE
      <4>1. DeclOK
        BY <1>1, <3>2 DEF KeymapInv, KeysOK
      <4>2. PICK i \in DOMAIN keys : keys[i].rune0 = 0
        BY <2>1
      <4>3. PICK l \in Keyed : l[3] = 0
        BY <4>1, <4>2 DEF DeclOK
      <4>4. QED
        BY <4>3, Limits DEF Keyed
    <3>3. ~ Short'
      BY <1>1, <3>2 DEF Short
    <3>4. QED
      BY <3>1, <3>3 DEF EndOK
  <2>2. CASE ~ \E i \in DOMAIN keys : keys[i].rune0 = 0
    <3>1. kpc' # "abort" /\ kpc' # "undefined"
      BY <1>2, <2>2 DEF Lines, Fails
    <3>2. symbols' = [i \in DOMAIN keys |-> <<keys[i].rune0, Symbols(keys[i])>>]
      BY <2>2 DEF Lines
    <3>3. QED
      BY <1>1, <2>2, <3>1, <3>2 DEF EndOK, Symbols
  <2>3. QED
    BY <2>1, <2>2
<1>7. QED
  BY <1>3, <1>4, <1>5, <1>6 DEF KeymapInv

LEMMA KeymapStep ==
  ASSUME KeymapAssumption, KeymapInv, [KeymapNext]_keymapv
  PROVE  KeymapInv'
<1>1. CASE \E level \in Levels, scan \in Scans, rune \in Runes : Line(level, scan, rune)
  BY <1>1, LineStep
<1>2. CASE LineFails
  <2>1. /\ UNCHANGED <<source, lines, last, keys, room, decl>>
        /\ kpc = "lines" /\ kpc' = "failed"
    BY <1>2 DEF LineFails, Fails
  <2>2. KeysOK'
    BY <2>1 DEF KeymapInv, KeysOK, Short, DeclOK, Keyed, MadeOK, MadeOf, IsFirst, Shifts, SortOK,
                SortedKeys
  <2>3. KeymapTypeOK' /\ RoomOK' /\ OrderOK' /\ EndOK'
    BY <2>1 DEF KeymapInv, KeymapTypeOK, RoomOK, OrderOK, EndOK
  <2>4. QED
    BY <2>2, <2>3 DEF KeymapInv
<1>3. CASE Lines
  BY <1>3, LinesStep
<1>4. CASE UNCHANGED keymapv
  <2>1. UNCHANGED <<source, lines, last, keys, room, decl, symbols, kpc>>
    BY <1>4 DEF keymapv
  <2>2. KeysOK'
    BY <2>1 DEF KeymapInv, KeysOK, Short, DeclOK, Keyed, MadeOK, MadeOf, IsFirst, Shifts, SortOK,
                SortedKeys
  <2>3. KeymapTypeOK' /\ RoomOK' /\ OrderOK'
    BY <2>1 DEF KeymapInv, KeymapTypeOK, RoomOK, OrderOK
  <2>4. EndOK'
    BY <2>1 DEF KeymapInv, EndOK, Short, Symbols
  <2>5. QED
    BY <2>2, <2>3, <2>4 DEF KeymapInv
<1>5. QED
  BY <1>1, <1>2, <1>3, <1>4 DEF KeymapNext

LEMMA EveryKeycode ==
  ASSUME KeymapTypeOK, DeclOK
  PROVE  EachHasKeycode
<1>1. DOMAIN decl = DOMAIN keys
  BY DEF KeymapTypeOK
<1>2. {decl[i] : i \in DOMAIN decl} = {l[3] : l \in Keyed}
  BY <1>1 DEF DeclOK
<1>3. \A i, j \in DOMAIN decl : i # j => decl[i] # decl[j]
  BY <1>1 DEF DeclOK
<1>4. QED
  BY <1>2, <1>3 DEF EachHasKeycode

LEMMA EveryKey ==
  ASSUME KeymapTypeOK, DeclOK,
         symbols = [i \in DOMAIN keys |-> <<keys[i].rune0, Symbols(keys[i])>>]
  PROVE  EachHasKey
<1>1. DOMAIN decl = DOMAIN keys /\ DOMAIN keys = 1 .. Len(decl) /\ Len(decl) \in Nat
  BY DEF KeymapTypeOK
<1>2. DOMAIN symbols = 1 .. Len(decl)
  BY <1>1
<1>3. Len(symbols) = Len(decl)
  <2> DEFINE S == {symbols[i] : i \in DOMAIN symbols}
  <2>1. symbols \in [1 .. Len(decl) -> S]
    BY <1>2
  <2>2. symbols \in Seq(S)
    BY <1>1, <2>1 DEF Seq
  <2> HIDE DEF S
  <2>3. QED
    BY <1>1, <1>2, <2>2, LenProperties
<1>4. ASSUME NEW i \in DOMAIN decl
      PROVE  symbols[i][1] = decl[i] /\ symbols[i][2][1] = decl[i]
  <2>1. i \in DOMAIN keys /\ decl[i] = keys[i].rune0
    BY <1>1 DEF DeclOK
  <2>2. symbols[i] = <<keys[i].rune0, Symbols(keys[i])>>
    BY <2>1
  <2>3. Symbols(keys[i])[1] = keys[i].rune0
    BY DEF Symbols
  <2>4. QED
    BY <2>1, <2>2, <2>3
<1>5. QED
  BY <1>3, <1>4 DEF EachHasKey

(* Of the lines of one rune one comes first, and it is what CHOOSE takes.  *)
LEMMA FirstIsChosen ==
  ASSUME KeymapTypeOK, KeymapAssumption, NEW l \in Keyed, IsFirst(l)
  PROVE  FirstOf(l[3]) = l
<1> DEFINE P(x) == x[3] = l[3] /\ \A m \in Keyed : m[3] = l[3] => m = x \/ Earlier(x, m)
<1>1. P(l)
  BY DEF IsFirst
<1>2. ASSUME NEW x \in Keyed, P(x) PROVE x = l
  <2>1. x = l \/ (Earlier(l, x) /\ Earlier(x, l))
    BY <1>2 DEF IsFirst
  <2>2. x \in Levels \X Scans \X Runes /\ l \in Levels \X Scans \X Runes
    BY DEF KeymapTypeOK, Keyed
  <2>3. Levels \subseteq Int /\ Scans \subseteq Int
    BY DEF KeymapAssumption
  <2>4. x[1] \in Int /\ x[2] \in Int /\ l[1] \in Int /\ l[2] \in Int
    BY <2>2, <2>3
  <2>5. ~ (Earlier(l, x) /\ Earlier(x, l))
    BY <2>4 DEF Earlier
  <2>6. QED
    BY <2>1, <2>5
<1>3. FirstOf(l[3]) = CHOOSE x \in Keyed : P(x)
  BY Zenon DEF FirstOf
<1> HIDE DEF P
<1>4. QED
  BY <1>1, <1>2, <1>3

LEMMA EveryShift ==
  ASSUME KeymapTypeOK, KeymapAssumption, OrderOK, DeclOK, MadeOK, source = "kbmap",
         symbols = [i \in DOMAIN keys |-> <<keys[i].rune0, Symbols(keys[i])>>]
  PROVE  EachHasShift
<1> SUFFICES ASSUME NEW i \in DOMAIN symbols
             PROVE  LET l == FirstOf(symbols[i][1])
                        shift == (ShiftOf(l) \cap 1 .. Max16) \ {l[3]}
                    IN  symbols[i][2] = IF shift = {} THEN <<l[3]>>
                                        ELSE <<l[3], CHOOSE r \in shift : TRUE>>
  BY DEF EachHasShift
<1>1. i \in DOMAIN keys /\ symbols[i][1] = keys[i].rune0 /\ symbols[i][2] = Symbols(keys[i])
  OBVIOUS
<1>2. PICK l \in Keyed : MadeOf(i, l)
  BY <1>1 DEF MadeOK
<1>3. l[3] = keys[i].rune0 /\ IsFirst(l)
  BY <1>1, <1>2 DEF MadeOf, DeclOK
<1>4. FirstOf(symbols[i][1]) = l
  BY <1>1, <1>3, FirstIsChosen
<1> DEFINE shift == (ShiftOf(l) \cap 1 .. Max16) \ {l[3]}
           r1 == keys[i].rune1
<1>5. \A m, n \in Shifts(l) : m = n
  BY DEF OrderOK, Shifts
<1>6. r1 \in Nat /\ l[3] # 0
  <2>1. keys[i] \in KeyType
    BY <1>1 DEF KeymapTypeOK
  <2>2. r1 \in Nat
    BY <2>1, Limits DEF KeyType
  <2>3. l[3] \in 1 .. Max16
    BY DEF Keyed
  <2>4. QED
    BY <2>2, <2>3
<1>7. Symbols(keys[i]) = IF r1 # 0 /\ r1 # l[3] THEN <<l[3], r1>> ELSE <<l[3]>>
  BY <1>3 DEF Symbols
<1>8. shift = IF r1 # 0 /\ r1 # l[3] THEN {r1} ELSE {}
  <2>1. CASE l[1] # 0
    <3>1. ShiftOf(l) = {}
      BY <2>1 DEF ShiftOf
    <3>2. r1 = 0
      BY <1>2, <2>1 DEF MadeOf
    <3>3. QED
      BY <3>1, <3>2
  <2>2. CASE l[1] = 0
    <3>1. \A r \in ShiftOf(l) \cap 1 .. Max16 : \E n \in Shifts(l) : n[3] = r
      BY <2>2 DEF ShiftOf, Shifts
    <3>2. \A n \in Shifts(l) : n[3] \in ShiftOf(l) \cap 1 .. Max16
      BY <2>2 DEF ShiftOf, Shifts
    <3>3. \A n \in Shifts(l) : n[3] = r1 /\ n[3] # 0
      BY <1>2, <2>2, Limits DEF MadeOf, Shifts
    <3>4. r1 # 0 => \E n \in Shifts(l) : n[3] = r1
      BY <1>2 DEF MadeOf
    <3>5. ShiftOf(l) \cap 1 .. Max16 = IF r1 # 0 THEN {r1} ELSE {}
      BY <3>1, <3>2, <3>3, <3>4
    <3>6. QED
      BY <3>5
  <2>3. QED
    BY <2>1, <2>2
<1> HIDE DEF shift, r1
<1>9. symbols[i][2] = IF shift = {} THEN <<l[3]>> ELSE <<l[3], CHOOSE r \in shift : TRUE>>
  <2>1. CASE r1 # 0 /\ r1 # l[3]
    <3>1. shift = {r1}
      BY <1>8, <2>1
    <3>2. (CHOOSE r \in shift : TRUE) = r1
      BY <3>1
    <3>3. symbols[i][2] = <<l[3], r1>>
      BY <1>1, <1>7, <2>1
    <3>4. QED
      BY <3>1, <3>2, <3>3
  <2>2. CASE ~ (r1 # 0 /\ r1 # l[3])
    BY <1>1, <1>7, <1>8, <2>2
  <2>3. QED
    BY <2>1, <2>2
<1>10. QED
  BY <1>4, <1>9 DEF shift

LEMMA InvGivesKeymap ==
  ASSUME KeymapAssumption, KeymapInv
  PROVE  KeymapAgrees
<1>1. ASSUME kpc = "done", Short
      PROVE  EachHasKeycode /\ EachHasKey /\ (source = "kbmap" => EachHasShift)
  <2>1. /\ KeymapTypeOK /\ OrderOK /\ DeclOK /\ (source = "kbmap" => MadeOK)
        /\ symbols = [i \in DOMAIN keys |-> <<keys[i].rune0, Symbols(keys[i])>>]
    BY <1>1 DEF KeymapInv, KeysOK, EndOK
  <2>2. EachHasKeycode /\ EachHasKey
    BY <2>1, EveryKeycode, EveryKey
  <2>3. source = "kbmap" => EachHasShift
    BY <2>1, EveryShift
  <2>4. QED
    BY <2>2, <2>3
<1>2. (kpc = "abort" => ~ Short) /\ (kpc = "undefined" => Len(keys) = FIRST)
  BY DEF KeymapInv, EndOK
<1>3. QED
  BY <1>1, <1>2 DEF KeymapAgrees, Short

(* The keymap of any file in order, or of any lines from standard input,   *)
(* has the keycodes, keys and, for the file, second levels that README.md  *)
(* promises, for any levels, scan codes, runes and room for keys           *)
(* (keymap.c:214-330).                                                     *)
THEOREM KeymapIsRight == ASSUME KeymapAssumption PROVE KeymapSpec => []KeymapAgrees
<1>1. KeymapInit => KeymapInv
  BY KeymapAssumption, KeymapInitOK
<1>2. KeymapInv /\ [KeymapNext]_keymapv => KeymapInv'
  BY KeymapAssumption, KeymapStep
<1>3. KeymapInv => KeymapAgrees
  BY KeymapAssumption, InvGivesKeymap
<1>4. QED
  BY <1>1, <1>2, <1>3, PTL DEF KeymapSpec
=============================================================================
