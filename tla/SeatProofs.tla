----------------------------- MODULE SeatProofs -----------------------------
(***************************************************************************)
(* The mouse and the keyboard, for any windows, pointers, keyboards,       *)
(* clients and keys, and the text of the keyboard's messages.              *)
(*                                                                         *)
(* Mouse events reach the right client, and the buttons it counted are     *)
(* those its window read.  The idea: what a client knows of a pointer      *)
(* depends on the focus and on w->button alone.  A pointer that is not     *)
(* there, and a window that is not, has no button down, so that it can     *)
(* come at any time.                                                       *)
(*                                                                         *)
(* Keys reach the right client and none is stuck, in whatever order the    *)
(* replies come; in order, the client's keys and modifiers are those of    *)
(* its window.  The idea for the second part: the replies that wait are a  *)
(* path from what wl9 has handled, the focus with the keys of its window,  *)
(* to what rio knows, the current window with the keys that are down.  In  *)
(* order, a handler takes the first step of that path.                     *)
(*                                                                         *)
(* The text of a reply is read as the messages that were sent.  The idea:  *)
(* a turn of a loop that begins where a key or a message does ends where   *)
(* the next does.  Texts that follow one another are a fold, so first      *)
(* what a fold is, place by place, from the induction over the numbers;    *)
(* then that utf8dec reads what Encoded wrote, and nothing of Bad.         *)
(***************************************************************************)
EXTENDS Pointer, Kbd, KbdText, SequenceTheorems, FiniteSetTheorems, WellFoundedInduction, TLAPS

(* What is not there knows of nothing.                                     *)
MGoneClean ==
  /\ \A w \in Windows \ win : button[w] = {} /\ \A p \in Pointers : mdown[p][w] = {}
  /\ \A p \in Pointers \ ptr, w \in Windows : mdown[p][w] = {}

(* Also a pointer that missed an enter is inside no surface but that in    *)
(* focus.                                                                  *)
MInsideOK == \A p \in Pointers : minside[p] # None => p \in mactive /\ minside[p] = mfocus

MIInv == MFocusAgrees /\ MInsideOK /\ MGoneClean /\ ButtonsAgree

(* Nothing is there at first.                                              *)
LEMMA MInitInv ==
  ASSUME PointerAssumption
  PROVE  MInit => MIInv
BY DEF PointerAssumption, SeatAssumption, MInit, MIInv, MFocusAgrees, MTypeOK,
       MActiveIsFocus, MInsideIsFocus, MInsideOK, MGoneClean, ButtonsAgree, MOfWindow

(* mousefocus moves the lists and the enters along with the focus, to a    *)
(* window or to none.                                                      *)
LEMMA MouseFocusMoves ==
  ASSUME PointerAssumption, MFocusAgrees, MInsideOK, NEW w \in Windows \cup {None},
         MouseFocus(w), UNCHANGED ptr
  PROVE  /\ mactive' = MOfWindow(w)
         /\ mfocus' = w
         /\ minside' \in [Pointers -> Windows \cup {None}]
         /\ \A p \in ptr \ mlate : minside'[p] = IF p \in mactive' THEN w ELSE None
         /\ MInsideOK'
<1> USE DEF PointerAssumption, SeatAssumption, MFocusAgrees, MTypeOK
<1>1. mactive \ MLeft = {}
  BY DEF MLeft, MActiveIsFocus, MOfWindow
<1>2. mactive' = MOfWindow(w) /\ mfocus' = w
  BY <1>1 DEF MouseFocus
<1>3. minside' = [p \in Pointers |-> CASE p \in MOfWindow(w) -> w
                                      [] p \in MLeft \ MOfWindow(w) -> None
                                      [] OTHER -> minside[p]]
  BY <1>1 DEF MouseFocus
<1>4. MOfWindow(w) \subseteq ptr /\ MLeft \subseteq ptr
  BY DEF MOfWindow, Of, MLeft
<1>5. ASSUME NEW p \in Pointers
      PROVE  minside'[p] = IF p \in MOfWindow(w) THEN w
                          ELSE IF p \in MLeft THEN None ELSE minside[p]
  BY <1>3
<1>6. minside' \in [Pointers -> Windows \cup {None}]
  BY <1>3, <1>5
<1>7. ASSUME NEW p \in ptr \ mlate
      PROVE  minside'[p] = IF p \in mactive' THEN w ELSE None
  BY <1>1, <1>2, <1>5 DEF MInsideIsFocus
<1>8. MInsideOK'
  BY <1>1, <1>2, <1>5 DEF MInsideOK
<1> QED
  BY <1>2, <1>6, <1>7, <1>8

LEMMA MNewWindowInv ==
  ASSUME PointerAssumption, MIInv, NEW w \in Windows, MNewWindow(w)
  PROVE  MIInv'
<1> USE DEF PointerAssumption, SeatAssumption, MIInv, MNewWindow, mriov, mclientv, MFocusAgrees
<1>1. MTypeOK'
  BY DEF MTypeOK
<1>2. MActiveIsFocus' /\ MInsideIsFocus'
  BY DEF MActiveIsFocus, MInsideIsFocus, MOfWindow, Of
<1>3. MGoneClean' /\ MInsideOK'
  BY DEF MGoneClean, MInsideOK
<1>4. ButtonsAgree'
  <2> SUFFICES ASSUME NEW p \in ptr \ mlate, NEW v \in win \cup {w},
                      Owner[p] = Owner[v]
               PROVE  mdown[p][v] = button[v]
    BY DEF ButtonsAgree
  <2>1. CASE v = w
    BY <2>1 DEF MGoneClean, MTypeOK
  <2>2. CASE v # w
    BY <2>2 DEF ButtonsAgree
  <2> QED
    BY <2>1, <2>2
<1> QED
  BY <1>1, <1>2, <1>3, <1>4

(* The window that goes takes what is known of it along.                   *)
LEMMA MDestroyWindowInv ==
  ASSUME PointerAssumption, MIInv, NEW w \in Windows, MDestroyWindow(w)
  PROVE  MIInv'
<1> USE DEF PointerAssumption, SeatAssumption, MIInv, MDestroyWindow, MFocusGoes, MFocusAgrees
<1>1. /\ mactive' = MOfWindow(mfocus')
      /\ mfocus' \in (win \ {w}) \cup {None}
      /\ minside' \in [Pointers -> Windows \cup {None}]
      /\ \A p \in ptr \ mlate : minside'[p] = IF p \in mactive' THEN mfocus' ELSE None
      /\ MInsideOK'
  <2>1. CASE mfocus = w
    BY <2>1, MouseFocusMoves
  <2>2. CASE mfocus # w
    BY <2>2 DEF MActiveIsFocus, MInsideIsFocus, MTypeOK, MInsideOK
  <2> QED
    BY <2>1, <2>2
<1>2. MOfWindow(mfocus)' = MOfWindow(mfocus')
  BY DEF MOfWindow, Of
<1>3. MOfWindow(mfocus') \subseteq ptr
  BY DEF MOfWindow, Of
<1>4. MTypeOK'
  BY <1>1, <1>3 DEF MTypeOK
<1>5. MActiveIsFocus' /\ MInsideIsFocus'
  BY <1>1, <1>2 DEF MActiveIsFocus, MInsideIsFocus
<1>6. MGoneClean'
  BY DEF MGoneClean, MTypeOK
<1>7. ButtonsAgree'
  BY DEF ButtonsAgree, MTypeOK
<1> QED
  BY <1>1, <1>4, <1>5, <1>6, <1>7

LEMMA CurrentInv ==
  ASSUME PointerAssumption, MIInv, NEW w \in Windows,
         GainCurrent(w) \/ LoseCurrent(w)
  PROVE  MIInv'
<1> USE DEF PointerAssumption, SeatAssumption, MIInv, MFocusAgrees
<1>1. CASE GainCurrent(w)
  BY <1>1 DEF GainCurrent, mriov, mclientv, MTypeOK, MActiveIsFocus, MInsideIsFocus,
              MInsideOK, MGoneClean, ButtonsAgree, MOfWindow, Of
<1>2. CASE LoseCurrent(w)
  <2> USE <1>2 DEF LoseCurrent
  <2>1. /\ mactive' = MOfWindow(mfocus')
        /\ mfocus' \in win \cup {None}
        /\ minside' \in [Pointers -> Windows \cup {None}]
        /\ \A p \in ptr \ mlate : minside'[p] = IF p \in mactive' THEN mfocus' ELSE None
        /\ MInsideOK'
    <3>1. CASE mfocus = w
      BY <3>1, MouseFocusMoves
    <3>2. CASE mfocus # w
      BY <3>2 DEF MActiveIsFocus, MInsideIsFocus, MTypeOK, MInsideOK
    <3> QED
      BY <3>1, <3>2
  <2>2. MOfWindow(mfocus)' = MOfWindow(mfocus') /\ MOfWindow(mfocus') \subseteq ptr
    BY DEF MOfWindow, Of
  <2>3. MTypeOK'
    BY <2>1, <2>2 DEF MTypeOK, mriov
  <2>4. MActiveIsFocus' /\ MInsideIsFocus' /\ MGoneClean' /\ ButtonsAgree'
    BY <2>1, <2>2 DEF MActiveIsFocus, MInsideIsFocus, MGoneClean, ButtonsAgree
  <2> QED
    BY <2>1, <2>3, <2>4
<1> QED
  BY <1>1, <1>2

(* A new pointer is on the list that the focus says; it is late, or no     *)
(* window of its client has a button down.                                 *)
LEMMA GetPointerInv ==
  ASSUME PointerAssumption, MIInv, NEW p \in Pointers, GetPointer(p)
  PROVE  MIInv'
<1> USE DEF PointerAssumption, SeatAssumption, MIInv, MFocusAgrees, GetPointer, mriov
<1>1. MTypeOK'
  BY DEF MTypeOK
<1>2. MActiveIsFocus'
  BY DEF MActiveIsFocus, MOfWindow, Of, HasMouse
<1>3. MInsideIsFocus'
  BY <1>2 DEF MInsideIsFocus, MInsideOK, MTypeOK, HasMouse, MActiveIsFocus
<1>4. MGoneClean' /\ MInsideOK'
  BY DEF MGoneClean, MInsideOK
<1>5. ButtonsAgree'
  <2> SUFFICES ASSUME NEW q \in (ptr \cup {p}) \ mlate', NEW w \in win,
                      Owner[q] = Owner[w]
               PROVE  mdown[q][w] = button[w]
    BY DEF ButtonsAgree
  <2>1. CASE q = p
    BY <2>1 DEF MGoneClean, MTypeOK
  <2>2. CASE q # p
    BY <2>2 DEF ButtonsAgree
  <2> QED
    BY <2>1, <2>2
<1> QED
  BY <1>1, <1>2, <1>3, <1>4, <1>5

LEMMA MReleaseInv ==
  ASSUME PointerAssumption, MIInv, NEW p \in Pointers, MRelease(p)
  PROVE  MIInv'
<1> USE DEF PointerAssumption, SeatAssumption, MIInv, MFocusAgrees, MRelease, mriov, Unlinked
<1>1. MTypeOK'
  BY DEF MTypeOK
<1>2. MActiveIsFocus'
  BY DEF MActiveIsFocus, MOfWindow, Of
<1>3. MInsideIsFocus'
  BY DEF MInsideIsFocus, MTypeOK
<1>4. MGoneClean' /\ MInsideOK'
  BY DEF MGoneClean, MInsideOK, MTypeOK
<1>5. ButtonsAgree'
  BY DEF ButtonsAgree, MTypeOK
<1> QED
  BY <1>1, <1>2, <1>3, <1>4, <1>5

LEMMA MouseEventInv ==
  ASSUME PointerAssumption, MIInv, NEW w \in Windows, NEW b \in SUBSET Buttons,
         MouseEvent(w, b)
  PROVE  MIInv'
<1> USE DEF PointerAssumption, SeatAssumption, MIInv, MFocusAgrees, MouseEvent, mclientv
<1>1. MTypeOK'
  BY DEF MTypeOK
<1>2. MActiveIsFocus' /\ MInsideIsFocus' /\ MGoneClean' /\ ButtonsAgree'
  BY DEF MActiveIsFocus, MOfWindow, Of, MInsideIsFocus, MGoneClean, ButtonsAgree
<1>3. MInsideOK'
  BY DEF MInsideOK
<1> QED
  BY <1>1, <1>2, <1>3

(* The presses and releases that mouseread sends turn w->button into b.    *)
LEMMA ToldIsRead ==
  ASSUME NEW w, NEW b
  PROVE  Told(w, b, button[w]) = b
BY DEF Told

(* The focus is on w when the buttons are told, so that the pointers that  *)
(* hear of them are those inside w.                                        *)
LEMMA MouseReadInv ==
  ASSUME PointerAssumption, MIInv, NEW w \in Windows, MouseRead(w)
  PROVE  MIInv'
<1> USE DEF PointerAssumption, SeatAssumption, MIInv, MFocusAgrees
<1> DEFINE b == Head(mqueue[w])
<1>1. b \in SUBSET Buttons /\ mqueue' \in [Windows -> Seq(SUBSET Buttons)]
  BY DEF MouseRead, MTypeOK
<1> HIDE DEF b
<1>2. /\ w \in win
      /\ button' = [button EXCEPT ![w] = b]
      /\ mdown' = [p \in Pointers |->
                   IF p \in mactive' /\ minside'[p] # None
                   THEN [mdown[p] EXCEPT ![minside'[p]] = Told(w, b, @)]
                   ELSE mdown[p]]
      /\ UNCHANGED <<win, current, ptr, held, holder, mlate>>
  BY DEF MouseRead, b
<1>3. IF mfocus # w THEN MouseFocus(w) ELSE UNCHANGED <<mactive, minside, mfocus>>
  BY DEF MouseRead
<1>4. /\ mactive' = MOfWindow(w)
      /\ mfocus' = w
      /\ minside' \in [Pointers -> Windows \cup {None}]
      /\ \A p \in ptr \ mlate : minside'[p] = IF p \in mactive' THEN w ELSE None
      /\ MInsideOK'
  <2>1. CASE mfocus = w
    BY <1>2, <1>3, <2>1 DEF MActiveIsFocus, MInsideIsFocus, MTypeOK, MInsideOK
  <2>2. CASE mfocus # w
    BY <1>2, <1>3, <2>2, MouseFocusMoves
  <2> QED
    BY <2>1, <2>2
<1>5. MOfWindow(mfocus)' = MOfWindow(w) /\ MOfWindow(w) \subseteq ptr
  BY <1>2, <1>4 DEF MOfWindow, Of
<1>6. MActiveIsFocus' /\ MInsideIsFocus'
  BY <1>2, <1>4, <1>5 DEF MActiveIsFocus, MInsideIsFocus
<1>7. ASSUME NEW p \in Pointers, NEW v \in Windows
      PROVE  /\ mdown'[p][v] = IF p \in mactive' /\ minside'[p] = v
                              THEN Told(w, b, mdown[p][v]) ELSE mdown[p][v]
             /\ mdown'[p] \in [Windows -> SUBSET Buttons]
  <2>1. mdown[p] \in [Windows -> SUBSET Buttons] /\ button[w] \in SUBSET Buttons
    BY DEF MTypeOK
  <2>2. \A was \in SUBSET Buttons : Told(w, b, was) \in SUBSET Buttons
    BY <1>1, <2>1 DEF Told
  <2>3. v # None
    OBVIOUS
  <2> QED
    BY <1>2, <1>4, <2>1, <2>2, <2>3
<1>8. mdown' \in [Pointers -> [Windows -> SUBSET Buttons]]
  <2>1. \A p \in Pointers : mdown'[p] \in [Windows -> SUBSET Buttons]
    BY <1>7
  <2> QED
    BY <1>2, <2>1
<1>9. MTypeOK'
  BY <1>1, <1>2, <1>4, <1>5, <1>8 DEF MTypeOK
<1>10. MGoneClean'
  <2>1. \A p \in Pointers, v \in Windows :
          ~ (p \in mactive' /\ minside'[p] = v) => mdown'[p][v] = mdown[p][v]
    BY <1>7
  <2>2. ASSUME NEW p \in Pointers, NEW v \in Windows \ win
        PROVE  mdown'[p][v] = {}
    <3>1. ~ (p \in mactive' /\ minside'[p] = v)
      BY <1>2, <1>4 DEF MInsideOK
    <3> QED
      BY <1>2, <2>1, <3>1 DEF MGoneClean
  <2>3. ASSUME NEW p \in Pointers \ ptr, NEW v \in Windows
        PROVE  mdown'[p][v] = {}
    BY <1>4, <1>5, <2>1 DEF MGoneClean
  <2> QED
    BY <1>2, <1>4, <2>2, <2>3 DEF MGoneClean, MTypeOK
<1>11. ButtonsAgree'
  <2> SUFFICES ASSUME NEW p \in ptr \ mlate, NEW v \in win, Owner[p] = Owner[v]
               PROVE  mdown'[p][v] = button'[v]
    BY <1>2 DEF ButtonsAgree
  <2>1. mdown[p][v] = button[v] /\ p \in Pointers /\ v \in Windows
    BY DEF ButtonsAgree, MTypeOK
  <2>2. CASE v = w
    <3>1. p \in mactive' /\ minside'[p] = w
      BY <1>4, <2>2 DEF MOfWindow, Of
    <3>2. mdown'[p][w] = Told(w, b, button[w])
      BY <1>7, <2>1, <2>2, <3>1
    <3>3. button'[w] = b
      BY <1>2 DEF MTypeOK
    <3> QED
      BY <2>2, <3>2, <3>3, ToldIsRead
  <2>3. CASE v # w
    <3>1. ~ (p \in mactive' /\ minside'[p] = v)
      BY <1>4, <2>3
    <3> QED
      BY <1>2, <1>7, <2>1, <2>3, <3>1 DEF MTypeOK
  <2> QED
    BY <2>2, <2>3
<1> QED
  BY <1>4, <1>6, <1>9, <1>10, <1>11

LEMMA MStepInv ==
  ASSUME PointerAssumption
  PROVE  MIInv /\ [MNext]_mvars => MIInv'
<1> SUFFICES ASSUME MIInv, [MNext]_mvars
             PROVE  MIInv'
  OBVIOUS
<1>1. CASE UNCHANGED mvars
  BY <1>1 DEF mvars, mriov, mclientv, MIInv, MFocusAgrees, MTypeOK, MActiveIsFocus,
              MInsideIsFocus, MInsideOK, MGoneClean, ButtonsAgree, MOfWindow, Of
<1>2. CASE MNext
  BY <1>2, MNewWindowInv, MDestroyWindowInv, CurrentInv, GetPointerInv,
     MReleaseInv, MouseEventInv, MouseReadInv DEF MNext
<1> QED
  BY <1>1, <1>2

(* MIInv holds in every reachable state, for any windows, pointers and     *)
(* buttons (wl9.c:317-344, 507-571).                                       *)
THEOREM MInvariance ==
  ASSUME PointerAssumption
  PROVE  MSpec => []MIInv
BY MInitInv, MStepInv, PTL DEF MSpec

(* A client gets the mouse events of its own windows and of no other:      *)
(* mouse.active holds its pointers, each enter is paired with a leave      *)
(* before the focus goes on or its window goes, and the buttons it counts  *)
(* are those its window last read, also when the focus came and went in    *)
(* between (wl9.c:317-344, 543-570).                                       *)
THEOREM MouseIsRight ==
  ASSUME PointerAssumption
  PROVE  MSpec => []MouseAgrees
<1>1. MIInv => MouseAgrees
  BY DEF MIInv, MouseAgrees
<1> QED
  BY <1>1, MInvariance, PTL

-----------------------------------------------------------------------------
(* What is true of 0 and of every successor is true of all numbers.        *)
LEMMA Induction ==
  ASSUME NEW T, 0 \in T, \A n \in Nat : n \in T => n + 1 \in T
  PROVE  Nat \subseteq T
<1> SUFFICES ASSUME Nat \ T # {}
             PROVE  FALSE
  OBVIOUS
<1>1. PICK n \in Nat \ T : \A m \in Nat \ T : <<m, n>> \notin OpToRel(<, Nat)
  BY NatLessThanWellFounded, WFMin
<1>2. n \in Nat /\ n \notin T
  BY <1>1
<1>3. n # 0 /\ n - 1 \in Nat /\ n - 1 < n /\ (n - 1) + 1 = n
  BY <1>2
<1>4. n - 1 \in T
  BY <1>1, <1>3 DEF OpToRel
<1> QED
  BY <1>2, <1>3, <1>4

(* The queue without a window's replies has replies of the others only; a  *)
(* queue without any stays as it is.                                       *)
LEMMA KeptReplies ==
  ASSUME NEW S, NEW q \in Seq(S), NEW w
  PROVE  /\ Kept(q, w) \in Seq({e \in S : e.win # w})
         /\ (\A i \in DOMAIN q : q[i].win # w) => Kept(q, w) = q
<1> DEFINE R == {e \in S : e.win # w}
           Body(f, i) == IF i = 0 THEN <<>>
                         ELSE IF q[i].win = w THEN f[i - 1] ELSE Append(f[i - 1], q[i])
           Is(f, n) == f = [i \in 0 .. n |-> Body(f, i)]
           k == CHOOSE f : Is(f, Len(q))
<1>0. Len(q) \in Nat /\ DOMAIN q = 1 .. Len(q) /\ \A i \in 1 .. Len(q) : q[i] \in S
  OBVIOUS
<1>1. ASSUME NEW n \in Nat, NEW f, Is(f, n)
      PROVE  \E g : Is(g, n + 1)
  <2> DEFINE g == [i \in 0 .. n + 1 |-> IF i <= n THEN f[i] ELSE Body(f, n + 1)]
  <2>1. ASSUME NEW i \in 0 .. n + 1
        PROVE  g[i] = Body(g, i)
    <3>1. CASE i = 0
      BY <1>1, <3>1
    <3>2. CASE i # 0
      <4>1. g[i - 1] = f[i - 1]
        BY <3>2
      <4>2. g[i] = Body(f, i)
        <5>1. CASE i <= n
          <6>1. i \in 0 .. n /\ g[i] = f[i]
            BY <5>1
          <6> QED
            BY <1>1, <6>1
        <5>2. CASE i = n + 1
          BY <5>2
        <5> QED
          BY <5>1, <5>2
      <4> QED
        BY <3>2, <4>1, <4>2
    <3> QED
      BY <3>1, <3>2
  <2>2. g = [i \in 0 .. n + 1 |-> g[i]]
    OBVIOUS
  <2> HIDE DEF g
  <2>3. Is(g, n + 1)
    BY <2>1, <2>2
  <2> QED
    BY <2>3
<1>2. \E f : Is(f, 0)
  <2>1. Is([i \in 0 .. 0 |-> <<>>], 0)
    OBVIOUS
  <2> QED
    BY <2>1
<1> HIDE DEF Is
<1>3. \E f : Is(f, Len(q))
  <2> DEFINE T == {n \in Nat : \E f : Is(f, n)}
  <2>1. 0 \in T /\ \A n \in Nat : n \in T => n + 1 \in T
    BY <1>1, <1>2
  <2> HIDE DEF T
  <2>2. Nat \subseteq T
    BY <2>1, Induction
  <2> QED
    BY <1>0, <2>2 DEF T
<1>4. Is(k, Len(q))
  BY <1>3
<1>5. Kept(q, w) = k[Len(q)]
  BY DEF Kept, Is
<1> HIDE DEF k
<1>6. k[0] = <<>>
  BY <1>0, <1>4 DEF Is
<1>7. ASSUME NEW n \in Nat, n + 1 <= Len(q)
      PROVE  k[n + 1] = IF q[n + 1].win = w THEN k[n] ELSE Append(k[n], q[n + 1])
  <2>1. n + 1 \in 0 .. Len(q) /\ n + 1 # 0 /\ (n + 1) - 1 = n
    BY <1>0, <1>7
  <2>2. k[n + 1] = Body(k, n + 1)
    BY <1>4, <2>1 DEF Is
  <2> QED
    BY <2>1, <2>2
<1>8. Len(q) <= Len(q) => k[Len(q)] \in Seq(R)
  <2> DEFINE T == {n \in Nat : n <= Len(q) => k[n] \in Seq(R)}
  <2>1. 0 \in T
    <3>1. <<>> \in Seq(R)
      OBVIOUS
    <3> QED
      BY <1>6, <3>1
  <2>2. ASSUME NEW n \in Nat, n \in T
        PROVE  n + 1 \in T
    <3> SUFFICES ASSUME n + 1 <= Len(q)
                 PROVE  k[n + 1] \in Seq(R)
      OBVIOUS
    <3>1. k[n] \in Seq(R) /\ n + 1 \in 1 .. Len(q)
      BY <1>0, <2>2
    <3>2. CASE q[n + 1].win = w
      BY <1>7, <3>1, <3>2
    <3>3. CASE q[n + 1].win # w
      <4>1. q[n + 1] \in R
        BY <1>0, <3>1, <3>3
      <4>2. Append(k[n], q[n + 1]) \in Seq(R)
        BY <3>1, <4>1, AppendProperties
      <4> QED
        BY <1>7, <3>3, <4>2
    <3> QED
      BY <3>2, <3>3
  <2> HIDE DEF T
  <2>3. Nat \subseteq T
    BY <2>1, <2>2, Induction
  <2> QED
    BY <1>0, <2>3 DEF T
<1>9. ASSUME \A i \in DOMAIN q : q[i].win # w
      PROVE  k[Len(q)] = q
  <2> DEFINE T == {n \in Nat : n <= Len(q) => k[n] = SubSeq(q, 1, n)}
  <2>1. 0 \in T
    <3>1. SubSeq(q, 1, 0) = <<>>
      OBVIOUS
    <3> QED
      BY <1>6, <3>1
  <2>2. ASSUME NEW n \in Nat, n \in T
        PROVE  n + 1 \in T
    <3> SUFFICES ASSUME n + 1 <= Len(q)
                 PROVE  k[n + 1] = SubSeq(q, 1, n + 1)
      OBVIOUS
    <3>1. k[n] = SubSeq(q, 1, n) /\ n + 1 \in 1 .. Len(q)
      BY <1>0, <2>2
    <3>2. k[n + 1] = Append(SubSeq(q, 1, n), q[n + 1])
      BY <1>0, <1>7, <1>9, <3>1
    <3>3. SubSeq(q, 1, n + 1) = Append(SubSeq(q, 1, n), q[n + 1])
      BY <1>0, <3>1
    <3> QED
      BY <3>2, <3>3
  <2> HIDE DEF T
  <2>3. Nat \subseteq T
    BY <2>1, <2>2, Induction
  <2>4. k[Len(q)] = SubSeq(q, 1, Len(q))
    BY <1>0, <2>3 DEF T
  <2> QED
    BY <1>0, <2>4
<1> QED
  BY <1>0, <1>5, <1>8, <1>9

(* Taking a reply out leaves replies; taking the first is Tail.            *)
LEMMA RemoveAtReplies ==
  ASSUME NEW S, NEW q \in Seq(S), NEW i \in DOMAIN q
  PROVE  /\ RemoveAt(q, i) \in Seq(S)
         /\ i = 1 => RemoveAt(q, i) = Tail(q)
<1>1. SubSeq(q, 1, i - 1) \in Seq(S) /\ SubSeq(q, i + 1, Len(q)) \in Seq(S)
  OBVIOUS
<1>2. RemoveAt(q, i) \in Seq(S)
  BY <1>1, ConcatProperties DEF RemoveAt
<1>3. ASSUME i = 1
      PROVE  RemoveAt(q, i) = Tail(q)
  <2>1. SubSeq(q, 1, 0) = <<>>
    OBVIOUS
  <2>2. RemoveAt(q, i) = SubSeq(q, 2, Len(q))
    BY <1>1, <1>3, <2>1 DEF RemoveAt
  <2> QED
    BY <1>3, <2>2
<1> QED
  BY <1>2, <1>3
-----------------------------------------------------------------------------
(* What one reply leaves behind of the current window and its keys, and    *)
(* what it was made for.                                                   *)
After(e) ==
  IF e.file = "wctl" THEN <<IF e.current THEN e.win ELSE None, {}>>
  ELSE <<e.win, IF e.file = "k" THEN e.keys \cup {e.key} ELSE e.keys>>

Fits(state, e) ==
  CASE e.file = "k" -> state = <<e.win, e.keys>>
    [] e.file = "K" -> \E x \in Keys \ e.keys : state = <<e.win, e.keys \cup {x}>>
    [] OTHER -> state = <<IF e.current THEN None ELSE e.win, {}>>

Before(q, start, i) == IF i = 1 THEN start ELSE After(q[i - 1])

(* The replies of q lead from start to end.                                *)
Path(q, start, end) ==
  /\ \A i \in 1 .. Len(q) : Fits(Before(q, start, i), q[i])
  /\ Before(q, start, Len(q) + 1) = end

LEMMA PathTail ==
  ASSUME NEW S, NEW q \in Seq(S), q # <<>>, NEW start, NEW end, Path(q, start, end)
  PROVE  Fits(start, q[1]) /\ Path(Tail(q), After(q[1]), end)
<1>1. /\ Len(q) \in Nat \ {0} /\ Len(Tail(q)) = Len(q) - 1
      /\ \A i \in 1 .. Len(q) - 1 : Tail(q)[i] = q[i + 1]
  BY HeadTailProperties, EmptySeq, LenProperties
<1>2. \A i \in 1 .. Len(q) : Before(Tail(q), After(q[1]), i) = Before(q, start, i + 1)
  BY <1>1 DEF Before
<1>3. Fits(start, q[1])
  BY <1>1 DEF Path, Before
<1>4. \A i \in 1 .. Len(Tail(q)) : Fits(Before(Tail(q), After(q[1]), i), Tail(q)[i])
  BY <1>1, <1>2 DEF Path
<1>5. Before(Tail(q), After(q[1]), Len(Tail(q)) + 1) = end
  BY <1>1, <1>2 DEF Path
<1> QED
  BY <1>3, <1>4, <1>5 DEF Path

LEMMA PathAppend ==
  ASSUME NEW S, NEW q \in Seq(S), NEW e \in S, NEW start, NEW end,
         Path(q, start, end), Fits(end, e)
  PROVE  Path(Append(q, e), start, After(e))
<1> DEFINE r == Append(q, e)
<1>1. /\ Len(q) \in Nat /\ Len(r) = Len(q) + 1
      /\ \A i \in 1 .. Len(q) : r[i] = q[i]
      /\ r[Len(q) + 1] = e
  BY AppendProperties
<1> HIDE DEF r
<1>2. \A i \in 1 .. Len(q) + 1 : Before(r, start, i) = Before(q, start, i)
  BY <1>1 DEF Before
<1>3. \A i \in 1 .. Len(r) : Fits(Before(r, start, i), r[i])
  BY <1>1, <1>2 DEF Path
<1>4. Before(r, start, Len(r) + 1) = After(e)
  BY <1>1 DEF Before
<1> QED
  BY <1>3, <1>4 DEF Path, r

(* A path without replies to w that ends at w began at w; one that began   *)
(* at w is then empty.                                                     *)
LEMMA PathAvoids ==
  ASSUME NEW S, NEW q \in Seq(S), NEW start, NEW end, Path(q, start, end),
         NEW w, w # None, \A i \in DOMAIN q : q[i].win # w
  PROVE  /\ start = <<w, {}>> => q = <<>>
         /\ end[1] = w => q = <<>>
         /\ q = <<>> => start = end
<1>0. Len(q) \in Nat /\ DOMAIN q = 1 .. Len(q)
  OBVIOUS
<1>1. ASSUME q # <<>>
      PROVE  start # <<w, {}>> /\ end[1] # w
  <2>1. Len(q) # 0 /\ 1 \in DOMAIN q /\ Len(q) \in DOMAIN q
    BY <1>0, <1>1
  <2>2. Fits(start, q[1]) /\ q[1].win # w
    BY <1>0, <2>1 DEF Path, Before
  <2>3. start # <<w, {}>>
    BY <2>2 DEF Fits
  <2>4. end = After(q[Len(q)]) /\ q[Len(q)].win # w
    BY <1>0, <2>1 DEF Path, Before
  <2>5. end[1] # w
    BY <2>4 DEF After
  <2> QED
    BY <2>3, <2>5
<1>2. ASSUME q = <<>>
      PROVE  start = end
  BY <1>2 DEF Path, Before
<1> QED
  BY <1>1, <1>2

-----------------------------------------------------------------------------
(* A keyboard that is not there was told nothing and is inside nothing.    *)
GoneClean == \A k \in Keyboards \ kbds : inside[k] = None

Held == IF focus = None THEN {} ELSE keys[focus]

(* What holds when replies come in order.                                  *)
QueueOK == Path(queue, <<focus, Held>>, <<input, pressed>>)

CurrentOK ==
  /\ current = {focus} \ {None}
  /\ \A w \in Windows : w # focus => keys[w] = {}

ToldOK ==
  /\ mods = keymapmod(Held)
  /\ \A k \in active \ late : down[k] = keys[focus]
  /\ \A k \in Keyboards \ late : told[k] = IF k \in active THEN mods ELSE {}

OrderOK == QueueOK /\ CurrentOK /\ ToldOK

FocusOK == TypeOK /\ ActiveIsFocus /\ InsideIsFocus /\ GoneClean

IInv == FocusOK /\ NoStuckKeys /\ (orderly => OrderOK)

LEMMA InitInv ==
  ASSUME KbdAssumption
  PROVE  Init => IInv
<1> SUFFICES ASSUME Init
             PROVE  IInv
  OBVIOUS
<1> USE DEF KbdAssumption, SeatAssumption, Init
<1>1. TypeOK
  BY DEF TypeOK
<1>2. ActiveIsFocus /\ InsideIsFocus /\ GoneClean /\ NoStuckKeys
  BY DEF ActiveIsFocus, OfWindow, InsideIsFocus, GoneClean, NoStuckKeys
<1>3. QueueOK
  BY DEF QueueOK, Path, Before, Held
<1>4. CurrentOK /\ ToldOK
  BY DEF CurrentOK, ToldOK, Held, keymapmod
<1> QED
  BY <1>1, <1>2, <1>3, <1>4 DEF IInv, FocusOK, OrderOK

(* The reach of kbd.active when w has the focus.                           *)
LEMMA ActiveInWindow ==
  ASSUME ActiveIsFocus, NEW w
  PROVE  ActiveIn(w) = OfWindow(w)
BY DEF ActiveIsFocus, ActiveIn, Left, OfWindow

(* kbdfocus moves the lists and the enters along with the focus, to a      *)
(* window or to none; who enters or leaves has no key down.                *)
LEMMA KbdFocusMoves ==
  ASSUME KbdAssumption, FocusOK, NEW w \in Windows \cup {None},
         KbdFocus(w), UNCHANGED <<kbds, late>>
  PROVE  /\ active' = OfWindow(w)
         /\ focus' = w
         /\ inside' \in [Keyboards -> Windows \cup {None}]
         /\ InsideIsFocus'
         /\ GoneClean'
         /\ down' \in [Keyboards -> SUBSET Keys]
         /\ \A k \in Keyboards :
              down'[k] = IF focus # w /\ k \in active \cup active' THEN {} ELSE down[k]
<1> USE DEF KbdAssumption, SeatAssumption, FocusOK, TypeOK
<1>1. active' = OfWindow(w) /\ focus' = w
  BY ActiveInWindow DEF KbdFocus
<1> DEFINE entered == OfWindow(w) \ (active \ Left(w))
<1>2. entered = (IF focus = w THEN {} ELSE OfWindow(w))
  BY DEF Left, ActiveIsFocus, OfWindow
<1>3. /\ inside' = [k \in Keyboards |-> CASE k \in entered -> w
                                          [] k \in Left(w) \ entered -> None
                                          [] OTHER -> inside[k]]
      /\ down' = [k \in Keyboards |-> IF k \in Left(w) \cup entered THEN {} ELSE down[k]]
  BY ActiveInWindow DEF KbdFocus
<1> HIDE DEF entered
<1>4. OfWindow(w) \subseteq kbds /\ Left(w) \subseteq active
  BY DEF OfWindow, Left
<1>5. ASSUME NEW k \in Keyboards
      PROVE  /\ inside'[k] = IF k \in entered THEN w
                             ELSE IF k \in Left(w) THEN None ELSE inside[k]
             /\ down'[k] = IF k \in Left(w) \cup entered THEN {} ELSE down[k]
  BY <1>3
<1>6. inside' \in [Keyboards -> Windows \cup {None}] /\ down' \in [Keyboards -> SUBSET Keys]
  BY <1>3, <1>5
<1>7. InsideIsFocus'
  BY <1>1, <1>2, <1>5 DEF InsideIsFocus, Left, ActiveIsFocus, OfWindow
<1>8. GoneClean'
  BY <1>2, <1>4, <1>5 DEF GoneClean
<1>9. ASSUME NEW k \in Keyboards
      PROVE  down'[k] = IF focus # w /\ k \in active \cup active' THEN {} ELSE down[k]
  BY <1>1, <1>2, <1>5 DEF Left, ActiveIsFocus, OfWindow
<1> QED
  BY <1>1, <1>6, <1>7, <1>8, <1>9

LEMMA NewWindowInv ==
  ASSUME KbdAssumption, IInv, UNCHANGED orderly, NEW w \in Windows, NewWindow(w)
  PROVE  IInv'
<1> USE DEF KbdAssumption, SeatAssumption, IInv, FocusOK, NewWindow, riov, clientv
<1>1. Message \subseteq Message'
  BY DEF Message
<1>2. queue' \in Seq(Message')
  BY <1>1 DEF TypeOK
<1>3. TypeOK'
  BY <1>2 DEF TypeOK, Mods
<1>4. ActiveIsFocus' /\ InsideIsFocus' /\ GoneClean' /\ NoStuckKeys'
  BY DEF ActiveIsFocus, OfWindow, InsideIsFocus, GoneClean, NoStuckKeys
<1>5. orderly => OrderOK'
  BY DEF OrderOK, QueueOK, Path, Before, Held, CurrentOK, ToldOK, keymapmod
<1> QED
  BY <1>3, <1>4, <1>5

(* The window's replies go with it; in order there are none, and it has no *)
(* keys.                                                                   *)
LEMMA DestroyWindowInv ==
  ASSUME KbdAssumption, IInv, UNCHANGED orderly, NEW w \in Windows, DestroyWindow(w)
  PROVE  IInv'
<1> USE DEF KbdAssumption, SeatAssumption, IInv, FocusOK
<1>1. /\ w \in win /\ win' = win \ {w} /\ current' = current \ {w}
      /\ keys' = [keys EXCEPT ![w] = {}]
      /\ queue' = Kept(queue, w)
      /\ input' = IF input = w THEN None ELSE input
      /\ pressed' = IF input = w THEN {} ELSE pressed
      /\ UNCHANGED <<kbds, mods, told, late>>
      /\ w # None
  BY DEF DestroyWindow
<1>2. /\ active' = OfWindow(focus')
      /\ focus' = IF focus = w THEN None ELSE focus
      /\ inside' \in [Keyboards -> Windows \cup {None}]
      /\ InsideIsFocus'
      /\ GoneClean'
      /\ down' \in [Keyboards -> SUBSET Keys]
      /\ focus # w => down' = down
  <2>1. CASE focus = w
    <3>1. KbdFocus(None)
      BY <2>1 DEF DestroyWindow, FocusGoes
    <3> QED
      BY <1>1, <2>1, <3>1, KbdFocusMoves
  <2>2. CASE focus # w
    <3>1. UNCHANGED <<active, inside, down, focus>>
      BY <2>2 DEF DestroyWindow, FocusGoes
    <3> QED
      BY <1>1, <2>2, <3>1 DEF TypeOK, ActiveIsFocus, InsideIsFocus, GoneClean
  <2> QED
    BY <2>1, <2>2
<1>3. OfWindow(focus)' = OfWindow(focus') /\ OfWindow(focus') \subseteq kbds
  BY <1>1 DEF OfWindow
<1>4. queue' \in Seq(Message')
  <2>1. {e \in Message : e.win # w} = Message'
    BY <1>1 DEF Message
  <2> QED
    BY <1>1, <2>1, KeptReplies DEF TypeOK
<1>5. TypeOK'
  BY <1>1, <1>2, <1>3, <1>4 DEF TypeOK, Mods
<1>6. ActiveIsFocus'
  BY <1>1, <1>2, <1>3 DEF ActiveIsFocus
<1>7. NoStuckKeys'
  BY <1>1, <1>2, <1>3 DEF NoStuckKeys, TypeOK, ActiveIsFocus, OfWindow
<1>8. ASSUME orderly
      PROVE  OrderOK'
  <2>1. /\ keys[w] = {} /\ (input = w => pressed = {})
        /\ \A i \in DOMAIN queue : queue[i].win # w
    BY <1>8 DEF DestroyWindow
  <2>2. queue' = queue /\ keys' = keys
    BY <1>1, <2>1, KeptReplies DEF TypeOK
  <2>3. /\ focus = w => queue = <<>>
        /\ input = w => queue = <<>>
        /\ queue = <<>> => focus = input /\ Held = pressed
    <3> DEFINE start == <<focus, Held>>
               end == <<input, pressed>>
    <3>1. Path(queue, start, end) /\ queue \in Seq(Message)
      BY <1>8 DEF OrderOK, QueueOK, TypeOK
    <3>2. focus = w => start = <<w, {}>>
      BY <1>1, <2>1 DEF Held
    <3>3. end[1] = input /\ (start = end => focus = input /\ Held = pressed)
      OBVIOUS
    <3> HIDE DEF start, end
    <3>4. w # None /\ \A i \in DOMAIN queue : queue[i].win # w
      BY <1>1, <2>1
    <3>5. /\ start = <<w, {}>> => queue = <<>>
          /\ end[1] = w => queue = <<>>
          /\ queue = <<>> => start = end
      BY <3>1, <3>4, PathAvoids
    <3> QED
      BY <3>2, <3>3, <3>5
  <2>4. Held' = Held /\ <<input, pressed>>' = <<IF focus = w THEN None ELSE input, pressed>>
    BY <1>1, <1>2, <2>1, <2>2, <2>3 DEF Held
  <2>5. QueueOK'
    <3>1. CASE focus = w
      BY <1>2, <2>2, <2>3, <2>4, <3>1 DEF QueueOK, Path, Before
    <3>2. CASE focus # w
      BY <1>2, <1>8, <2>2, <2>4, <3>2 DEF OrderOK, QueueOK
    <3> QED
      BY <3>1, <3>2
  <2>6. CurrentOK'
    BY <1>1, <1>2, <1>8, <2>1, <2>2 DEF OrderOK, CurrentOK
  <2>7. ToldOK'
    <3>1. CASE focus = w
      <4>1. active' = {}
        BY <1>1, <1>2, <3>1 DEF OfWindow
      <4>2. mods = {}
        BY <1>1, <1>8, <2>1, <3>1 DEF OrderOK, ToldOK, Held, keymapmod
      <4> QED
        BY <1>1, <1>8, <2>4, <4>1, <4>2 DEF OrderOK, ToldOK, keymapmod
    <3>2. CASE focus # w
      BY <1>1, <1>2, <1>8, <2>2, <2>4, <3>2
         DEF OrderOK, ToldOK, keymapmod, ActiveIsFocus
    <3> QED
      BY <3>1, <3>2
  <2> QED
    BY <2>5, <2>6, <2>7 DEF OrderOK
<1> QED
  BY <1>2, <1>5, <1>6, <1>7, <1>8

LEMMA GetKeyboardInv ==
  ASSUME KbdAssumption, IInv, UNCHANGED orderly, NEW k \in Keyboards, GetKeyboard(k)
  PROVE  IInv'
<1> USE DEF KbdAssumption, SeatAssumption, IInv, FocusOK, GetKeyboard, riov
<1>1. TypeOK'
  BY DEF TypeOK, Message, Mods
<1>2. ActiveIsFocus'
  BY DEF ActiveIsFocus, OfWindow, HasKbd
<1>3. InsideIsFocus' /\ GoneClean'
  BY DEF InsideIsFocus, GoneClean, TypeOK
<1>4. NoStuckKeys'
  BY DEF NoStuckKeys
<1>5. orderly => OrderOK'
  BY DEF OrderOK, QueueOK, Held, CurrentOK, ToldOK, keymapmod
<1> QED
  BY <1>1, <1>2, <1>3, <1>4, <1>5

LEMMA ReleaseInv ==
  ASSUME KbdAssumption, IInv, UNCHANGED orderly, NEW k \in Keyboards, Release(k)
  PROVE  IInv'
<1> USE DEF KbdAssumption, SeatAssumption, IInv, FocusOK, Release, riov
<1>1. TypeOK'
  BY DEF TypeOK, Message, Mods
<1>2. ActiveIsFocus'
  BY DEF ActiveIsFocus, OfWindow
<1>3. InsideIsFocus' /\ GoneClean'
  BY DEF InsideIsFocus, GoneClean, TypeOK
<1>4. NoStuckKeys'
  BY DEF NoStuckKeys, TypeOK
<1>5. orderly => OrderOK'
  <2> SUFFICES ASSUME orderly
               PROVE  OrderOK'
    OBVIOUS
  <2>1. QueueOK' /\ CurrentOK'
    BY DEF OrderOK, QueueOK, Held, CurrentOK
  <2>2. ToldOK'
    BY DEF OrderOK, ToldOK, Held, keymapmod, TypeOK
  <2> QED
    BY <2>1, <2>2 DEF OrderOK
<1> QED
  BY <1>1, <1>2, <1>3, <1>4, <1>5

-----------------------------------------------------------------------------
(* rio puts replies behind those that wait, and the path gets longer.      *)
LEMMA QueuedInv ==
  ASSUME KbdAssumption, IInv, UNCHANGED orderly,
         UNCHANGED <<win, current, keys, kbds, active, focus, mods, clientv>>,
         input' \in win \cup {None}, pressed' \in SUBSET Keys,
         queue' \in Seq(Message),
         orderly => Path(queue', <<focus, Held>>, <<input', pressed'>>)
  PROVE  IInv'
<1> USE DEF IInv, FocusOK, clientv
<1>1. Message' = Message
  BY DEF Message
<1>2. TypeOK'
  BY <1>1 DEF TypeOK, Mods
<1>3. ActiveIsFocus' /\ InsideIsFocus' /\ GoneClean' /\ NoStuckKeys'
  BY DEF ActiveIsFocus, OfWindow, InsideIsFocus, GoneClean, NoStuckKeys
<1>4. orderly => OrderOK'
  BY DEF OrderOK, QueueOK, Held, CurrentOK, ToldOK, keymapmod
<1> QED
  BY <1>2, <1>3, <1>4

LEMMA KeyInv ==
  ASSUME KbdAssumption, IInv, UNCHANGED orderly, NEW key \in Keys,
         Press(key) \/ ReleaseKey(key)
  PROVE  IInv'
<1> USE DEF KbdAssumption, SeatAssumption, IInv, FocusOK
<1> DEFINE e == IF key \notin pressed
                THEN Reply("k", input, pressed, key, TRUE)
                ELSE Reply("K", input, pressed \ {key}, None, TRUE)
<1>1. /\ input \in win /\ input' = input
      /\ pressed' = IF key \notin pressed THEN pressed \cup {key} ELSE pressed \ {key}
      /\ queue' = Append(queue, e)
      /\ UNCHANGED <<win, current, keys, kbds, active, focus, mods, clientv>>
  BY DEF Press, ReleaseKey, TypeOK
<1>2. e \in Message
  BY <1>1 DEF Message, Reply, TypeOK
<1>3. Fits(<<input, pressed>>, e) /\ After(e) = <<input', pressed'>>
  <2>1. CASE key \notin pressed
    BY <1>1, <2>1 DEF Fits, After, Reply
  <2>2. CASE key \in pressed
    <3>1. pressed = (pressed \ {key}) \cup {key} /\ key \in Keys \ (pressed \ {key})
      BY <2>2
    <3>2. e.file = "K" /\ e.win = input /\ e.keys = pressed \ {key}
      BY <2>2 DEF Reply
    <3> QED
      BY <1>1, <2>2, <3>1, <3>2 DEF Fits, After
  <2> QED
    BY <2>1, <2>2
<1> HIDE DEF e
<1>4. queue' \in Seq(Message)
  BY <1>1, <1>2, AppendProperties DEF TypeOK
<1>5. orderly => Path(queue', <<focus, Held>>, <<input', pressed'>>)
  <2> SUFFICES ASSUME orderly
               PROVE  Path(queue', <<focus, Held>>, <<input', pressed'>>)
    OBVIOUS
  <2>1. queue \in Seq(Message) /\ Path(queue, <<focus, Held>>, <<input, pressed>>)
    BY DEF OrderOK, QueueOK, TypeOK
  <2>2. Path(Append(queue, e), <<focus, Held>>, After(e))
    BY <1>2, <1>3, <2>1, PathAppend
  <2> QED
    BY <1>1, <1>3, <2>2
<1> QED
  BY <1>1, <1>4, <1>5, QueuedInv DEF TypeOK

LEMMA SwitchInputInv ==
  ASSUME KbdAssumption, IInv, UNCHANGED orderly, NEW w \in Windows \cup {None},
         SwitchInput(w)
  PROVE  IInv'
<1> USE DEF KbdAssumption, SeatAssumption, IInv, FocusOK
<1> DEFINE off == Reply("wctl", input, {}, None, FALSE)
           on == Reply("wctl", w, {}, None, TRUE)
           half == IF input = None THEN queue ELSE Append(queue, off)
<1>1. /\ w \in win \cup {None} /\ w # input /\ input' = w
      /\ orderly => pressed = {}
      /\ pressed' \in SUBSET pressed \/ pressed' = pressed
      /\ UNCHANGED <<win, current, keys, kbds, active, focus, mods, clientv>>
  BY DEF SwitchInput
<1>2. queue \in Seq(Message)
  BY DEF TypeOK
<1>3. (input # None => off \in Message) /\ (w # None => on \in Message)
  BY <1>1 DEF Message, Reply, TypeOK
<1>4. /\ input # None => Fits(<<input, {}>>, off) /\ After(off) = <<None, {}>>
      /\ Fits(<<None, {}>>, on) /\ After(on) = <<w, {}>>
  BY DEF Fits, After, Reply
<1>5. queue' = queue \o (IF input = None THEN <<>> ELSE <<off>>)
                     \o (IF w = None THEN <<>> ELSE <<on>>)
  BY DEF SwitchInput
<1> HIDE DEF off, on
<1>6. half \in Seq(Message)
  BY <1>2, <1>3, AppendProperties
<1>7. queue \o (IF input = None THEN <<>> ELSE <<off>>) = half
  <2>1. CASE input = None
    BY <1>2, <2>1
  <2>2. CASE input # None
    BY <1>2, <1>3, <2>2
  <2> QED
    BY <2>1, <2>2
<1>8. orderly => Path(half, <<focus, Held>>, <<None, {}>>)
  BY <1>1, <1>2, <1>3, <1>4, PathAppend DEF OrderOK, QueueOK
<1> HIDE DEF half
<1>9. queue' = IF w = None THEN half ELSE Append(half, on)
  <2>0. queue' = half \o (IF w = None THEN <<>> ELSE <<on>>)
    BY <1>5, <1>7
  <2>1. CASE w = None
    BY <1>6, <2>0, <2>1
  <2>2. CASE w # None
    BY <1>3, <1>6, <2>0, <2>2
  <2> QED
    BY <2>1, <2>2
<1>10. queue' \in Seq(Message)
  BY <1>3, <1>6, <1>9, AppendProperties
<1>11. orderly => pressed' = {}
  BY <1>1
<1>12. orderly => Path(queue', <<focus, Held>>, <<input', pressed'>>)
  BY <1>1, <1>3, <1>4, <1>6, <1>8, <1>9, <1>11, PathAppend
<1> QED
  BY <1>1, <1>10, <1>12, QueuedInv DEF TypeOK

-----------------------------------------------------------------------------
(* A handler takes a reply out of the queue, in order the first one, which *)
(* goes on from what was handled before.                                   *)
LEMMA TakenReply ==
  ASSUME KbdAssumption, IInv, NEW i \in Ready, queue' = RemoveAt(queue, i)
  PROVE  /\ queue[i] \in Message
         /\ queue' \in Seq(Message)
         /\ orderly => /\ Fits(<<focus, Held>>, queue[i])
                       /\ Path(queue', After(queue[i]), <<input, pressed>>)
<1>1. i \in DOMAIN queue /\ (orderly => i = 1)
  <2>1. i \in DOMAIN queue /\ \A j \in 1 .. i - 1 : ~ orderly
    BY DEF Ready
  <2>2. i \in Nat \ {0}
    BY <2>1 DEF IInv, FocusOK, TypeOK
  <2>3. i # 1 => 1 \in 1 .. i - 1
    BY <2>2
  <2> QED
    BY <2>1, <2>3
<1>2. queue \in Seq(Message) /\ queue # <<>>
  BY <1>1 DEF IInv, FocusOK, TypeOK
<1>3. queue[i] \in Message /\ queue' \in Seq(Message)
  BY <1>1, <1>2, RemoveAtReplies
<1>4. ASSUME orderly
      PROVE  /\ Fits(<<focus, Held>>, queue[i])
             /\ Path(queue', After(queue[i]), <<input, pressed>>)
  <2>1. i = 1 /\ queue' = Tail(queue)
    BY <1>1, <1>2, <1>4, RemoveAtReplies
  <2>2. Path(queue, <<focus, Held>>, <<input, pressed>>)
    BY <1>4 DEF IInv, OrderOK, QueueOK
  <2> QED
    BY <1>2, <2>1, <2>2, PathTail
<1> QED
  BY <1>3, <1>4

(* In order, wctl takes the focus from no window to w or from w to none.   *)
LEMMA HandleWctlInv ==
  ASSUME KbdAssumption, IInv, UNCHANGED orderly, NEW i \in Ready, HandleWctl(i)
  PROVE  IInv'
<1> USE DEF KbdAssumption, SeatAssumption, IInv, FocusOK
<1> DEFINE e == queue[i]
           w == e.win
           to == IF e.current THEN w ELSE None
<1>1. /\ e.file = "wctl" /\ queue' = RemoveAt(queue, i)
      /\ UNCHANGED <<win, keys, kbds, mods, input, pressed, told, late>>
  BY DEF HandleWctl
<1>2. /\ e \in Message /\ queue' \in Seq(Message)
      /\ orderly => /\ Fits(<<focus, Held>>, e)
                    /\ Path(queue', After(e), <<input, pressed>>)
  BY <1>1, TakenReply
<1>3. w \in win /\ w \in Windows /\ e.current \in BOOLEAN
  BY <1>1, <1>2 DEF Message, TypeOK
<1>4. WctlRead(w, e.current)
  BY DEF HandleWctl
<1> HIDE DEF e, w
<1>5. /\ current' \in {current, current \cup {w}, current \ {w}}
      /\ \/ UNCHANGED <<active, inside, down, focus>>
         \/ KbdFocus(to)
  BY <1>3, <1>4 DEF WctlRead, FocusGoes
<1>6. ASSUME orderly
      PROVE  /\ <<focus, Held>> = <<IF e.current THEN None ELSE w, {}>>
             /\ After(e) = <<to, {}>>
             /\ current' = IF e.current THEN current \cup {w} ELSE current \ {w}
             /\ KbdFocus(to)
  <2>1. <<focus, Held>> = <<IF e.current THEN None ELSE w, {}>> /\ After(e) = <<to, {}>>
    BY <1>1, <1>2, <1>6 DEF Fits, After, w, e
  <2>2. current = {focus} \ {None}
    BY <1>6 DEF OrderOK, CurrentOK
  <2>3. e.current # (w \in current)
    BY <1>3, <2>1, <2>2
  <2> QED
    BY <1>3, <1>4, <2>1, <2>3 DEF WctlRead, FocusGoes
<1>7. to \in win \cup {None} /\ to \in Windows \cup {None}
  BY <1>3
<1>8. /\ active' = OfWindow(focus')
      /\ focus' \in win \cup {None}
      /\ inside' \in [Keyboards -> Windows \cup {None}]
      /\ InsideIsFocus' /\ GoneClean'
      /\ down' \in [Keyboards -> SUBSET Keys]
      /\ \/ UNCHANGED <<active, down, focus>>
         \/ /\ focus' = to
            /\ \A k \in Keyboards :
                 down'[k] = IF focus # to /\ k \in active \cup active' THEN {} ELSE down[k]
  <2>1. CASE KbdFocus(to)
    BY <1>1, <1>7, <2>1, KbdFocusMoves
  <2>2. CASE UNCHANGED <<active, inside, down, focus>>
    BY <1>1, <2>2 DEF TypeOK, ActiveIsFocus, InsideIsFocus, GoneClean
  <2> QED
    BY <1>5, <2>1, <2>2
<1>9. OfWindow(focus)' = OfWindow(focus') /\ OfWindow(focus') \subseteq kbds
  BY <1>1 DEF OfWindow
<1>10. Message' = Message /\ Mods' = Mods
  BY <1>1 DEF Message, Mods
<1>11. TypeOK'
  BY <1>1, <1>2, <1>3, <1>5, <1>7, <1>8, <1>9, <1>10 DEF TypeOK
<1>12. ActiveIsFocus'
  BY <1>1, <1>8, <1>9 DEF ActiveIsFocus
<1>13. NoStuckKeys'
  <2> SUFFICES ASSUME NEW k \in active' \ late
               PROVE  down'[k] \subseteq keys[focus']
    BY <1>1 DEF NoStuckKeys
  <2>1. k \in Keyboards
    BY <1>8, <1>9 DEF TypeOK
  <2>2. CASE UNCHANGED <<active, down, focus>>
    BY <2>2 DEF NoStuckKeys
  <2>3. CASE focus' = to /\ focus # to
    BY <1>8, <2>1, <2>3
  <2>4. CASE focus' = to /\ focus = to
    <3>1. active' = active
      BY <1>8, <2>4 DEF ActiveIsFocus
    <3> QED
      BY <1>8, <2>1, <2>4, <3>1 DEF NoStuckKeys
  <2> QED
    BY <1>8, <2>2, <2>3, <2>4
<1>14. ASSUME orderly
       PROVE  OrderOK'
  <2>1. KbdFocus(to)
    BY <1>6, <1>14
  <2>2. /\ active' = OfWindow(to) /\ focus' = to
        /\ \A k \in Keyboards :
             down'[k] = IF focus # to /\ k \in active \cup active' THEN {} ELSE down[k]
    BY <1>1, <1>7, <2>1, KbdFocusMoves
  <2>3. /\ focus = IF e.current THEN None ELSE w
        /\ Held = {} /\ focus # to
    BY <1>3, <1>6, <1>14
  <2>4. keys[w] = {} /\ Held' = {}
    BY <1>1, <1>3, <1>14, <2>2, <2>3 DEF OrderOK, CurrentOK, Held
  <2>5. QueueOK'
    BY <1>1, <1>2, <1>6, <1>14, <2>2, <2>4 DEF QueueOK
  <2>6. CurrentOK'
    BY <1>1, <1>3, <1>6, <1>14, <2>2, <2>3, <2>4 DEF OrderOK, CurrentOK
  <2>7. ToldOK'
    <3>1. mods = {} /\ mods' = {} /\ keymapmod(Held') = {}
      BY <1>1, <1>14, <2>3, <2>4 DEF OrderOK, ToldOK, keymapmod
    <3>2. \A k \in Keyboards \ late : told[k] = {}
      BY <1>14, <3>1 DEF OrderOK, ToldOK
    <3>3. \A k \in active' : k \in Keyboards /\ down'[k] = {}
      BY <1>8, <1>9, <2>2, <2>3 DEF TypeOK
    <3>4. \A k \in active' : keys[to] = {}
      BY <2>2, <2>4 DEF OfWindow
    <3> QED
      BY <1>1, <2>2, <3>1, <3>2, <3>3, <3>4 DEF ToldOK
  <2> QED
    BY <2>5, <2>6, <2>7 DEF OrderOK
<1> QED
  BY <1>8, <1>11, <1>12, <1>13, <1>14

LEMMA WctlLostInv ==
  ASSUME KbdAssumption, IInv, UNCHANGED orderly, NEW i \in Ready, WctlLost(i)
  PROVE  IInv'
<1>1. queue' \in Seq(Message) /\ ~ orderly
  BY TakenReply DEF WctlLost
<1>2. /\ UNCHANGED <<win, current, keys, kbds, active, focus, mods, clientv>>
      /\ input' \in win \cup {None} /\ pressed' \in SUBSET Keys
  BY DEF WctlLost, IInv, FocusOK, TypeOK
<1> QED
  BY <1>1, <1>2, QueuedInv

(* What kbdevent does to the lists, the enters and the keys.               *)
EventKeys(e) == IF e.file = "k" THEN e.keys \cup {e.key} ELSE e.keys

LEMMA KbdEventMoves ==
  ASSUME KbdAssumption, FocusOK, NEW w \in win, NEW e \in Message, e.file # "wctl",
         KbdEvent(w, e), UNCHANGED <<kbds, late>>
  PROVE  /\ active' = OfWindow(w)
         /\ focus' = w
         /\ keys' = [keys EXCEPT ![w] = EventKeys(e)]
         /\ mods' = keymapmod(EventKeys(e)) /\ mods' \subseteq Mods
         /\ EventKeys(e) \subseteq Keys
         /\ ModsAfter(e) = keymapmod(EventKeys(e))
         /\ inside' \in [Keyboards -> Windows \cup {None}]
         /\ InsideIsFocus'
         /\ GoneClean'
         /\ down' \in [Keyboards -> SUBSET Keys]
         /\ \A k \in active' :
              LET base == IF NeedEnter(w, e) THEN e.keys ELSE down[k]
              IN  down'[k] = IF e.file = "k" THEN base \cup {e.key}
                             ELSE base \ (keys[w] \ e.keys)
         /\ told' \in [Keyboards -> SUBSET Mods]
         /\ \A k \in Keyboards :
              ~ NeedEnter(w, e) =>
                told'[k] = IF k \in active' /\ ModsChanged(e) THEN ModsAfter(e)
                           ELSE told[k]
<1> USE DEF KbdAssumption, SeatAssumption, FocusOK
<1>1. /\ e.file \in {"k", "K"} /\ e.keys \in SUBSET Keys
      /\ e.file = "k" => e.key \in Keys
      /\ e.file = "K" => e.key = None
  BY DEF Message
<1>2. ActiveIn(w) = OfWindow(w)
  BY ActiveInWindow
<1> DEFINE to == OfWindow(w)
           press == e.file = "k"
           enters == NeedEnter(w, e)
           base(k) == IF enters THEN e.keys ELSE down[k]
<1>3. /\ active' = to /\ focus' = w
      /\ keys' = [keys EXCEPT ![w] = EventKeys(e)]
      /\ mods' = keymapmod(EventKeys(e))
  BY <1>2 DEF KbdEvent, EventKeys
<1>4. /\ inside' = [k \in Keyboards |-> CASE k \in to /\ enters -> w
                                          [] k \in Left(w) \ to -> None
                                          [] OTHER -> inside[k]]
      /\ down' = [k \in Keyboards |-> CASE k \in to /\ press -> base(k) \cup {e.key}
                                        [] k \in to /\ ~ press -> base(k) \ Gone(w, e)
                                        [] k \in Left(w) \ to -> {}
                                        [] OTHER -> down[k]]
      /\ told' = [k \in Keyboards |->
           CASE k \in to /\ ModsChanged(e) /\ (press \/ ~ enters) -> ModsAfter(e)
             [] k \in to /\ enters /\ ~ (ModsChanged(e) /\ press) -> ModsBefore(e)
             [] OTHER -> told[k]]
  BY <1>2 DEF KbdEvent
<1>5. to \subseteq kbds /\ Left(w) \subseteq active /\ kbds \subseteq Keyboards
  BY DEF OfWindow, Left, TypeOK
<1> HIDE DEF to, press, enters, base
<1>6. ASSUME NEW k \in Keyboards
      PROVE  /\ inside'[k] = IF k \in to /\ enters THEN w
                             ELSE IF k \in Left(w) \ to THEN None ELSE inside[k]
             /\ down'[k] = IF k \in to
                           THEN IF press THEN base(k) \cup {e.key} ELSE base(k) \ Gone(w, e)
                           ELSE IF k \in Left(w) THEN {} ELSE down[k]
             /\ told'[k] = IF k \in to /\ ModsChanged(e) /\ (press \/ ~ enters)
                           THEN ModsAfter(e)
                           ELSE IF k \in to /\ enters THEN ModsBefore(e) ELSE told[k]
  BY <1>4
<1>7. EventKeys(e) \subseteq Keys
  BY <1>1 DEF EventKeys
<1>8. ModsAfter(e) = keymapmod(EventKeys(e))
  BY <1>1 DEF ModsAfter, keymapmod, EventKeys
<1>9. \A ks : keymapmod(ks) \in SUBSET Mods
  BY DEF keymapmod, Mods
<1>10. inside' \in [Keyboards -> Windows \cup {None}]
  <2>1. w \in Windows
    BY DEF TypeOK
  <2>2. \A k \in Keyboards : inside'[k] \in Windows \cup {None}
    BY <1>6, <2>1 DEF TypeOK
  <2> QED
    BY <1>4, <2>2
<1>11. down' \in [Keyboards -> SUBSET Keys]
  <2>1. ASSUME NEW k \in Keyboards
        PROVE  down'[k] \in SUBSET Keys
    <3>1. base(k) \in SUBSET Keys /\ down[k] \in SUBSET Keys
      BY <1>1 DEF base, TypeOK
    <3>2. press => e.key \in Keys
      BY <1>1 DEF press
    <3> QED
      BY <1>6, <3>1, <3>2
  <2> QED
    BY <1>4, <2>1
<1>12. told' \in [Keyboards -> SUBSET Mods]
  <2>1. \A k \in Keyboards : told'[k] \in SUBSET Mods
    <3>1. ModsAfter(e) \in SUBSET Mods /\ ModsBefore(e) \in SUBSET Mods
      BY <1>9 DEF ModsAfter, ModsBefore
    <3> QED
      BY <1>6, <3>1 DEF TypeOK
  <2> QED
    BY <1>4, <2>1
<1>13. InsideIsFocus'
  <2> SUFFICES ASSUME NEW k \in kbds \ late
               PROVE  inside'[k] = IF k \in to THEN w ELSE None
    BY <1>3 DEF InsideIsFocus
  <2>1. inside[k] = IF k \in active THEN focus ELSE None
    BY DEF InsideIsFocus
  <2>2. ~ enters => focus = w /\ active = to
    BY DEF enters, NeedEnter, to, ActiveIsFocus
  <2>3. k \notin to => (k \in active => k \in Left(w))
    BY DEF Left, to, ActiveIsFocus, OfWindow
  <2> QED
    BY <1>5, <1>6, <2>1, <2>2, <2>3
<1>14. GoneClean'
  BY <1>5, <1>6 DEF GoneClean, TypeOK
<1>15. \A k \in active' :
         down'[k] = IF press THEN base(k) \cup {e.key} ELSE base(k) \ (keys[w] \ e.keys)
  BY <1>3, <1>5, <1>6 DEF Gone
<1>16. ~ enters => \A k \in Keyboards :
         told'[k] = IF k \in active' /\ ModsChanged(e) THEN ModsAfter(e) ELSE told[k]
  BY <1>3, <1>6
<1> QED
  BY <1>3, <1>7, <1>8, <1>9, <1>10, <1>11, <1>12, <1>13, <1>14, <1>15, <1>16
     DEF to, press, enters, base

(* In order, the event is one of the window in focus and goes on from its  *)
(* keys, so that no enter is needed.                                       *)
LEMMA NoEnterInOrder ==
  ASSUME KbdAssumption, FocusOK, OrderOK, NEW w \in win, NEW e \in Message,
         e.file # "wctl", e.win = w, Fits(<<focus, Held>>, e)
  PROVE  focus = w /\ ~ NeedEnter(w, e)
<1> USE DEF KbdAssumption, SeatAssumption, FocusOK
<1>1. w # None /\ w \in Windows /\ keys[w] \in SUBSET Keys
  BY DEF TypeOK
<1>2. CASE e.file = "k"
  <2>1. focus = w /\ Held = e.keys
    BY <1>2 DEF Fits
  <2> QED
    BY <1>1, <1>2, <2>1 DEF NeedEnter, Continues, Held
<1>3. CASE e.file = "K"
  <2>1. PICK x \in Keys \ e.keys : <<focus, Held>> = <<w, e.keys \cup {x}>>
    BY <1>3 DEF Fits
  <2>2. focus = w /\ keys[w] = e.keys \cup {x}
    BY <1>1, <2>1 DEF Held
  <2>3. IsFiniteSet(e.keys)
    BY <1>1, <2>2, FS_Subset
  <2>4. Cardinality(e.keys \cup {x}) = Cardinality(e.keys) + 1 /\ Cardinality(e.keys) \in Nat
    BY <2>1, <2>3, FS_AddElement, FS_CardinalityType
  <2>5. Continues(w, e)
    BY <1>3, <2>2, <2>4 DEF Continues
  <2> QED
    BY <2>2, <2>5 DEF NeedEnter
<1> QED
  BY <1>2, <1>3 DEF Message

LEMMA HandleKbdInv ==
  ASSUME KbdAssumption, IInv, UNCHANGED orderly, NEW i \in Ready, HandleKbd(i)
  PROVE  IInv'
<1> USE DEF KbdAssumption, SeatAssumption, IInv, FocusOK
<1> DEFINE e == queue[i]
           w == e.win
<1>1. /\ e.file # "wctl" /\ queue' = RemoveAt(queue, i)
      /\ KbdEvent(w, e)
      /\ UNCHANGED <<win, current, kbds, input, pressed, late>>
  BY DEF HandleKbd
<1>2. /\ e \in Message /\ queue' \in Seq(Message)
      /\ orderly => /\ Fits(<<focus, Held>>, e)
                    /\ Path(queue', After(e), <<input, pressed>>)
  BY <1>1, TakenReply
<1>3. w \in win /\ w \in Windows /\ e.keys \in SUBSET Keys
  BY <1>1, <1>2 DEF Message, TypeOK
<1> HIDE DEF e
<1> DEFINE base(k) == IF NeedEnter(w, e) THEN e.keys ELSE down[k]
<1>4. /\ active' = OfWindow(w)
      /\ focus' = w
      /\ keys' = [keys EXCEPT ![w] = EventKeys(e)]
      /\ mods' = keymapmod(EventKeys(e)) /\ mods' \subseteq Mods
      /\ EventKeys(e) \subseteq Keys
      /\ ModsAfter(e) = keymapmod(EventKeys(e))
      /\ inside' \in [Keyboards -> Windows \cup {None}]
      /\ InsideIsFocus' /\ GoneClean'
      /\ down' \in [Keyboards -> SUBSET Keys]
      /\ told' \in [Keyboards -> SUBSET Mods]
  BY <1>1, <1>2, <1>3, KbdEventMoves
<1>5. \A k \in active' :
         down'[k] = IF e.file = "k" THEN base(k) \cup {e.key}
                    ELSE base(k) \ (keys[w] \ e.keys)
  BY <1>1, <1>2, <1>3, KbdEventMoves
<1>6. \A k \in Keyboards :
         ~ NeedEnter(w, e) =>
           told'[k] = IF k \in active' /\ ModsChanged(e) THEN ModsAfter(e) ELSE told[k]
  BY <1>1, <1>2, <1>3, KbdEventMoves
<1>7. OfWindow(focus)' = OfWindow(w) /\ OfWindow(w) \subseteq kbds
  BY <1>1, <1>4 DEF OfWindow
<1>8. Message' = Message /\ Mods' = Mods
  BY <1>1 DEF Message, Mods
<1> HIDE DEF base
<1>9. keys' \in [Windows -> SUBSET Keys] /\ keys'[w] = EventKeys(e)
  BY <1>3, <1>4 DEF TypeOK
<1>10. TypeOK'
  BY <1>1, <1>2, <1>3, <1>4, <1>7, <1>8, <1>9 DEF TypeOK
<1>11. ActiveIsFocus'
  BY <1>1, <1>3, <1>4, <1>7 DEF ActiveIsFocus
<1>12. ~ NeedEnter(w, e) => focus = w /\ active' = active
  BY <1>4 DEF NeedEnter, ActiveIsFocus
<1>13. NoStuckKeys'
  <2> SUFFICES ASSUME NEW k \in active' \ late
               PROVE  down'[k] \subseteq EventKeys(e)
    BY <1>1, <1>4, <1>9 DEF NoStuckKeys
  <2>1. CASE NeedEnter(w, e)
    BY <1>5, <2>1 DEF base, EventKeys
  <2>2. CASE ~ NeedEnter(w, e)
    <3>1. down[k] \subseteq keys[w]
      BY <1>12, <2>2 DEF NoStuckKeys
    <3>2. e.file = "k" => keys[w] = e.keys
      BY <2>2 DEF NeedEnter, Continues
    <3> QED
      BY <1>5, <2>2, <3>1, <3>2 DEF base, EventKeys
  <2> QED
    BY <2>1, <2>2
<1>14. ASSUME orderly
       PROVE  OrderOK'
  <2>1. focus = w /\ ~ NeedEnter(w, e)
    BY <1>1, <1>2, <1>3, <1>14, NoEnterInOrder
  <2>2. Held' = EventKeys(e)
    BY <1>3, <1>4, <1>9 DEF Held
  <2>3. QueueOK'
    <3>1. After(e) = <<focus', Held'>>
      BY <1>1, <1>4, <2>2 DEF After, EventKeys
    <3> QED
      BY <1>1, <1>2, <1>14, <3>1 DEF QueueOK
  <2>4. CurrentOK'
    BY <1>1, <1>4, <1>14, <2>1 DEF OrderOK, CurrentOK, TypeOK
  <2>5. ToldOK'
    <3>1. mods' = keymapmod(Held')
      BY <1>4, <2>2
    <3>2. ASSUME NEW k \in active' \ late
          PROVE  down'[k] = keys'[w]
      <4>1. down[k] = keys[w]
        BY <1>12, <1>14, <2>1 DEF OrderOK, ToldOK
      <4>2. IF e.file = "k" THEN e.keys = keys[w] ELSE e.keys \subseteq keys[w]
        BY <2>1 DEF NeedEnter, Continues
      <4> QED
        BY <1>5, <1>9, <2>1, <4>1, <4>2 DEF base, EventKeys
    <3>3. ASSUME NEW k \in Keyboards \ late
          PROVE  told'[k] = IF k \in active' THEN mods' ELSE {}
      <4>1. told[k] = IF k \in active THEN mods ELSE {}
        BY <1>14 DEF OrderOK, ToldOK
      <4> QED
        BY <1>4, <1>6, <1>12, <2>1, <4>1 DEF ModsChanged
    <3> QED
      BY <1>1, <1>4, <3>1, <3>2, <3>3 DEF ToldOK, keymapmod
  <2> QED
    BY <2>3, <2>4, <2>5 DEF OrderOK
<1> QED
  BY <1>4, <1>10, <1>11, <1>13, <1>14

-----------------------------------------------------------------------------
LEMMA StepInv ==
  ASSUME KbdAssumption
  PROVE  IInv /\ [Next]_vars => IInv'
<1> SUFFICES ASSUME IInv, [Next]_vars
             PROVE  IInv'
  OBVIOUS
<1>1. CASE UNCHANGED vars
  <2>1. orderly => Path(queue', <<focus, Held>>, <<input', pressed'>>)
    BY <1>1 DEF vars, riov, IInv, OrderOK, QueueOK
  <2> QED
    BY <1>1, <2>1, QueuedInv DEF vars, riov, IInv, FocusOK, TypeOK
<1>2. CASE Next
  BY <1>2, NewWindowInv, DestroyWindowInv, SwitchInputInv, GetKeyboardInv,
     ReleaseInv, KeyInv, HandleWctlInv, WctlLostInv, HandleKbdInv DEF Next
<1> QED
  BY <1>1, <1>2

(* IInv holds in every reachable state, for any windows, keyboards, keys   *)
(* and modifiers, with replies in order or not (wl9.c:346-376, 573-690).   *)
THEOREM Invariance ==
  ASSUME KbdAssumption
  PROVE  Spec => []IInv
BY InitInv, StepInv, PTL DEF Spec

(* Keys go to the client of the window they are of and to no other, in     *)
(* whatever order the replies come: kbd.active holds its keyboards, and an *)
(* enter is paired with a leave.  In order, the focus is that of rio       *)
(* (wl9.c:346-376, 470, 618-657).                                          *)
THEOREM FocusIsRight ==
  ASSUME KbdAssumption
  PROVE  Spec => []FocusAgrees
<1>1. IInv => FocusAgrees
  BY DEF IInv, FocusOK, FocusAgrees, FocusIsCurrent, OrderOK, CurrentOK
<1> QED
  BY <1>1, Invariance, PTL

(* No key stays down that the window has read as up, in whatever order the *)
(* replies come and whichever are lost (wl9.c:618-662).                    *)
THEOREM NoKeyIsStuck ==
  ASSUME KbdAssumption
  PROVE  Spec => []NoStuckKeys
<1>1. IInv => NoStuckKeys
  BY DEF IInv
<1> QED
  BY <1>1, Invariance, PTL

(* In order, a client knows the keys and the modifiers of its window       *)
(* (wl9.c:618-662).                                                        *)
THEOREM KeysAreKnown ==
  ASSUME KbdAssumption
  PROVE  Spec => []KeysAgree
<1>1. IInv => KeysAgree
  <2> SUFFICES ASSUME IInv, orderly, NEW k \in active \ late
               PROVE  down[k] = keys[focus] /\ told[k] = keymapmod(keys[focus])
    BY DEF KeysAgree
  <2>1. focus # None /\ k \in Keyboards
    BY DEF IInv, FocusOK, TypeOK, ActiveIsFocus, OfWindow
  <2> QED
    BY <2>1 DEF IInv, OrderOK, ToldOK, Held
<1> QED
  BY <1>1, Invariance, PTL

-----------------------------------------------------------------------------
(* A function each of whose values is made of the one before.              *)
Steps(f, S, a, n, step) ==
  f \in [0 .. n -> S] /\ f[0] = a /\ \A i \in 1 .. n : f[i] = step[i][f[i - 1]]

Closed(S, n, step) == \A i \in 1 .. n, v \in S : step[i][v] \in S

(* There is such a function.                                               *)
LEMMA Recursion ==
  ASSUME NEW S, NEW a \in S, NEW n \in Nat, NEW step, Closed(S, n, step)
  PROVE  \E f : Steps(f, S, a, n, step)
<1> DEFINE Is(f, k) == /\ f \in [0 .. k -> S]
                       /\ f[0] = a
                       /\ \A i \in 1 .. k : f[i] = step[i][f[i - 1]]
           T == {k \in Nat : k <= n => \E f : Is(f, k)}
<1>1. 0 \in T
  <2>1. Is([i \in 0 .. 0 |-> a], 0)
    OBVIOUS
  <2> QED
    BY <2>1
<1>2. ASSUME NEW k \in Nat, k \in T
      PROVE  k + 1 \in T
  <2> SUFFICES ASSUME k + 1 <= n
               PROVE  \E f : Is(f, k + 1)
    OBVIOUS
  <2>1. PICK f : Is(f, k)
    BY <1>2
  <2> DEFINE g == [i \in 0 .. k + 1 |-> IF i <= k THEN f[i] ELSE step[k + 1][f[k]]]
  <2>2. f[k] \in S /\ step[k + 1][f[k]] \in S
    BY <2>1 DEF Closed
  <2>3. g \in [0 .. k + 1 -> S]
    BY <2>1, <2>2
  <2>4. g[0] = a
    BY <2>1
  <2>5. ASSUME NEW i \in 1 .. k + 1
        PROVE  g[i] = step[i][g[i - 1]]
    <3>1. CASE i <= k
      BY <2>1, <3>1
    <3>2. CASE i = k + 1
      BY <3>2
    <3> QED
      BY <3>1, <3>2
  <2> HIDE DEF g
  <2>6. Is(g, k + 1)
    BY <2>3, <2>4, <2>5
  <2> HIDE DEF Is
  <2> QED
    BY <2>6
<1> HIDE DEF T
<1>3. n \in T
  BY <1>1, <1>2, Induction
<1>4. PICK f : Is(f, n)
  BY <1>3 DEF T
<1> QED
  BY <1>4 DEF Steps

(* What FlattenSeq gives, for a sequence and for each of its prefixes.     *)
LEMMA FlattenIs ==
  ASSUME NEW B, NEW s \in Seq(Seq(B))
  PROVE  \E g \in [0 .. Len(s) -> Seq(B)] :
           /\ g[0] = <<>>
           /\ \A i \in 1 .. Len(s) : g[i] = g[i - 1] \o s[i]
           /\ FlattenSeq(s) = g[Len(s)]
<1> DEFINE n == Len(s)
           step == [i \in Nat |-> [v \in Seq(B) |-> IF i \in 1 .. n THEN v \o s[i] ELSE v]]
           Is(f) == f = [i \in 1 .. n |-> IF i = 1 THEN s[i] ELSE f[i - 1] \o s[i]]
           c == CHOOSE f : Is(f)
<1>0. n \in Nat /\ \A i \in 1 .. n : s[i] \in Seq(B)
  OBVIOUS
<1>1. ASSUME NEW i \in 1 .. n, NEW v \in Seq(B)
      PROVE  step[i][v] \in Seq(B)
  <2>1. i \in Nat /\ s[i] \in Seq(B)
    BY <1>0
  <2> QED
    BY <2>1
<1>2. <<>> \in Seq(B)
  OBVIOUS
<1>3. ASSUME NEW i \in 1 .. n, NEW v \in Seq(B)
      PROVE  step[i][v] = v \o s[i]
  <2>1. i \in Nat
    BY <1>0
  <2> QED
    BY <2>1
<1> HIDE DEF step
<1>4. PICK g \in [0 .. n -> Seq(B)] :
        g[0] = <<>> /\ \A i \in 1 .. n : g[i] = step[i][g[i - 1]]
  <2>1. Closed(Seq(B), n, step)
    BY <1>1 DEF Closed
  <2>2. \E f : Steps(f, Seq(B), <<>>, n, step)
    BY <1>0, <1>2, <2>1, Recursion
  <2> QED
    BY <2>2 DEF Steps
<1>5. g[0] = <<>>
  BY <1>4
<1>6. ASSUME NEW i \in 1 .. n
      PROVE  g[i] = g[i - 1] \o s[i]
  <2>1. i - 1 \in 0 .. n
    BY <1>0
  <2> QED
    BY <1>3, <1>4, <2>1
<1>7. Is([i \in 1 .. n |-> g[i]])
  <2> DEFINE h == [i \in 1 .. n |-> g[i]]
  <2>1. ASSUME NEW i \in 1 .. n
        PROVE  h[i] = IF i = 1 THEN s[i] ELSE h[i - 1] \o s[i]
    <3>1. h[i] = g[i - 1] \o s[i]
      BY <1>6
    <3>2. CASE i = 1
      <4>1. g[i - 1] = <<>> /\ s[i] \in Seq(B)
        BY <1>0, <1>5, <3>2
      <4>2. <<>> \o s[i] = s[i]
        BY <4>1
      <4> QED
        BY <3>1, <3>2, <4>1, <4>2
    <3>3. CASE i # 1
      <4>1. i - 1 \in 1 .. n
        BY <1>0, <3>3
      <4> QED
        BY <3>1, <3>3, <4>1
    <3> QED
      BY <3>2, <3>3
  <2>2. h = [i \in 1 .. n |-> h[i]]
    OBVIOUS
  <2> HIDE DEF h
  <2>3. h = [i \in 1 .. n |-> IF i = 1 THEN s[i] ELSE h[i - 1] \o s[i]]
    BY <2>1, <2>2
  <2> QED
    BY <2>3 DEF h
<1>8. Is(c)
  <2> HIDE DEF Is
  <2> QED
    BY <1>7
<1>9. n # 0 => FlattenSeq(s) = c[n]
  BY DEF FlattenSeq
<1> HIDE DEF c
<1>10. \A i \in 1 .. n : c[i] = g[i]
  <2> DEFINE T == {i \in Nat : i \in 1 .. n => c[i] = g[i]}
  <2>1. ASSUME NEW i \in 1 .. n
        PROVE  c[i] = IF i = 1 THEN s[i] ELSE c[i - 1] \o s[i]
    BY <1>8
  <2>2. 0 \in T
    OBVIOUS
  <2>3. ASSUME NEW i \in Nat, i \in T
        PROVE  i + 1 \in T
    <3> SUFFICES ASSUME i + 1 \in 1 .. n
                 PROVE  c[i + 1] = g[i + 1]
      OBVIOUS
    <3>1. g[i + 1] = g[i] \o s[i + 1]
      <4>1. (i + 1) - 1 = i
        OBVIOUS
      <4> QED
        BY <1>6, <4>1
    <3>2. CASE i = 0
      <4>1. s[i + 1] \in Seq(B) /\ g[i] = <<>>
        BY <1>0, <1>5, <3>2
      <4>2. <<>> \o s[i + 1] = s[i + 1]
        BY <4>1
      <4>3. c[i + 1] = s[i + 1]
        BY <2>1, <3>2
      <4> QED
        BY <3>1, <4>1, <4>2, <4>3
    <3>3. CASE i # 0
      <4>1. i \in 1 .. n /\ (i + 1) - 1 = i /\ i + 1 # 1
        BY <1>0, <3>3
      <4>2. c[i] = g[i]
        BY <2>3, <4>1
      <4>3. c[i + 1] = c[i] \o s[i + 1]
        BY <2>1, <4>1
      <4> QED
        BY <3>1, <4>2, <4>3
    <3> QED
      BY <3>2, <3>3
  <2> HIDE DEF T
  <2>4. Nat \subseteq T
    BY <2>2, <2>3, Induction
  <2> QED
    BY <1>0, <2>4 DEF T
<1>11. FlattenSeq(s) = g[n]
  <2>1. CASE n = 0
    <3>1. s = <<>>
      BY <2>1
    <3> QED
      BY <1>5, <2>1, <3>1 DEF FlattenSeq
  <2>2. CASE n # 0
    <3>1. n \in 1 .. n
      BY <1>0, <2>2
    <3> QED
      BY <1>9, <1>10, <2>2, <3>1
  <2> QED
    BY <2>1, <2>2
<1> QED
  BY <1>5, <1>6, <1>11

(* The first i sequences, one after the other.                             *)
Upto(s, i) == FlattenSeq(SubSeq(s, 1, i))

(* Each sequence comes at the end of those before it.                      *)
LEMMA UptoIs ==
  ASSUME NEW B, NEW s \in Seq(Seq(B))
  PROVE  /\ Upto(s, 0) = <<>> /\ Upto(s, Len(s)) = FlattenSeq(s)
         /\ \A i \in 0 .. Len(s) : Upto(s, i) \in Seq(B)
         /\ \A i \in 1 .. Len(s) : Upto(s, i) = Upto(s, i - 1) \o s[i]
<1>0. Len(s) \in Nat /\ SubSeq(s, 1, Len(s)) = s
  OBVIOUS
<1>1. PICK g \in [0 .. Len(s) -> Seq(B)] :
        /\ g[0] = <<>>
        /\ \A i \in 1 .. Len(s) : g[i] = g[i - 1] \o s[i]
        /\ FlattenSeq(s) = g[Len(s)]
  BY FlattenIs
<1>2. ASSUME NEW i \in 0 .. Len(s)
      PROVE  Upto(s, i) = g[i]
  <2> DEFINE u == SubSeq(s, 1, i)
  <2>1. u \in Seq(Seq(B)) /\ Len(u) = i /\ \A j \in 1 .. i : u[j] = s[j]
    BY <1>0
  <2> HIDE DEF u
  <2>2. PICK h \in [0 .. Len(u) -> Seq(B)] :
          /\ h[0] = <<>>
          /\ \A j \in 1 .. Len(u) : h[j] = h[j - 1] \o u[j]
          /\ FlattenSeq(u) = h[Len(u)]
    BY <2>1, FlattenIs
  <2> DEFINE S == {j \in Nat : j <= i => h[j] = g[j]}
  <2>3. 0 \in S
    BY <1>1, <2>2
  <2>4. ASSUME NEW j \in Nat, j \in S
        PROVE  j + 1 \in S
    <3> SUFFICES ASSUME j + 1 <= i
                 PROVE  h[j + 1] = g[j + 1]
      OBVIOUS
    <3>1. /\ j + 1 \in 1 .. i /\ j + 1 \in 1 .. Len(s) /\ j + 1 \in 1 .. Len(u)
          /\ (j + 1) - 1 = j /\ j <= i
      BY <1>0, <2>1
    <3>2. h[j + 1] = h[j] \o u[j + 1] /\ g[j + 1] = g[j] \o s[j + 1]
      BY <1>1, <2>2, <3>1
    <3> QED
      BY <2>1, <2>4, <3>1, <3>2
  <2> HIDE DEF S
  <2>5. Nat \subseteq S
    BY <2>3, <2>4, Induction
  <2>6. i \in Nat
    BY <1>0
  <2> QED
    BY <2>1, <2>2, <2>5, <2>6 DEF S, u, Upto
<1>3. 0 \in 0 .. Len(s) /\ Len(s) \in 0 .. Len(s)
  BY <1>0
<1>4. ASSUME NEW i \in 1 .. Len(s)
      PROVE  Upto(s, i) = Upto(s, i - 1) \o s[i]
  <2>1. i \in 0 .. Len(s) /\ i - 1 \in 0 .. Len(s)
    BY <1>0
  <2> QED
    BY <1>1, <1>2, <2>1
<1> QED
  BY <1>1, <1>2, <1>3, <1>4

(* What the first sequences are, they are at the beginning of all.         *)
LEMMA UptoGrows ==
  ASSUME NEW B, NEW s \in Seq(Seq(B)), NEW i \in 0 .. Len(s), NEW j \in i .. Len(s)
  PROVE  /\ Len(Upto(s, i)) <= Len(Upto(s, j))
         /\ \A p \in 1 .. Len(Upto(s, i)) : Upto(s, j)[p] = Upto(s, i)[p]
<1> DEFINE Begins(k) == /\ Len(Upto(s, i)) <= Len(Upto(s, k))
                        /\ \A p \in 1 .. Len(Upto(s, i)) : Upto(s, k)[p] = Upto(s, i)[p]
           T == {k \in Nat : k >= i /\ k <= Len(s) => Begins(k)}
<1>0. Len(s) \in Nat /\ i \in Nat /\ j \in Nat
  OBVIOUS
<1>1. ASSUME NEW k \in 0 .. Len(s)
      PROVE  Upto(s, k) \in Seq(B) /\ Len(Upto(s, k)) \in Nat
  <2>1. Upto(s, k) \in Seq(B)
    BY UptoIs
  <2> QED
    BY <2>1
<1>2. Begins(i)
  BY <1>1
<1>3. 0 \in T
  BY <1>0, <1>2
<1>4. ASSUME NEW k \in Nat, k \in T
      PROVE  k + 1 \in T
  <2> SUFFICES ASSUME k + 1 >= i, k + 1 <= Len(s)
               PROVE  Begins(k + 1)
    OBVIOUS
  <2>1. CASE k + 1 = i
    BY <1>2, <2>1
  <2>2. CASE k + 1 # i
    <3>1. /\ k >= i /\ k <= Len(s) /\ k + 1 \in 1 .. Len(s) /\ (k + 1) - 1 = k
          /\ k \in 0 .. Len(s)
      BY <1>0, <2>2
    <3>2. Begins(k)
      BY <1>4, <3>1
    <3> HIDE DEF T
    <3> DEFINE u == Upto(s, i)
               v == Upto(s, k)
               w == Upto(s, k + 1)
               b == s[k + 1]
    <3>3. w = v \o b
      BY <3>1, UptoIs
    <3>4. u \in Seq(B) /\ v \in Seq(B) /\ b \in Seq(B)
      BY <1>1, <3>1
    <3>5. Len(u) <= Len(v) /\ \A p \in 1 .. Len(u) : v[p] = u[p]
      BY <3>2
    <3> HIDE DEF u, v, w, b
    <3>6. Len(u) <= Len(w) /\ \A p \in 1 .. Len(u) : w[p] = u[p]
      BY <3>3, <3>4, <3>5
    <3> QED
      BY <3>6 DEF u, w
  <2> QED
    BY <2>1, <2>2
<1> HIDE DEF T
<1>5. j \in T
  BY <1>0, <1>3, <1>4, Induction
<1> QED
  BY <1>0, <1>5 DEF T

(* Where each of the sequences is.                                         *)
LEMMA UptoPlaces ==
  ASSUME NEW B, NEW s \in Seq(Seq(B)), NEW i \in 1 .. Len(s)
  PROVE  /\ FlattenSeq(s) \in Seq(B)
         /\ Len(Upto(s, i - 1)) \in Nat /\ Len(s[i]) \in Nat
         /\ Len(Upto(s, i)) = Len(Upto(s, i - 1)) + Len(s[i])
         /\ Len(Upto(s, i)) <= Len(FlattenSeq(s))
         /\ \A p \in 1 .. Len(s[i]) :
              FlattenSeq(s)[Len(Upto(s, i - 1)) + p] = s[i][p]
<1> DEFINE v == Upto(s, i - 1)
           w == Upto(s, i)
           b == s[i]
           f == FlattenSeq(s)
<1>1. /\ Len(s) \in Nat /\ i - 1 \in 0 .. Len(s) /\ i \in 0 .. Len(s)
      /\ Len(s) \in 0 .. Len(s) /\ Len(s) \in i .. Len(s)
  OBVIOUS
<1>2. v \in Seq(B) /\ w = v \o b /\ f = Upto(s, Len(s)) /\ f \in Seq(B)
  BY <1>1, UptoIs
<1>3. b \in Seq(B)
  OBVIOUS
<1>4. Len(w) <= Len(f) /\ \A p \in 1 .. Len(w) : f[p] = w[p]
  BY <1>1, <1>2, UptoGrows
<1> HIDE DEF v, w, b, f
<1>5. Len(w) = Len(v) + Len(b) /\ \A p \in 1 .. Len(b) : w[Len(v) + p] = b[p]
  BY <1>2, <1>3
<1>6. Len(v) \in Nat /\ Len(b) \in Nat
  BY <1>2, <1>3
<1>7. \A p \in 1 .. Len(b) : f[Len(v) + p] = b[p]
  BY <1>4, <1>5, <1>6
<1> QED
  BY <1>2, <1>4, <1>5, <1>6, <1>7 DEF v, w, b, f

(* Sequences that are not empty take a place each.                         *)
LEMMA UptoLong ==
  ASSUME NEW B, NEW s \in Seq(Seq(B)), \A i \in 1 .. Len(s) : s[i] # <<>>
  PROVE  \A i \in 0 .. Len(s) : i <= Len(Upto(s, i))
<1> DEFINE T == {i \in Nat : i <= Len(s) => i <= Len(Upto(s, i))}
<1>0. Len(s) \in Nat
  OBVIOUS
<1>1. 0 \in T
  BY UptoIs
<1>2. ASSUME NEW i \in Nat, i \in T
      PROVE  i + 1 \in T
  <2> SUFFICES ASSUME i + 1 <= Len(s)
               PROVE  i + 1 <= Len(Upto(s, i + 1))
    OBVIOUS
  <2>1. i + 1 \in 1 .. Len(s) /\ (i + 1) - 1 = i /\ i <= Len(s)
    BY <1>0
  <2>2. Len(Upto(s, i + 1)) = Len(Upto(s, i)) + Len(s[i + 1]) /\ Len(Upto(s, i)) \in Nat
    BY <2>1, UptoPlaces
  <2>3. s[i + 1] \in Seq(B) /\ s[i + 1] # <<>>
    BY <2>1
  <2>4. Len(s[i + 1]) \in Nat /\ Len(s[i + 1]) >= 1
    BY <2>3
  <2> QED
    BY <1>2, <2>1, <2>2, <2>4
<1> HIDE DEF T
<1>3. Nat \subseteq T
  BY <1>1, <1>2, Induction
<1> QED
  BY <1>0, <1>3 DEF T

-----------------------------------------------------------------------------
(* The loop's statement, six bits more.                                    *)
More(x, b) == 64 * x + (b % 64)

(* The bits of one to four bytes.                                          *)
LEMMA JoinedIs ==
  ASSUME NEW lead, NEW u
  PROVE  /\ lead.l = 1 => Joined(lead, u) = lead.x
         /\ lead.l = 2 => Joined(lead, u) = More(lead.x, u[2])
         /\ lead.l = 3 => Joined(lead, u) = More(More(lead.x, u[2]), u[3])
         /\ lead.l = 4 => Joined(lead, u) = More(More(More(lead.x, u[2]), u[3]), u[4])
<1> SUFFICES ASSUME lead.l \in {1, 2, 3, 4}
             PROVE  /\ lead.l = 1 => Joined(lead, u) = lead.x
                    /\ lead.l = 2 => Joined(lead, u) = More(lead.x, u[2])
                    /\ lead.l = 3 => Joined(lead, u) = More(More(lead.x, u[2]), u[3])
                    /\ lead.l = 4 => Joined(lead, u) = More(More(More(lead.x, u[2]), u[3]), u[4])
  OBVIOUS
<1> DEFINE l == lead.l
           b1 == lead.x
           b2 == More(b1, u[2])
           b3 == More(b2, u[3])
           b4 == More(b3, u[4])
           f == [i \in 1 .. l |-> IF i = 1 THEN b1 ELSE IF i = 2 THEN b2
                                  ELSE IF i = 3 THEN b3 ELSE b4]
           Is(x) == x = [i \in 1 .. l |-> IF i = 1 THEN b1 ELSE More(x[i - 1], u[i])]
           c == CHOOSE x : Is(x)
<1>0. l \in Nat /\ 1 <= l /\ l <= 4
  OBVIOUS
<1>1. ASSUME NEW i \in 1 .. l
      PROVE  f[i] = IF i = 1 THEN b1 ELSE More(f[i - 1], u[i])
  <2>1. i = 1 \/ i = 2 \/ i = 3 \/ i = 4
    BY <1>0
  <2>2. i # 1 => i - 1 \in 1 .. l
    BY <1>0
  <2> HIDE DEF l, b1, b2, b3, b4
  <2>3. CASE i = 1
    BY <2>3
  <2>4. CASE i = 2
    BY <2>2, <2>4 DEF b2
  <2>5. CASE i = 3
    BY <2>2, <2>5 DEF b3
  <2>6. CASE i = 4
    BY <2>2, <2>6 DEF b4
  <2> QED
    BY <2>1, <2>3, <2>4, <2>5, <2>6
<1>2. f = [i \in 1 .. l |-> f[i]]
  OBVIOUS
<1>3. Is(f)
  <2> HIDE DEF f
  <2> QED
    BY <1>1, <1>2
<1>4. Is(c)
  <2> HIDE DEF Is, f
  <2> QED
    BY <1>3
<1>5. Joined(lead, u) = c[l]
  BY DEF Joined, More
<1> HIDE DEF c, f
<1>6. ASSUME NEW i \in 1 .. l
      PROVE  c[i] = IF i = 1 THEN b1 ELSE More(c[i - 1], u[i])
  BY <1>4
<1> HIDE DEF Is
<1>7. c[1] = b1
  BY <1>0, <1>6
<1>8. l >= 2 => c[2] = b2
  BY <1>0, <1>6, <1>7
<1>9. l >= 3 => c[3] = b3
  BY <1>0, <1>6, <1>8
<1>10. l >= 4 => c[4] = b4
  BY <1>0, <1>6, <1>9
<1>11. CASE l = 1
  BY <1>5, <1>7, <1>11
<1>12. CASE l = 2
  BY <1>5, <1>8, <1>12
<1>13. CASE l = 3
  BY <1>5, <1>9, <1>13
<1>14. CASE l = 4
  BY <1>5, <1>10, <1>14
<1> QED
  BY <1>0, <1>11, <1>12, <1>13, <1>14

(* How long a rune is, by its first byte.                                  *)
LEMMA LeadIs ==
  ASSUME NEW b \in Nat, b < 256
  PROVE  /\ Lead(b).l \in Nat /\ Lead(b).l <= 4 /\ Lead(b).x \in Nat
         /\ b < 128 => Lead(b).l = 1 /\ Lead(b).x = b
         /\ b \in Continuation => Lead(b).l = 0
         /\ 192 <= b /\ b < 224 => Lead(b).l = 2 /\ Lead(b).x = b - 192
         /\ 224 <= b /\ b < 240 => Lead(b).l = 3 /\ Lead(b).x = b - 224
         /\ 240 <= b /\ b < 248 => Lead(b).l = 4 /\ Lead(b).x = b - 240
<1>1. CASE b < 128
  <2>1. Lead(b) = [l |-> 1, x |-> b]
    BY <1>1 DEF Lead
  <2> QED
    BY <1>1, <2>1 DEF Continuation
<1>2. CASE 192 <= b /\ b < 224
  <2>1. Lead(b) = [l |-> 2, x |-> b % 32]
    BY <1>2 DEF Lead
  <2>2. b % 32 = b - 192
    BY <1>2
  <2> QED
    BY <1>2, <2>1, <2>2 DEF Continuation
<1>3. CASE 224 <= b /\ b < 240
  <2>1. Lead(b) = [l |-> 3, x |-> b % 16]
    BY <1>3 DEF Lead
  <2>2. b % 16 = b - 224
    BY <1>3
  <2> QED
    BY <1>3, <2>1, <2>2 DEF Continuation
<1>4. CASE 240 <= b /\ b < 248
  <2>1. Lead(b) = [l |-> 4, x |-> b % 8]
    BY <1>4 DEF Lead
  <2>2. b % 8 = b - 240
    BY <1>4
  <2> QED
    BY <1>4, <2>1, <2>2 DEF Continuation
<1>5. CASE (128 <= b /\ b < 192) \/ 248 <= b
  <2>1. Lead(b) = [l |-> 0, x |-> 0]
    BY <1>5 DEF Lead
  <2> QED
    BY <1>5, <2>1 DEF Continuation
<1> QED
  BY <1>1, <1>2, <1>3, <1>4, <1>5

Six(b) == b \in Nat /\ b < 64

(* A rune's parts of 6 bits.                                               *)
LEMMA PartsAre ==
  ASSUME NEW r \in Nat
  PROVE  /\ r = 64 * (r \div 64) + (r % 64)
         /\ r = 4096 * (r \div 4096) + 64 * ((r \div 64) % 64) + (r % 64)
         /\ r = 262144 * (r \div 262144) + 4096 * ((r \div 4096) % 64)
                  + 64 * ((r \div 64) % 64) + (r % 64)
         /\ Six(r % 64) /\ Six((r \div 64) % 64) /\ Six((r \div 4096) % 64)
         /\ r \div 64 \in Nat /\ r \div 4096 \in Nat /\ r \div 262144 \in Nat
<1> DEFINE q == r \div 64
           p == r \div 4096
           o == r \div 262144
<1>1. q \in Nat /\ Six(r % 64) /\ r = 64 * q + (r % 64)
  BY SMT DEF Six
<1>2. p \in Nat /\ q = 64 * p + (q % 64) /\ Six(q % 64)
  BY SMT DEF Six
<1>3. o \in Nat /\ p = 64 * o + (p % 64) /\ Six(p % 64)
  BY SMT DEF Six
<1> HIDE DEF q, p, o
<1>4. r = 4096 * p + 64 * (q % 64) + (r % 64)
  BY <1>1, <1>2
<1>5. r = 262144 * o + 4096 * (p % 64) + 64 * (q % 64) + (r % 64)
  BY <1>1, <1>2, <1>3
<1> QED
  BY <1>1, <1>2, <1>3, <1>4, <1>5 DEF q, p, o

(* Bytes of a text are less than 256 and not 0.                            *)
LEMMA ByteIs ==
  ASSUME NEW b \in Bytes
  PROVE  b \in Nat /\ b # 0 /\ b < 256
BY DEF Bytes

Rune == {r \in Nat : r > 0 /\ r < 1114112 /\ (r < 55296 \/ r >= 57344)}

(* The bytes of a rune are not 0, their first one says how many they are,  *)
(* and together they are the rune.                                         *)
LEMMA EncodedIs ==
  ASSUME NEW r \in Rune
  PROVE  /\ Encoded(r) \in Seq(Bytes) /\ Len(Encoded(r)) \in Nat
         /\ 1 <= Len(Encoded(r)) /\ Len(Encoded(r)) <= 4
         /\ Encoded(r)[1] \notin Continuation
         /\ Lead(Encoded(r)[1]).l = Len(Encoded(r)) /\ Lead(Encoded(r)[1]).x \in Int
         /\ \A i \in 2 .. Len(Encoded(r)) : Encoded(r)[i] \in Continuation
         /\ Joined(Lead(Encoded(r)[1]), Encoded(r)) = r
<1> DEFINE e == Encoded(r)
           h == r \div 64
           p == r \div 4096
           o == r \div 262144
<1>0. r \in Nat /\ r > 0 /\ r < 1114112
  BY SMT DEF Rune
<1>1. /\ r = 64 * h + (r % 64)
      /\ r = 4096 * p + 64 * (h % 64) + (r % 64)
      /\ r = 262144 * o + 4096 * (p % 64) + 64 * (h % 64) + (r % 64)
      /\ Six(r % 64) /\ Six(h % 64) /\ Six(p % 64)
      /\ h \in Nat /\ p \in Nat /\ o \in Nat
  BY <1>0, PartsAre, SMT
<1>2. ASSUME NEW b, Six(b)
      PROVE  /\ 128 + b \in Continuation /\ 128 + b \in Bytes /\ 128 + b \in Int
             /\ (128 + b) % 64 = b
  <2>1. b \in Nat /\ b < 64
    BY <1>2 DEF Six
  <2>2. (128 + b) % 64 = b
    BY <2>1
  <2> QED
    BY <2>1, <2>2 DEF Continuation, Bytes
<1>3. CASE r < 128
  <2>1. e = <<r>>
    BY <1>0, <1>3, SMT DEF Encoded
  <2>2. e \in Seq(Bytes) /\ Len(e) = 1 /\ e[1] = r
    BY <1>0, <1>3, <2>1, SMT DEF Bytes
  <2>3. Lead(r).l = 1 /\ Lead(r).x = r
    BY <1>0, <1>3, LeadIs, SMT
  <2>4. Joined(Lead(r), e) = r
    BY <1>0, <2>3, JoinedIs, SMT
  <2>5. r \notin Continuation
    BY <1>3, SMT DEF Continuation
  <2> HIDE DEF e
  <2>6. e[1] \notin Continuation /\ Lead(e[1]).l = 1 /\ Lead(e[1]).x = r /\ Joined(Lead(e[1]), e) = r
    BY <2>2, <2>3, <2>4, <2>5
  <2> QED
    BY <1>0, <2>2, <2>6, SMT DEF e
<1>4. CASE r >= 128 /\ r < 2048
  <2>1. e = <<192 + h, 128 + (r % 64)>>
    BY <1>0, <1>4, SMT DEF Encoded
  <2>2. h \in Nat /\ 2 <= h /\ h <= 31
    BY <1>1, <1>4, SMT DEF Six
  <2> HIDE DEF e, h
  <2>3. Len(e) = 2 /\ e[1] = 192 + h /\ e[2] = 128 + (r % 64)
    BY <2>1
  <2>4. 192 + h \in Bytes /\ 192 + h \in Nat /\ 192 + h < 224 /\ 192 + h \notin Continuation
    BY <2>2 DEF Continuation, Bytes
  <2>5. e \in Seq(Bytes)
    BY <1>1, <1>2, <2>1, <2>4, SMT
  <2>6. Lead(e[1]).l = 2 /\ Lead(e[1]).x = h
    BY <2>2, <2>3, <2>4, LeadIs
  <2>7. e[2] \in Continuation /\ e[2] \in Int /\ e[2] % 64 = r % 64
    BY <1>1, <1>2, <2>3, SMT
  <2>8. Joined(Lead(e[1]), e) = 64 * h + (r % 64)
    <3>1. Joined(Lead(e[1]), e) = More(h, e[2])
      BY <2>6, JoinedIs
    <3> QED
      BY <1>1, <2>2, <2>7, <3>1, SMT DEF More, Six
  <2>9. Joined(Lead(e[1]), e) = r
    BY <1>1, <2>8, SMT
  <2>10. Lead(e[1]).l = 2 /\ Lead(e[1]).x \in Int /\ \A i \in 2 .. 2 : e[i] \in Continuation
    BY <2>2, <2>6, <2>7
  <2> QED
    BY <2>3, <2>4, <2>5, <2>9, <2>10 DEF e
<1>5. CASE r >= 2048 /\ r < 65536
  <2>1. e = <<224 + p, 128 + (h % 64), 128 + (r % 64)>>
    BY <1>0, <1>5, SMT DEF Encoded
  <2>2. p \in Nat /\ 0 <= p /\ p <= 15
    BY <1>1, <1>5, SMT DEF Six
  <2> HIDE DEF e, h, p
  <2>3. Len(e) = 3 /\ e[1] = 224 + p /\ e[2] = 128 + (h % 64) /\ e[3] = 128 + (r % 64)
    BY <2>1
  <2>4. 224 + p \in Bytes /\ 224 + p \in Nat /\ 224 + p < 240 /\ 224 + p \notin Continuation
    BY <2>2 DEF Continuation, Bytes
  <2>5. e \in Seq(Bytes)
    BY <1>1, <1>2, <2>1, <2>4, SMT
  <2>6. Lead(e[1]).l = 3 /\ Lead(e[1]).x = p
    BY <2>2, <2>3, <2>4, LeadIs
  <2>7. /\ e[2] \in Continuation /\ e[2] \in Int /\ e[2] % 64 = h % 64
        /\ e[3] \in Continuation /\ e[3] \in Int /\ e[3] % 64 = r % 64
    BY <1>1, <1>2, <2>3, SMT
  <2>8. Joined(Lead(e[1]), e) = 4096 * p + 64 * (h % 64) + (r % 64)
    <3>1. Joined(Lead(e[1]), e) = More(More(p, e[2]), e[3])
      BY <2>6, JoinedIs
    <3> QED
      BY <1>1, <2>2, <2>7, <3>1, SMT DEF More, Six
  <2>9. Joined(Lead(e[1]), e) = r
    BY <1>1, <2>8, SMT
  <2>10. Lead(e[1]).l = 3 /\ Lead(e[1]).x \in Int /\ \A i \in 2 .. 3 : e[i] \in Continuation
    BY <2>2, <2>6, <2>7
  <2> QED
    BY <2>3, <2>4, <2>5, <2>9, <2>10 DEF e
<1>6. CASE r >= 65536
  <2>1. e = <<240 + o, 128 + (p % 64), 128 + (h % 64), 128 + (r % 64)>>
    BY <1>0, <1>6, SMT DEF Encoded
  <2>2. o \in Nat /\ 0 <= o /\ o <= 4
    BY <1>0, <1>1, <1>6, SMT DEF Six
  <2> HIDE DEF e, h, p, o
  <2>3. /\ Len(e) = 4 /\ e[1] = 240 + o /\ e[2] = 128 + (p % 64)
        /\ e[3] = 128 + (h % 64) /\ e[4] = 128 + (r % 64)
    BY <2>1
  <2>4. 240 + o \in Bytes /\ 240 + o \in Nat /\ 240 + o < 248 /\ 240 + o \notin Continuation
    BY <2>2 DEF Continuation, Bytes
  <2>5. e \in Seq(Bytes)
    BY <1>1, <1>2, <2>1, <2>4, SMT
  <2>6. Lead(e[1]).l = 4 /\ Lead(e[1]).x = o
    BY <2>2, <2>3, <2>4, LeadIs
  <2>7. /\ e[2] \in Continuation /\ e[2] \in Int /\ e[2] % 64 = p % 64
        /\ e[3] \in Continuation /\ e[3] \in Int /\ e[3] % 64 = h % 64
        /\ e[4] \in Continuation /\ e[4] \in Int /\ e[4] % 64 = r % 64
    BY <1>1, <1>2, <2>3, SMT
  <2>8. Joined(Lead(e[1]), e) = 262144 * o + 4096 * (p % 64) + 64 * (h % 64) + (r % 64)
    <3>1. Joined(Lead(e[1]), e) = More(More(More(o, e[2]), e[3]), e[4])
      BY <2>6, JoinedIs
    <3> QED
      BY <1>1, <2>2, <2>7, <3>1, SMT DEF More, Six
  <2>9. Joined(Lead(e[1]), e) = r
    BY <1>1, <2>8, SMT
  <2>10. Lead(e[1]).l = 4 /\ Lead(e[1]).x \in Int /\ \A i \in 2 .. 4 : e[i] \in Continuation
    BY <2>2, <2>6, <2>7
  <2> QED
    BY <2>3, <2>4, <2>5, <2>9, <2>10 DEF e
<1> QED
  BY <1>0, <1>3, <1>4, <1>5, <1>6, SMT

(* The bytes of a string that begins another are read alike.               *)
LEMMA JoinedSame ==
  ASSUME NEW lead, lead.l \in Nat, 1 <= lead.l, lead.l <= 4, NEW u, NEW v,
         \A i \in 2 .. lead.l : v[i] = u[i]
  PROVE  Joined(lead, v) = Joined(lead, u)
<1>1. lead.l >= 2 => v[2] = u[2]
  OBVIOUS
<1>2. lead.l >= 3 => v[3] = u[3]
  OBVIOUS
<1>3. lead.l >= 4 => v[4] = u[4]
  OBVIOUS
<1>4. CASE lead.l = 1
  BY <1>4, JoinedIs
<1>5. CASE lead.l = 2
  BY <1>1, <1>5, JoinedIs
<1>6. CASE lead.l = 3
  BY <1>1, <1>2, <1>6, JoinedIs
<1>7. CASE lead.l = 4
  BY <1>1, <1>2, <1>3, <1>7, JoinedIs
<1> QED
  BY <1>4, <1>5, <1>6, <1>7

(* A rune is read as what it is, whatever follows.                         *)
LEMMA RuneRead ==
  ASSUME NEW r \in Rune, NEW u, Len(u) \in Nat, Len(u) >= Len(Encoded(r)),
         \A i \in 1 .. Len(Encoded(r)) : u[i] = Encoded(r)[i]
  PROVE  Utf8dec(u) = [l |-> Len(Encoded(r)), x |-> r]
<1> DEFINE e == Encoded(r)
           lead == Lead(e[1])
<1>1. /\ e \in Seq(Bytes) /\ Len(e) \in Nat /\ 1 <= Len(e) /\ Len(e) <= 4
      /\ lead.l = Len(e) /\ lead.x \in Int
      /\ \A i \in 2 .. Len(e) : e[i] \in Continuation
      /\ Joined(lead, e) = r
  BY EncodedIs
<1>2. u[1] = e[1]
  BY <1>1
<1> HIDE DEF lead
<1>3. Joined(lead, u) = r
  <2>1. \A i \in 2 .. lead.l : u[i] = e[i]
    BY <1>1
  <2> HIDE DEF e
  <2> QED
    BY <1>1, <2>1, JoinedSame
<1>4. lead.l \in 1 .. Len(u) /\ \A i \in 2 .. lead.l : u[i] \in Continuation
  BY <1>1
<1>5. r < 1114112 /\ ~ Surrogate(r)
  BY SMT DEF Rune, Surrogate
<1>6. Lead(u[1]) = lead
  BY <1>2 DEF lead
<1> HIDE DEF e
<1>7. Utf8dec(u) = [l |-> lead.l, x |-> Joined(lead, u)]
  BY <1>3, <1>4, <1>5, <1>6, SMT DEF Utf8dec, Rune
<1> QED
  BY <1>1, <1>3, <1>7, SMT DEF e

(* A string of Bad is not read, whatever follows of those that may.        *)
LEMMA BadRead ==
  ASSUME KbdTextAssumption, NEW b \in Bad, NEW u, Len(u) \in Nat, Len(u) >= Len(b),
         \A i \in 1 .. Len(b) : u[i] = b[i],
         Cut(b) /\ Len(u) > Len(b) => u[Len(b) + 1] \notin Continuation
  PROVE  Utf8dec(u).l = 0
<1> DEFINE lead == Lead(b[1])
<1>1. b \in Seq(Bytes) /\ b # <<>> /\ Utf8dec(b).l = 0
  BY SMT DEF KbdTextAssumption
<1>2. Len(b) \in Nat /\ Len(b) >= 1 /\ \A i \in 1 .. Len(b) : b[i] \in Bytes
  BY <1>1
<1>3. u[1] = b[1] /\ b[1] \in Nat /\ b[1] < 256
  <2>1. 1 \in 1 .. Len(b)
    BY <1>2
  <2>2. u[1] = b[1] /\ b[1] \in Bytes
    BY <1>2, <2>1
  <2> QED
    BY <2>2, ByteIs
<1>4. lead.l \in Nat /\ lead.l <= 4 /\ lead.x \in Int
  BY <1>3, LeadIs, SMT
<1> HIDE DEF lead
<1>5. Lead(u[1]) = lead /\ Lead(b[1]) = lead
  BY <1>3, SMT DEF lead
<1>6. CASE lead.l = 0
  BY <1>5, <1>6, SMT DEF Utf8dec, Unread
<1>7. CASE lead.l # 0 /\ Cut(b)
  <2>1. Len(b) < lead.l
    BY <1>5, <1>7, SMT DEF Cut
  <2>2. CASE Len(u) = Len(b)
    BY <1>2, <1>4, <1>5, <2>1, <2>2, SMT DEF Utf8dec, Unread
  <2>3. CASE Len(u) # Len(b)
    <3>1. u[Len(b) + 1] \notin Continuation /\ Len(b) + 1 \in 2 .. lead.l
      BY <1>2, <1>4, <1>7, <2>1, <2>3, SMT
    <3> QED
      BY <1>5, <3>1, SMT DEF Utf8dec, Unread
  <2> QED
    BY <2>2, <2>3
<1>8. CASE lead.l # 0 /\ ~ Cut(b)
  <2>1. lead.l \in 1 .. Len(b) /\ lead.l \in 1 .. Len(u) /\ 1 <= lead.l
    BY <1>2, <1>4, <1>5, <1>8, SMT DEF Cut
  <2>2. \A i \in 2 .. lead.l : u[i] = b[i]
    BY <1>2, <2>1
  <2>3. Joined(lead, u) = Joined(lead, b)
    BY <1>4, <2>1, <2>2, JoinedSame, SMT
  <2>4. Utf8dec(u) = Utf8dec(b)
    BY <1>5, <2>1, <2>2, <2>3, SMT DEF Utf8dec
  <2> QED
    BY <1>1, <2>4
<1> QED
  BY <1>6, <1>7, <1>8, SMT

-----------------------------------------------------------------------------
(* A key of a message, and the texts of keys.                              *)
KeySet == {Key(r) : r \in Runes} \cup {NoKey(b) : b \in Bad}

Texts(ks) == [i \in DOMAIN ks |-> ks[i].text]

(* A key is a rune or is in Bad, has a text, and does not begin with what  *)
(* may be the rest of a rune if there is one cut short.                    *)
LEMMA KeyIs ==
  ASSUME KbdTextAssumption, NEW key \in KeySet
  PROVE  /\ \/ key.rune \in Rune /\ key.rune # -1 /\ key.text = Encoded(key.rune)
            \/ key.rune = -1 /\ key.text \in Bad
         /\ key.text \in Seq(Bytes) /\ key.text # <<>>
         /\ (\E b \in Bad : Cut(b)) => key.text[1] \notin Continuation
<1>1. CASE key \in {Key(r) : r \in Runes}
  <2>1. PICK r \in Runes : key = Key(r)
    BY <1>1
  <2>2. key.rune = r /\ key.text = Encoded(r)
    BY <2>1 DEF Key
  <2>3. r \in Rune /\ r # -1
    BY SMT DEF KbdTextAssumption, Rune
  <2>4. /\ Encoded(r) \in Seq(Bytes) /\ 1 <= Len(Encoded(r))
        /\ Encoded(r)[1] \notin Continuation
    BY <2>3, EncodedIs
  <2>5. Encoded(r) # <<>>
    BY <2>4
  <2> QED
    BY <2>2, <2>3, <2>4, <2>5
<1>2. CASE key \in {NoKey(b) : b \in Bad}
  <2>1. PICK b \in Bad : key = NoKey(b)
    BY <1>2
  <2>2. key.rune = -1 /\ key.text = b
    BY <2>1 DEF NoKey
  <2>3. b \in Seq(Bytes) /\ b # <<>>
    BY SMT DEF KbdTextAssumption
  <2>4. ASSUME NEW c \in Bad, Cut(c)
        PROVE  b[1] \notin Continuation
    BY <2>4, SMT DEF KbdTextAssumption
  <2> QED
    BY <2>2, <2>3, <2>4
<1> QED
  BY <1>1, <1>2 DEF KeySet

(* What each turn of the loop over the keys has read.                      *)
LEMMA DecodedIs ==
  ASSUME NEW s, Len(s) \in Nat
  PROVE  \E g : /\ g[0] = [at |-> 1, keys |-> <<>>]
                /\ \A i \in 1 .. Len(s) : g[i] = Turn(s, g[i - 1])
                /\ Decoded(s) = g[Len(s)]
<1> DEFINE start == [at |-> 1, keys |-> <<>>]
           Body(f, i) == IF i = 0 THEN start ELSE Turn(s, f[i - 1])
           Is(f, n) == f = [i \in 0 .. n |-> Body(f, i)]
           g == CHOOSE f : Is(f, Len(s))
<1>1. ASSUME NEW n \in Nat, NEW f, Is(f, n)
      PROVE  \E h : Is(h, n + 1)
  <2> DEFINE h == [i \in 0 .. n + 1 |-> IF i <= n THEN f[i] ELSE Body(f, n + 1)]
  <2>1. ASSUME NEW i \in 0 .. n + 1
        PROVE  h[i] = Body(h, i)
    <3>1. CASE i = 0
      BY <1>1, <3>1
    <3>2. CASE i # 0
      <4>1. h[i - 1] = f[i - 1]
        BY <3>2
      <4>2. h[i] = Body(f, i)
        <5>1. CASE i <= n
          <6>1. i \in 0 .. n /\ h[i] = f[i]
            BY <5>1
          <6> QED
            BY <1>1, <6>1
        <5>2. CASE i = n + 1
          BY <5>2
        <5> QED
          BY <5>1, <5>2
      <4> QED
        BY <3>2, <4>1, <4>2
    <3> QED
      BY <3>1, <3>2
  <2>2. h = [i \in 0 .. n + 1 |-> h[i]]
    OBVIOUS
  <2> HIDE DEF h
  <2>3. Is(h, n + 1)
    BY <2>1, <2>2
  <2> QED
    BY <2>3
<1>2. \E f : Is(f, 0)
  <2>1. Is([i \in 0 .. 0 |-> start], 0)
    OBVIOUS
  <2> QED
    BY <2>1
<1> HIDE DEF Is
<1>3. \E f : Is(f, Len(s))
  <2> DEFINE T == {n \in Nat : \E f : Is(f, n)}
  <2>1. 0 \in T /\ \A n \in Nat : n \in T => n + 1 \in T
    BY <1>1, <1>2
  <2> HIDE DEF T
  <2>2. Nat \subseteq T
    BY <2>1, Induction
  <2> QED
    BY <2>2 DEF T
<1>4. Is(g, Len(s))
  BY <1>3
<1>5. Decoded(s) = g[Len(s)]
  BY DEF Decoded, Is
<1> HIDE DEF g
<1>6. g[0] = start
  BY <1>4 DEF Is
<1>7. ASSUME NEW i \in 1 .. Len(s)
      PROVE  g[i] = Turn(s, g[i - 1])
  <2>1. i \in 0 .. Len(s) /\ i # 0
    OBVIOUS
  <2>2. g[i] = Body(g, i)
    BY <1>4, <2>1 DEF Is
  <2> QED
    BY <2>1, <2>2
<1> QED
  BY <1>5, <1>6, <1>7

(* A turn that begins at a key's text reads that key, or nothing if it is  *)
(* in Bad.                                                                 *)
LEMMA TurnIs ==
  ASSUME KbdTextAssumption, NEW ks \in Seq(KeySet), NEW i \in 1 .. Len(ks), NEW q
  PROVE  LET s == FlattenSeq(Texts(ks))
             a == [at |-> Len(Upto(Texts(ks), i - 1)) + 1, keys |-> q]
         IN  /\ ks[i].rune # -1 =>
                  Turn(s, a) = [at |-> Len(Upto(Texts(ks), i)) + 1,
                                keys |-> Append(q, ks[i].rune)]
             /\ ks[i].rune = -1 => Turn(s, a) = [at |-> 0, keys |-> q]
<1> DEFINE ts == Texts(ks)
           s == FlattenSeq(ts)
           from == Len(Upto(ts, i - 1))
           a == [at |-> from + 1, keys |-> q]
           u == SubSeq(s, from + 1, Len(s))
           t == ks[i].text
           d == Utf8dec(u)
<1>0. Len(ks) \in Nat /\ ks[i] \in KeySet
  OBVIOUS
<1>1. ASSUME NEW j \in 1 .. Len(ks)
      PROVE  /\ ks[j].text \in Seq(Bytes) /\ ks[j].text # <<>>
             /\ (\E b \in Bad : Cut(b)) => ks[j].text[1] \notin Continuation
  BY KeyIs
<1>2. ts \in Seq(Seq(Bytes)) /\ Len(ts) = Len(ks) /\ \A j \in 1 .. Len(ks) : ts[j] = ks[j].text
  BY <1>1 DEF Texts
<1>3. \/ ks[i].rune \in Rune /\ ks[i].rune # -1 /\ t = Encoded(ks[i].rune)
      \/ ks[i].rune = -1 /\ t \in Bad
  BY <1>0, KeyIs
<1> HIDE DEF ts
<1>4. /\ s \in Seq(Bytes) /\ from \in Nat
      /\ Len(Upto(ts, i)) = from + Len(t) /\ from + Len(t) <= Len(s)
      /\ \A p \in 1 .. Len(t) : s[from + p] = t[p]
  <2>1. i \in 1 .. Len(ts) /\ ts[i] = t
    BY <1>2
  <2> HIDE DEF t
  <2>2. /\ FlattenSeq(ts) \in Seq(Bytes)
        /\ Len(Upto(ts, i - 1)) \in Nat
        /\ Len(Upto(ts, i)) = Len(Upto(ts, i - 1)) + Len(ts[i])
        /\ Len(Upto(ts, i)) <= Len(FlattenSeq(ts))
        /\ \A p \in 1 .. Len(ts[i]) : FlattenSeq(ts)[Len(Upto(ts, i - 1)) + p] = ts[i][p]
    BY <1>2, <2>1, UptoPlaces
  <2> QED
    BY <2>1, <2>2
<1>5. t \in Seq(Bytes) /\ t # <<>>
  BY <1>1
<1> HIDE DEF s, from, t
<1>6. Len(t) \in Nat /\ Len(t) >= 1 /\ Len(s) \in Nat /\ from + 1 \in 1 .. Len(s)
  BY <1>4, <1>5
<1>7. Len(u) = Len(s) - from /\ \A p \in 1 .. Len(s) - from : u[p] = s[from + p]
  BY <1>4, <1>6
<1> HIDE DEF u
<1>8. Len(u) \in Nat /\ Len(u) >= Len(t) /\ \A p \in 1 .. Len(t) : u[p] = t[p]
  BY <1>4, <1>6, <1>7
<1>9. Turn(s, a) = IF d.l = 0 THEN [at |-> 0, keys |-> q]
                   ELSE [at |-> from + 1 + d.l, keys |-> Append(q, d.x)]
  BY <1>6 DEF Turn, u
<1>10. CASE ks[i].rune # -1
  <2>1. ks[i].rune \in Rune /\ t = Encoded(ks[i].rune)
    BY <1>3, <1>10
  <2>2. d = [l |-> Len(t), x |-> ks[i].rune]
    BY <1>8, <2>1, RuneRead
  <2>3. d.l = Len(t) /\ d.x = ks[i].rune
    BY <2>2
  <2> HIDE DEF d
  <2>4. Turn(s, a) = [at |-> from + 1 + Len(t), keys |-> Append(q, ks[i].rune)]
    BY <1>6, <1>9, <2>3
  <2>5. from + 1 + Len(t) = Len(Upto(ts, i)) + 1
    BY <1>4, <1>6
  <2> QED
    BY <1>10, <2>4, <2>5 DEF ts, s, from
<1>11. CASE ks[i].rune = -1
  <2>1. t \in Bad
    BY <1>3, <1>11
  <2>2. ASSUME Cut(t), Len(u) > Len(t)
        PROVE  u[Len(t) + 1] \notin Continuation
    <3>1. from + Len(t) < Len(s)
      BY <1>4, <1>6, <1>7, <2>2
    <3>2. i # Len(ks)
      <4>1. Upto(ts, Len(ts)) = s
        BY <1>2, UptoIs DEF s
      <4> QED
        BY <1>2, <1>4, <3>1, <4>1
    <3>3. i + 1 \in 1 .. Len(ks) /\ (i + 1) - 1 = i
      BY <1>0, <3>2
    <3>4. /\ Len(ts[i + 1]) \in Nat
          /\ \A p \in 1 .. Len(ts[i + 1]) : s[Len(Upto(ts, i)) + p] = ts[i + 1][p]
      <4> DEFINE j == i + 1
      <4>1. j \in 1 .. Len(ts) /\ j - 1 = i
        BY <1>2, <3>3
      <4> HIDE DEF j
      <4>2. /\ Len(ts[j]) \in Nat
            /\ \A p \in 1 .. Len(ts[j]) :
                 FlattenSeq(ts)[Len(Upto(ts, j - 1)) + p] = ts[j][p]
        BY <1>2, <4>1, UptoPlaces
      <4> QED
        BY <4>1, <4>2 DEF s, j
    <3>5. ts[i + 1] \in Seq(Bytes) /\ ts[i + 1] # <<>> /\ ts[i + 1][1] \notin Continuation
      BY <1>1, <1>2, <2>1, <2>2, <3>3
    <3>6. 1 \in 1 .. Len(ts[i + 1])
      BY <3>5
    <3>7. s[from + Len(t) + 1] = ts[i + 1][1]
      BY <1>4, <3>4, <3>6
    <3>8. u[Len(t) + 1] = s[from + (Len(t) + 1)]
      BY <1>4, <1>6, <1>7, <3>1
    <3>9. from + (Len(t) + 1) = from + Len(t) + 1
      BY <1>4, <1>6
    <3> QED
      BY <3>5, <3>7, <3>8, <3>9
  <2>3. d.l = 0
    BY <1>8, <2>1, <2>2, BadRead
  <2> QED
    BY <1>9, <1>11, <2>3 DEF ts, s, from
<1> QED
  BY <1>10, <1>11


(* The first n keys: their runes, and that none of them is in Bad.         *)
FirstRunes(ks, n) == [i \in 1 .. n |-> ks[i].rune]

Readable(ks, n) == \A i \in 1 .. n : ks[i].rune # -1

(* The loop over the keys of a message reads them all, or stops at the     *)
(* first that cannot be read.                                              *)
LEMMA KeysDecoded ==
  ASSUME KbdTextAssumption, NEW ks \in Seq(KeySet)
  PROVE  LET s == FlattenSeq(Texts(ks))
         IN  /\ s \in Seq(Bytes)
             /\ Readable(ks, Len(ks)) =>
                  Decoded(s) = [at |-> Len(s) + 1, keys |-> FirstRunes(ks, Len(ks))]
             /\ ~ Readable(ks, Len(ks)) => Decoded(s).at = 0
<1> DEFINE ts == Texts(ks)
           s == FlattenSeq(ts)
<1>0. Len(ks) \in Nat /\ \A i \in 1 .. Len(ks) : ks[i] \in KeySet
  OBVIOUS
<1>1. /\ ts \in Seq(Seq(Bytes)) /\ Len(ts) = Len(ks)
      /\ \A i \in 1 .. Len(ks) : ts[i] # <<>>
  <2>1. \A i \in 1 .. Len(ks) : ks[i].text \in Seq(Bytes) /\ ks[i].text # <<>>
    BY <1>0, KeyIs
  <2> QED
    BY <2>1 DEF Texts
<1>2. /\ Upto(ts, 0) = <<>> /\ Upto(ts, Len(ts)) = FlattenSeq(ts)
      /\ \A i \in 0 .. Len(ts) : Upto(ts, i) \in Seq(Bytes)
  BY <1>1, UptoIs
<1>3. \A i \in 0 .. Len(ts) : i <= Len(Upto(ts, i))
  BY <1>1, UptoLong
<1> HIDE DEF ts
<1>4. s \in Seq(Bytes) /\ Len(s) \in Nat /\ Len(ks) <= Len(s)
  <2>1. Len(ts) \in 0 .. Len(ts)
    BY <1>0, <1>1
  <2>2. s \in Seq(Bytes)
    BY <1>2, <2>1
  <2>3. Len(s) \in Nat
    BY <2>2
  <2> QED
    BY <1>1, <1>2, <1>3, <2>1, <2>2, <2>3
<1>5. ASSUME NEW i \in 1 .. Len(ks), NEW q
      PROVE  LET a == [at |-> Len(Upto(ts, i - 1)) + 1, keys |-> q]
             IN  /\ ks[i].rune # -1 =>
                      Turn(s, a) = [at |-> Len(Upto(ts, i)) + 1,
                                    keys |-> Append(q, ks[i].rune)]
                 /\ ks[i].rune = -1 => Turn(s, a) = [at |-> 0, keys |-> q]
  BY TurnIs DEF ts
<1> HIDE DEF s
<1>6. PICK g : /\ g[0] = [at |-> 1, keys |-> <<>>]
               /\ \A i \in 1 .. Len(s) : g[i] = Turn(s, g[i - 1])
               /\ Decoded(s) = g[Len(s)]
  BY <1>4, DecodedIs
<1> DEFINE All(n) == [at |-> Len(Upto(ts, n)) + 1, keys |-> FirstRunes(ks, n)]
           Right(n) == /\ Readable(ks, n) => g[n] = All(n)
                       /\ ~ Readable(ks, n) => g[n].at = 0
           T == {n \in Nat : n <= Len(ks) => Right(n)}
<1>7. 0 \in T
  <2>1. FirstRunes(ks, 0) = <<>>
    BY DEF FirstRunes
  <2>2. Len(Upto(ts, 0)) = 0
    BY <1>2
  <2> QED
    BY <1>6, <2>1, <2>2 DEF Readable
<1>8. ASSUME NEW n \in Nat, n \in T
      PROVE  n + 1 \in T
  <2> SUFFICES ASSUME n + 1 <= Len(ks)
               PROVE  Right(n + 1)
    OBVIOUS
  <2> DEFINE k == n + 1
  <2>1. k \in 1 .. Len(ks) /\ k \in 1 .. Len(s) /\ k - 1 = n /\ n <= Len(ks)
    BY <1>0, <1>4
  <2>2. Right(n)
    BY <1>8, <2>1
  <2>3. Readable(ks, k) <=> Readable(ks, n) /\ ks[k].rune # -1
    <3>1. ASSUME Readable(ks, n), ks[k].rune # -1, NEW i \in 1 .. k
          PROVE  ks[i].rune # -1
      <4>1. i \in 1 .. n \/ i = k
        OBVIOUS
      <4> QED
        BY <3>1, <4>1 DEF Readable
    <3>2. k \in 1 .. k /\ \A i \in 1 .. n : i \in 1 .. k
      OBVIOUS
    <3> QED
      BY <3>1, <3>2 DEF Readable
  <2>4. g[k] = Turn(s, g[n])
    BY <1>6, <2>1
  <2>5. Append(FirstRunes(ks, n), ks[k].rune) = FirstRunes(ks, k)
    BY DEF FirstRunes
  <2> HIDE DEF k
  <2>6. CASE Readable(ks, n)
    <3>1. g[n] = [at |-> Len(Upto(ts, k - 1)) + 1, keys |-> FirstRunes(ks, n)]
      BY <2>1, <2>2, <2>6
    <3>2. CASE ks[k].rune # -1
      <4>1. g[k] = [at |-> Len(Upto(ts, k)) + 1, keys |-> Append(FirstRunes(ks, n), ks[k].rune)]
        BY <1>5, <2>1, <2>4, <3>1, <3>2
      <4> QED
        BY <2>3, <2>5, <2>6, <3>2, <4>1 DEF k
    <3>3. CASE ks[k].rune = -1
      <4>1. g[k] = [at |-> 0, keys |-> FirstRunes(ks, n)]
        BY <1>5, <2>1, <2>4, <3>1, <3>3
      <4> QED
        BY <2>3, <3>3, <4>1 DEF k
    <3> QED
      BY <3>2, <3>3
  <2>7. CASE ~ Readable(ks, n)
    <3>1. g[n].at = 0
      BY <2>2, <2>7
    <3>2. g[k] = g[n]
      BY <2>4, <3>1 DEF Turn
    <3> QED
      BY <2>3, <2>7, <3>1, <3>2 DEF k
  <2> QED
    BY <2>6, <2>7
<1> HIDE DEF T
<1>9. Right(Len(ks))
  <2>1. Len(ks) \in T
    BY <1>0, <1>7, <1>8, Induction
  <2> QED
    BY <1>0, <2>1 DEF T
<1>10. g[Len(ks)].at \notin 1 .. Len(s)
  <2>1. Len(Upto(ts, Len(ks))) = Len(s)
    BY <1>1, <1>2 DEF s
  <2>2. CASE Readable(ks, Len(ks))
    <3>1. g[Len(ks)].at = Len(s) + 1
      BY <1>9, <2>1, <2>2
    <3> QED
      BY <1>4, <3>1
  <2>3. CASE ~ Readable(ks, Len(ks))
    BY <1>9, <2>3
  <2> QED
    BY <2>2, <2>3
<1>11. Decoded(s) = g[Len(ks)]
  <2> DEFINE U == {n \in Nat : n >= Len(ks) /\ n <= Len(s) => g[n] = g[Len(ks)]}
  <2>1. 0 \in U
    <3>1. Len(ks) <= 0 => Len(ks) = 0
      BY <1>0
    <3> QED
      BY <1>0, <3>1
  <2>2. ASSUME NEW n \in Nat, n \in U
        PROVE  n + 1 \in U
    <3> SUFFICES ASSUME n + 1 >= Len(ks), n + 1 <= Len(s), n + 1 # Len(ks)
                 PROVE  g[n + 1] = g[Len(ks)]
      OBVIOUS
    <3>1. n + 1 \in 1 .. Len(s) /\ (n + 1) - 1 = n /\ n >= Len(ks) /\ n <= Len(s)
      BY <1>0, <1>4
    <3>2. g[n] = g[Len(ks)]
      BY <2>2, <3>1
    <3>3. g[n + 1] = Turn(s, g[n])
      BY <1>6, <3>1
    <3> QED
      BY <1>10, <3>2, <3>3 DEF Turn
  <2> HIDE DEF U
  <2>3. Len(s) \in U
    BY <1>4, <2>1, <2>2, Induction
  <2> QED
    BY <1>4, <1>6, <2>3 DEF U
<1>12. Len(Upto(ts, Len(ks))) = Len(s)
  BY <1>1, <1>2 DEF s
<1> QED
  BY <1>4, <1>9, <1>11, <1>12 DEF s, ts

-----------------------------------------------------------------------------
(* The kinds and keys of a message.                                        *)
LEMMA MessageIs ==
  ASSUME KbdTextAssumption, NEW m \in Messages
  PROVE  /\ m.kind \in Nat /\ m.kind # 0 /\ m.keys \in Seq(KeySet)
         /\ DOMAIN m.keys = 1 .. Len(m.keys)
<1>1. MaxKeys \in Nat
  BY SMT DEF KbdTextAssumption
<1>2. m.kind \in {Pressing, Releasing, 99} /\ \E n \in 0 .. MaxKeys : m.keys \in [1 .. n -> KeySet]
  BY DEF Messages, KeySet
<1>3. m.kind \in Nat /\ m.kind # 0
  BY <1>2 DEF Pressing, Releasing
<1>4. PICK n \in 0 .. MaxKeys : m.keys \in [1 .. n -> KeySet]
  BY <1>2
<1>5. n \in Nat
  BY <1>1
<1> QED
  BY <1>3, <1>4, <1>5

(* What is between the kind and the 0.                                     *)
KeyTexts(m) == FlattenSeq(Texts(m.keys))

(* A message is its kind, the texts of its keys, without a 0, and a 0.     *)
LEMMA TextIs ==
  ASSUME KbdTextAssumption, NEW m \in Messages
  PROVE  /\ KeyTexts(m) \in Seq(Bytes) /\ Text(m) \in Seq(Nat)
         /\ Len(Text(m)) = Len(KeyTexts(m)) + 2
         /\ Text(m)[1] = m.kind /\ Text(m)[Len(KeyTexts(m)) + 2] = 0
         /\ \A p \in 1 .. Len(KeyTexts(m)) : Text(m)[p + 1] = KeyTexts(m)[p] /\ KeyTexts(m)[p] # 0
<1> DEFINE f == KeyTexts(m)
<1>1. f \in Seq(Bytes)
  BY MessageIs, KeysDecoded DEF KeyTexts
<1>2. Bytes \subseteq Nat /\ 0 \notin Bytes
  BY DEF Bytes
<1>3. Text(m) = <<m.kind>> \o f \o <<0>>
  BY DEF Text, KeyTexts, Texts
<1>4. m.kind \in Nat
  BY MessageIs
<1> HIDE DEF f
<1>5. f \in Seq(Nat) /\ \A p \in 1 .. Len(f) : f[p] # 0
  <2>1. Len(f) \in Nat /\ DOMAIN f = 1 .. Len(f) /\ \A p \in 1 .. Len(f) : f[p] \in Bytes
    BY <1>1
  <2>2. \A p \in 1 .. Len(f) : f[p] \in Nat /\ f[p] # 0
    BY <1>2, <2>1
  <2>3. f = [p \in 1 .. Len(f) |-> f[p]]
    BY <1>1
  <2> QED
    BY <2>1, <2>2, <2>3
<1> QED
  BY <1>1, <1>3, <1>4, <1>5 DEF f

(* kbdevent takes the messages that are in order, and what they mean.      *)
LEMMA RefusedIs ==
  ASSUME KbdTextAssumption, NEW m \in Messages, m.kind \in {Pressing, Releasing}
  PROVE  /\ Refused(m.kind, Decoded(KeyTexts(m))) <=> ~ InOrder(m)
         /\ InOrder(m) => Meaning(m) = <<EventOf(m.kind, Decoded(KeyTexts(m)).keys)>>
<1> DEFINE ks == m.keys
           s == KeyTexts(m)
           d == Decoded(s)
<1>1. ks \in Seq(KeySet) /\ DOMAIN ks = 1 .. Len(ks) /\ Len(ks) \in Nat
  BY MessageIs
<1>2. /\ s \in Seq(Bytes)
      /\ Readable(ks, Len(ks)) => d = [at |-> Len(s) + 1, keys |-> FirstRunes(ks, Len(ks))]
      /\ ~ Readable(ks, Len(ks)) => d.at = 0
  BY <1>1, KeysDecoded DEF KeyTexts
<1>3. Readable(ks, Len(ks)) <=> \A i \in DOMAIN ks : ks[i].rune # -1
  BY <1>1 DEF Readable
<1>4. FirstRunes(ks, Len(ks)) = [i \in DOMAIN ks |-> ks[i].rune]
  BY <1>1 DEF FirstRunes
<1>5. FirstRunes(ks, Len(ks)) = <<>> <=> ks = <<>>
  <2>1. FirstRunes(ks, Len(ks)) = <<>> <=> Len(ks) = 0
    BY <1>1 DEF FirstRunes
  <2> QED
    BY <1>1, <2>1
<1>6. Len(s) \in Nat
  BY <1>2
<1> HIDE DEF ks, s, d
<1>7. InOrder(m) <=> Readable(ks, Len(ks)) /\ (m.kind = Pressing => ks # <<>>)
  BY <1>3 DEF InOrder, ks
<1>8. CASE Readable(ks, Len(ks))
  <2>1. d.at = Len(s) + 1 /\ d.keys = FirstRunes(ks, Len(ks))
    BY <1>2, <1>8
  <2>2. d.at # 0
    BY <1>6, <2>1
  <2>3. Refused(m.kind, d) <=> ~ InOrder(m)
    BY <1>5, <1>7, <1>8, <2>1, <2>2 DEF Refused
  <2>4. Meaning(m) = <<EventOf(m.kind, d.keys)>>
    BY <1>4, <2>1 DEF Meaning, ks
  <2> QED
    BY <2>3, <2>4 DEF d, s
<1>9. CASE ~ Readable(ks, Len(ks))
  BY <1>2, <1>7, <1>9 DEF Refused, d, s
<1> QED
  BY <1>8, <1>9

-----------------------------------------------------------------------------
(* The messages of a reply: their texts, what they mean, and all that a    *)
(* message may mean.                                                       *)
Parts(ms) == [i \in DOMAIN ms |-> Text(ms[i])]

Meanings(ms) == [i \in DOMAIN ms |-> Meaning(ms[i])]

Events == {EventOf(m.kind, [i \in DOMAIN m.keys |-> m.keys[i].rune]) : m \in Messages}

(* Where a message of the reply begins and what the messages before it     *)
(* mean.                                                                   *)
LEMMA StartsIs ==
  ASSUME KbdTextAssumption, sent \in Seq(Messages)
  PROVE  /\ Parts(sent) \in Seq(Seq(Nat)) /\ Len(Parts(sent)) = Len(sent)
         /\ \A i \in 0 .. Len(sent) : Starts(i) = Len(Upto(Parts(sent), i))
         /\ \A i \in 0 .. Len(sent) : Meant(SubSeq(sent, 1, i)) = Upto(Meanings(sent), i)
         /\ Meanings(sent) \in Seq(Seq(Events)) /\ Len(Meanings(sent)) = Len(sent)
         /\ Whole(sent) = FlattenSeq(Parts(sent))
<1>1. Len(sent) \in Nat /\ DOMAIN sent = 1 .. Len(sent) /\ \A i \in 1 .. Len(sent) : sent[i] \in Messages
  OBVIOUS
<1>2. \A i \in 1 .. Len(sent) : Text(sent[i]) \in Seq(Nat)
  BY <1>1, TextIs
<1>3. Parts(sent) \in Seq(Seq(Nat)) /\ Len(Parts(sent)) = Len(sent)
  BY <1>1, <1>2 DEF Parts
<1>4. \A m \in Messages : Meaning(m) \in Seq(Events)
  <2> TAKE m \in Messages
  <2> DEFINE e == EventOf(m.kind, [i \in DOMAIN m.keys |-> m.keys[i].rune])
  <2>1. e \in Events
    BY DEF Events
  <2> HIDE DEF e
  <2>2. <<e>> \in Seq(Events) /\ <<>> \in Seq(Events)
    BY <2>1
  <2>3. Meaning(m) = <<e>> \/ Meaning(m) = <<>>
    BY DEF Meaning, e
  <2> QED
    BY <2>2, <2>3
<1>5. Meanings(sent) \in Seq(Seq(Events)) /\ Len(Meanings(sent)) = Len(sent)
  BY <1>1, <1>4 DEF Meanings
<1>6. ASSUME NEW i \in 0 .. Len(sent)
      PROVE  /\ Parts(SubSeq(sent, 1, i)) = SubSeq(Parts(sent), 1, i)
             /\ Meanings(SubSeq(sent, 1, i)) = SubSeq(Meanings(sent), 1, i)
  <2> DEFINE u == SubSeq(sent, 1, i)
  <2>1. /\ i \in Nat /\ i <= Len(sent)
        /\ DOMAIN u = 1 .. i /\ \A j \in 1 .. i : u[j] = sent[j] /\ j \in DOMAIN sent
    BY <1>1
  <2> HIDE DEF u
  <2>2. Parts(u) = [j \in 1 .. i |-> Text(sent[j])]
    BY <2>1 DEF Parts
  <2>3. Meanings(u) = [j \in 1 .. i |-> Meaning(sent[j])]
    BY <2>1 DEF Meanings
  <2>4. SubSeq(Parts(sent), 1, i) = [j \in 1 .. i |-> Text(sent[j])]
    <3>1. \A j \in 1 .. i : Parts(sent)[j] = Text(sent[j])
      BY <2>1 DEF Parts
    <3> HIDE DEF Parts
    <3> QED
      BY <1>3, <2>1, <3>1
  <2>5. SubSeq(Meanings(sent), 1, i) = [j \in 1 .. i |-> Meaning(sent[j])]
    <3>1. \A j \in 1 .. i : Meanings(sent)[j] = Meaning(sent[j])
      BY <2>1 DEF Meanings
    <3> QED
      BY <1>5, <2>1, <3>1
  <2> QED
    BY <2>2, <2>3, <2>4, <2>5 DEF u
<1>7. \A ms : Whole(ms) = FlattenSeq(Parts(ms)) /\ Meant(ms) = FlattenSeq(Meanings(ms))
  BY DEF Whole, Meant, Parts, Meanings
<1>8. \A i \in 0 .. Len(sent) : Starts(i) = Len(Upto(Parts(sent), i))
  BY <1>6, <1>7 DEF Starts, Upto
<1>9. \A i \in 0 .. Len(sent) : Meant(SubSeq(sent, 1, i)) = Upto(Meanings(sent), i)
  BY <1>6, <1>7 DEF Upto
<1> QED
  BY <1>3, <1>5, <1>7, <1>8, <1>9

-----------------------------------------------------------------------------
(* The reply is what arrives of what was sent.  kbdread has gone on with   *)
(* the first n messages, is at the beginning of the next, if it has not    *)
(* stopped, and stops only at one that is not whole or not in order.       *)
TextInv ==
  /\ sent \in Seq(Messages)
  /\ reply = IF Len(Whole(sent)) <= COUNT THEN Whole(sent) ELSE SubSeq(Whole(sent), 1, COUNT)
  /\ \E n \in Arrive :
       /\ events = Meant(SubSeq(sent, 1, n))
       /\ pos \in {0, -1, Starts(n) + 1}
       /\ pos = 0 => n < Len(sent) /\ n + 1 \notin Arrive

(* The reply is as the whole text, as far as it goes.                      *)
LEMMA ReplyIs ==
  ASSUME KbdTextAssumption, TextInv
  PROVE  /\ Whole(sent) \in Seq(Nat) /\ reply \in Seq(Nat) /\ Len(reply) \in Nat /\ COUNT \in Nat
         /\ Starts(0) = 0 /\ Starts(Len(sent)) = Len(Whole(sent))
         /\ \A i \in 0 .. Len(sent) : Starts(i) \in Nat
         /\ Len(Whole(sent)) <= COUNT => Len(reply) = Len(Whole(sent))
         /\ Len(Whole(sent)) > COUNT => Len(reply) = COUNT
         /\ \A p \in 1 .. Len(reply) : reply[p] = Whole(sent)[p]
<1> DEFINE w == Whole(sent)
<1>1. /\ Parts(sent) \in Seq(Seq(Nat)) /\ Len(Parts(sent)) = Len(sent)
      /\ \A i \in 0 .. Len(sent) : Starts(i) = Len(Upto(Parts(sent), i))
      /\ w = FlattenSeq(Parts(sent))
  BY StartsIs DEF TextInv
<1>2. Len(sent) \in Nat
  BY DEF TextInv
<1> DEFINE ps == Parts(sent)
<1> HIDE DEF ps
<1>3. /\ Upto(ps, 0) = <<>> /\ Upto(ps, Len(ps)) = FlattenSeq(ps)
      /\ \A i \in 0 .. Len(ps) : Upto(ps, i) \in Seq(Nat)
  BY <1>1, UptoIs DEF ps
<1>4. \A i \in 0 .. Len(sent) : Len(Upto(ps, i)) \in Nat
  BY <1>1, <1>3 DEF ps
<1>5. 0 \in 0 .. Len(sent) /\ Len(sent) \in 0 .. Len(sent)
  BY <1>2
<1>6. w \in Seq(Nat)
  BY <1>1, <1>3, <1>5 DEF ps
<1>7. COUNT \in Nat
  BY SMT DEF KbdTextAssumption
<1>8. reply = IF Len(w) <= COUNT THEN w ELSE SubSeq(w, 1, COUNT)
  BY DEF TextInv
<1>9. Starts(0) = 0 /\ Starts(Len(sent)) = Len(w) /\ \A i \in 0 .. Len(sent) : Starts(i) \in Nat
  BY <1>1, <1>3, <1>4, <1>5 DEF ps
<1> HIDE DEF w
<1>10. /\ reply \in Seq(Nat) /\ Len(reply) \in Nat
       /\ Len(w) <= COUNT => Len(reply) = Len(w)
       /\ Len(w) > COUNT => Len(reply) = COUNT
       /\ \A p \in 1 .. Len(reply) : reply[p] = w[p]
  BY <1>6, <1>7, <1>8
<1> QED
  BY <1>6, <1>7, <1>9, <1>10 DEF w

(* No message ends before it begins, and none after the last.              *)
LEMMA StartsGrow ==
  ASSUME KbdTextAssumption, TextInv, NEW i \in 0 .. Len(sent), NEW j \in i .. Len(sent)
  PROVE  Starts(i) <= Starts(j)
<1> DEFINE ps == Parts(sent)
<1>1. /\ ps \in Seq(Seq(Nat)) /\ Len(ps) = Len(sent)
      /\ \A k \in 0 .. Len(sent) : Starts(k) = Len(Upto(ps, k))
  BY StartsIs DEF TextInv
<1>2. Len(sent) \in Nat
  BY DEF TextInv
<1> HIDE DEF ps
<1>3. i \in 0 .. Len(ps) /\ j \in i .. Len(ps) /\ j \in 0 .. Len(sent)
  BY <1>1, <1>2
<1>4. Len(Upto(ps, i)) <= Len(Upto(ps, j))
  BY <1>1, <1>3, UptoGrows
<1> QED
  BY <1>1, <1>3, <1>4

(* A message, in the whole text.                                           *)
LEMMA MessageText ==
  ASSUME KbdTextAssumption, TextInv, NEW i \in 1 .. Len(sent)
  PROVE  LET f == KeyTexts(sent[i])
             b == Starts(i - 1)
         IN  /\ Len(f) \in Nat /\ Starts(i) = b + Len(f) + 2
             /\ Whole(sent)[b + 1] = sent[i].kind
             /\ Whole(sent)[b + Len(f) + 2] = 0
             /\ \A p \in 1 .. Len(f) : Whole(sent)[b + 1 + p] = f[p] /\ f[p] # 0
<1> DEFINE ps == Parts(sent)
           f == KeyTexts(sent[i])
           t == Text(sent[i])
           b == Starts(i - 1)
           w == Whole(sent)
<1>1. /\ ps \in Seq(Seq(Nat)) /\ Len(ps) = Len(sent)
      /\ \A k \in 0 .. Len(sent) : Starts(k) = Len(Upto(ps, k))
      /\ w = FlattenSeq(ps)
  BY StartsIs DEF TextInv
<1>2. Len(sent) \in Nat /\ sent[i] \in Messages /\ i \in DOMAIN sent
  BY DEF TextInv
<1>3. ps[i] = t
  BY <1>2 DEF Parts
<1> HIDE DEF ps
<1>4. i \in 1 .. Len(ps) /\ i \in 0 .. Len(sent) /\ i - 1 \in 0 .. Len(sent)
  BY <1>1, <1>2
<1>5. /\ f \in Seq(Bytes) /\ t \in Seq(Nat) /\ Len(t) = Len(f) + 2
      /\ t[1] = sent[i].kind /\ t[Len(f) + 2] = 0
      /\ \A p \in 1 .. Len(f) : t[p + 1] = f[p] /\ f[p] # 0
  BY <1>2, TextIs
<1> HIDE DEF t
<1>6. /\ Len(Upto(ps, i - 1)) \in Nat
      /\ Len(Upto(ps, i)) = Len(Upto(ps, i - 1)) + Len(ps[i])
      /\ \A p \in 1 .. Len(ps[i]) : FlattenSeq(ps)[Len(Upto(ps, i - 1)) + p] = ps[i][p]
  BY <1>1, <1>4, UptoPlaces
<1> HIDE DEF f, w
<1>7. Len(f) \in Nat
  BY <1>5
<1>8. Starts(i) = b + Len(f) + 2 /\ b \in Nat
  <2>1. Starts(i) = Len(Upto(ps, i)) /\ b = Len(Upto(ps, i - 1))
    BY <1>1, <1>4
  <2>2. Len(ps[i]) = Len(f) + 2
    BY <1>3, <1>5
  <2> HIDE DEF b
  <2> QED
    BY <1>6, <1>7, <2>1, <2>2
<1>9. \A p \in 1 .. Len(f) + 2 : w[b + p] = t[p]
  BY <1>1, <1>3, <1>4, <1>5, <1>6
<1> HIDE DEF b
<1>10. w[b + 1] = t[1] /\ w[b + (Len(f) + 2)] = t[Len(f) + 2]
  <2>1. 1 \in 1 .. Len(f) + 2 /\ Len(f) + 2 \in 1 .. Len(f) + 2
    BY <1>7
  <2> QED
    BY <1>9, <2>1
<1>11. ASSUME NEW p \in 1 .. Len(f)
       PROVE  w[b + 1 + p] = f[p] /\ f[p] # 0
  <2>1. p + 1 \in 1 .. Len(f) + 2 /\ b + 1 + p = b + (p + 1)
    BY <1>7, <1>8
  <2> QED
    BY <1>5, <1>9, <2>1
<1>12. b + (Len(f) + 2) = b + Len(f) + 2
  BY <1>7, <1>8
<1> QED
  BY <1>5, <1>7, <1>8, <1>10, <1>11, <1>12 DEF b, f, w

(* The n places after the first a.                                         *)
LEMMA SubSeqIs ==
  ASSUME NEW B, NEW s \in Seq(B), NEW a \in Nat, NEW n \in Nat, a + n <= Len(s)
  PROVE  SubSeq(s, a + 1, a + n) = [p \in 1 .. n |-> s[a + p]]
<1>1. Len(SubSeq(s, a + 1, a + n)) = n
  OBVIOUS
<1>2. ASSUME NEW p \in 1 .. n
      PROVE  SubSeq(s, a + 1, a + n)[p] = s[a + p]
  OBVIOUS
<1>3. SubSeq(s, a + 1, a + n) \in Seq(B)
  OBVIOUS
<1> DEFINE u == SubSeq(s, a + 1, a + n)
<1> HIDE DEF u
<1>4. u = [p \in 1 .. n |-> u[p]]
  BY <1>1, <1>3 DEF u
<1> QED
  BY <1>2, <1>4 DEF u

(* At the beginning of a message of the reply, kbdread sees its kind; it   *)
(* finds its end and its keys if the message is whole, and else no end.    *)
LEMMA NextMessage ==
  ASSUME KbdTextAssumption, TextInv,
         NEW n \in 0 .. Len(sent), pos = Starts(n) + 1, pos \in 1 .. Len(reply)
  PROVE  /\ n + 1 \in 1 .. Len(sent) /\ Starts(n + 1) \in Nat
         /\ reply[pos] = sent[n + 1].kind
         /\ Starts(n + 1) <= COUNT =>
              /\ End = {Starts(n + 1)}
              /\ SubSeq(reply, pos + 1, Starts(n + 1) - 1) = KeyTexts(sent[n + 1])
         /\ Starts(n + 1) > COUNT => End = {}
<1> DEFINE k == n + 1
           f == KeyTexts(sent[k])
           b == Starts(n)
           e == Starts(k)
           w == Whole(sent)
<1>1. /\ Len(sent) \in Nat /\ Len(w) \in Nat /\ Len(reply) \in Nat /\ COUNT \in Nat
      /\ b \in Nat
      /\ Starts(Len(sent)) = Len(w)
      /\ Len(w) <= COUNT => Len(reply) = Len(w)
      /\ Len(w) > COUNT => Len(reply) = COUNT
      /\ \A p \in 1 .. Len(reply) : reply[p] = w[p]
  <2>1. Len(sent) \in Nat
    BY DEF TextInv
  <2>2. w \in Seq(Nat)
    BY ReplyIs
  <2>3. Len(w) \in Nat
    BY <2>2
  <2> QED
    BY <2>1, <2>3, ReplyIs
<1>2. n # Len(sent)
  BY <1>1
<1>3. k \in 1 .. Len(sent) /\ k - 1 = n /\ k \in 0 .. Len(sent) /\ Len(sent) \in k .. Len(sent)
  BY <1>1, <1>2
<1>4. sent[k] \in Messages
  BY <1>3 DEF TextInv
<1>5. sent[k].kind # 0 /\ f \in Seq(Bytes)
  BY <1>4, MessageIs, TextIs
<1> HIDE DEF w, k
<1>6. /\ Len(f) \in Nat /\ e = b + Len(f) + 2
      /\ w[b + 1] = sent[k].kind
      /\ w[b + Len(f) + 2] = 0
      /\ \A p \in 1 .. Len(f) : w[b + 1 + p] = f[p] /\ f[p] # 0
  BY <1>3, MessageText DEF w
<1>7. e <= Len(w)
  BY <1>1, <1>3, StartsGrow
<1> HIDE DEF f, b, e
<1>8. e \in Nat /\ b \in Nat /\ pos = b + 1
  BY <1>1, <1>6 DEF b
<1>9. reply[pos] = sent[k].kind
  BY <1>1, <1>6, <1>8
<1>10. ASSUME NEW j \in pos .. e - 1, j <= Len(reply)
       PROVE  reply[j] # 0
  <2>1. j \in 1 .. Len(reply) /\ (j = b + 1 \/ j - b - 1 \in 1 .. Len(f))
    <3>1. /\ j \in Int /\ b + 1 <= j /\ j <= e - 1 /\ b \in Nat
          /\ Len(f) \in Nat /\ e = b + Len(f) + 2
      BY <1>6, <1>8
    <3>2. j \in 1 .. Len(reply)
      BY <1>1, <1>10, <3>1
    <3>3. j = b + 1 \/ j - b - 1 \in 1 .. Len(f)
      BY <3>1
    <3> QED
      BY <3>2, <3>3
  <2>2. CASE j = b + 1
    BY <1>5, <1>8, <1>9, <2>2
  <2>3. CASE j - b - 1 \in 1 .. Len(f)
    <3>1. w[b + 1 + (j - b - 1)] = f[j - b - 1] /\ f[j - b - 1] # 0
      BY <1>6, <2>3
    <3>2. b + 1 + (j - b - 1) = j
      BY <1>8, <2>1
    <3> QED
      BY <1>1, <2>1, <3>1, <3>2
  <2> QED
    BY <2>1, <2>2, <2>3
<1>11. ASSUME e <= COUNT
       PROVE  End = {e} /\ SubSeq(reply, pos + 1, e - 1) = f
  <2>1. e \in pos .. Len(reply)
    BY <1>1, <1>6, <1>7, <1>8, <1>11
  <2>2. reply[e] = 0
    BY <1>1, <1>6, <1>8, <2>1
  <2>3. e \in End
    BY <1>1, <1>8, <1>10, <2>1, <2>2 DEF End
  <2>4. ASSUME NEW i \in End
        PROVE  i = e
    <3>1. i \in pos .. Len(reply) /\ reply[i] = 0 /\ \A j \in pos .. i - 1 : reply[j] # 0
      BY DEF End
    <3>2. i \in Nat
      BY <1>8, <3>1
    <3>3. ~ i < e
      BY <1>8, <1>10, <3>1, <3>2
    <3>4. ~ e < i
      BY <1>8, <2>1, <2>2, <3>1, <3>2
    <3> QED
      BY <1>8, <3>2, <3>3, <3>4
  <2>5. SubSeq(reply, pos + 1, e - 1) = f
    <3> DEFINE u == SubSeq(reply, pos + 1, e - 1)
    <3>1. Len(f) \in Nat /\ e = b + Len(f) + 2
      BY <1>6
    <3>2. pos \in Nat /\ e - 1 = pos + Len(f)
      BY <1>8, <3>1
    <3>3. pos + Len(f) <= Len(reply)
      BY <1>1, <1>8, <2>1, <3>2
    <3>4. u = [p \in 1 .. Len(f) |-> reply[pos + p]]
      <4>1. reply \in Seq(Nat)
        BY ReplyIs
      <4>2. \A a, c \in Nat : a + c <= Len(reply) =>
              SubSeq(reply, a + 1, a + c) = [p \in 1 .. c |-> reply[a + p]]
        BY <4>1, SubSeqIs
      <4>3. SubSeq(reply, pos + 1, pos + Len(f)) = [p \in 1 .. Len(f) |-> reply[pos + p]]
        BY <3>1, <3>2, <3>3, <4>2
      <4> QED
        BY <3>2, <4>3
    <3>5. ASSUME NEW p \in 1 .. Len(f)
          PROVE  reply[pos + p] = f[p]
      <4>1. pos + p \in 1 .. Len(reply)
        BY <1>1, <3>1, <3>2, <3>3
      <4>2. pos + p = b + 1 + p
        BY <1>8
      <4> QED
        BY <1>1, <1>6, <4>1, <4>2
    <3>6. f = [p \in 1 .. Len(f) |-> f[p]]
      BY <1>5 DEF f
    <3> QED
      BY <3>4, <3>5, <3>6
  <2>6. End = {e}
    BY <2>3, <2>4
  <2> QED
    BY <2>5, <2>6
<1>12. ASSUME e > COUNT
       PROVE  End = {}
  <2>1. Len(reply) = COUNT /\ Len(reply) < e
    BY <1>1, <1>7, <1>8, <1>12
  <2>2. ASSUME NEW i \in End
        PROVE  FALSE
    <3>1. i \in pos .. Len(reply) /\ reply[i] = 0
      BY DEF End
    <3>2. i \in pos .. e - 1 /\ i <= Len(reply)
      BY <1>1, <1>8, <2>1, <3>1
    <3> QED
      BY <1>10, <3>1, <3>2
  <2> QED
    BY <2>2
<1> QED
  BY <1>3, <1>8, <1>9, <1>11, <1>12 DEF k, f, e

-----------------------------------------------------------------------------
(* One more message means one event more, or none.                         *)
LEMMA MeantIs ==
  ASSUME KbdTextAssumption, sent \in Seq(Messages), NEW i \in 1 .. Len(sent)
  PROVE  /\ Meant(SubSeq(sent, 1, i - 1)) \in Seq(Events)
         /\ Meant(SubSeq(sent, 1, i)) = Meant(SubSeq(sent, 1, i - 1)) \o Meaning(sent[i])
<1> DEFINE ms == Meanings(sent)
<1>1. /\ ms \in Seq(Seq(Events)) /\ Len(ms) = Len(sent)
      /\ \A k \in 0 .. Len(sent) : Meant(SubSeq(sent, 1, k)) = Upto(ms, k)
  BY StartsIs
<1>2. ms[i] = Meaning(sent[i])
  BY DEF Meanings
<1> HIDE DEF ms
<1>3. /\ i \in 0 .. Len(sent) /\ i - 1 \in 0 .. Len(sent)
      /\ i \in 1 .. Len(ms) /\ i - 1 \in 0 .. Len(ms)
  BY <1>1
<1>4. Upto(ms, i - 1) \in Seq(Events) /\ Upto(ms, i) = Upto(ms, i - 1) \o ms[i]
  BY <1>1, <1>3, UptoIs
<1> QED
  BY <1>1, <1>2, <1>3, <1>4

(* Which message arrives after those that do.                              *)
LEMMA ArriveIs ==
  ASSUME NEW n \in Arrive, n + 1 \in 1 .. Len(sent)
  PROVE  n + 1 \in Arrive <=> Starts(n + 1) <= COUNT /\ InOrder(sent[n + 1])
<1>1. n \in Nat /\ n + 1 \in 0 .. Len(sent) /\ \A i \in 1 .. n : InOrder(sent[i])
  BY DEF Arrive
<1>2. n + 1 \in 1 .. n + 1 /\ \A i \in 1 .. n + 1 : i \in 1 .. n \/ i = n + 1
  BY <1>1
<1>3. (\A i \in 1 .. n + 1 : InOrder(sent[i])) <=> InOrder(sent[n + 1])
  BY <1>1, <1>2
<1> QED
  BY <1>1, <1>3 DEF Arrive

(* The invariant is true at the beginning.                                 *)
LEMMA TextInvInit ==
  ASSUME KbdTextAssumption, TextInit
  PROVE  TextInv
<1>1. sent \in Seq(Messages) /\ Len(sent) \in Nat
  <2>1. MaxMessages \in Nat
    BY SMT DEF KbdTextAssumption
  <2>2. PICK n \in 1 .. MaxMessages : sent \in [1 .. n -> Messages]
    BY DEF TextInit
  <2>3. n \in Nat
    BY <2>1
  <2> QED
    BY <2>2, <2>3
<1>2. 0 \in 0 .. Len(sent)
  BY <1>1
<1>3. Starts(0) = 0
  <2>1. Parts(sent) \in Seq(Seq(Nat)) /\ Starts(0) = Len(Upto(Parts(sent), 0))
    BY <1>1, <1>2, StartsIs
  <2>2. Upto(Parts(sent), 0) = <<>>
    BY <2>1, UptoIs
  <2> QED
    BY <2>1, <2>2
<1>4. Meant(SubSeq(sent, 1, 0)) = <<>>
  <2>1. Meanings(sent) \in Seq(Seq(Events)) /\ Meant(SubSeq(sent, 1, 0)) = Upto(Meanings(sent), 0)
    BY <1>1, <1>2, StartsIs
  <2> QED
    BY <2>1, UptoIs
<1>5. 0 \in Arrive
  <2>1. COUNT \in Nat
    BY SMT DEF KbdTextAssumption
  <2> QED
    BY <1>2, <1>3, <2>1 DEF Arrive
<1>6. events = <<>> /\ pos = 1
  BY DEF TextInit
<1>7. reply = IF Len(Whole(sent)) <= COUNT THEN Whole(sent) ELSE SubSeq(Whole(sent), 1, COUNT)
  BY DEF TextInit
<1> QED
  BY <1>1, <1>3, <1>4, <1>5, <1>6, <1>7 DEF TextInv

(* Where kbdread may be when it is done with n messages.                   *)
Done(n, es, p) ==
  /\ es = Meant(SubSeq(sent, 1, n))
  /\ p \in {0, -1, Starts(n) + 1}
  /\ p = 0 => n < Len(sent) /\ n + 1 \notin Arrive

(* Each turn of the loop keeps it.                                         *)
LEMMA TextInvNext ==
  ASSUME KbdTextAssumption, TextInv, [TextNext]_textv
  PROVE  TextInv'
<1>1. sent' = sent /\ reply' = reply
  BY DEF TextNext, Kbdevent, KeysFail, KbdreadEnds, textv
<1>2. Arrive' = Arrive /\ \A i : Starts(i)' = Starts(i)
  BY <1>1 DEF Arrive, Starts
<1>3. PICK n \in Arrive : Done(n, events, pos)
  BY DEF TextInv, Done
<1>4. SUFFICES \E m \in Arrive : Done(m, events', pos')
  BY <1>1, <1>2 DEF TextInv, Done
<1>5. n \in 0 .. Len(sent) /\ Len(sent) \in Nat /\ sent \in Seq(Messages)
  BY DEF Arrive, TextInv
<1>6. CASE Kbdevent
  <2>1. pos \in 1 .. Len(reply)
    BY <1>6 DEF Kbdevent
  <2>2. pos = Starts(n) + 1
    BY <1>3, <2>1 DEF Done
  <2> DEFINE k == n + 1
             m == sent[k]
             e == Starts(k)
             d == Decoded(KeyTexts(m))
  <2>3. /\ k \in 1 .. Len(sent) /\ e \in Nat /\ reply[pos] = m.kind
        /\ e <= COUNT => End = {e} /\ SubSeq(reply, pos + 1, e - 1) = KeyTexts(m)
        /\ e > COUNT => End = {}
    BY <1>5, <2>1, <2>2, NextMessage
  <2>4. m \in Messages /\ k - 1 = n /\ n < Len(sent)
    BY <1>5, <2>3
  <2>5. k \in Arrive <=> e <= COUNT /\ InOrder(m)
    BY <2>3, ArriveIs
  <2>6. /\ events = Meant(SubSeq(sent, 1, n)) /\ events \in Seq(Events)
        /\ Meant(SubSeq(sent, 1, k)) = events \o Meaning(m)
    <3>1. events = Meant(SubSeq(sent, 1, n))
      BY <1>3 DEF Done
    <3> HIDE DEF k
    <3>2. /\ Meant(SubSeq(sent, 1, k - 1)) \in Seq(Events)
          /\ Meant(SubSeq(sent, 1, k)) = Meant(SubSeq(sent, 1, k - 1)) \o Meaning(m)
      BY <1>5, <2>3, MeantIs
    <3> QED
      BY <2>4, <3>1, <3>2
  <2>7. k \in Nat /\ COUNT \in Nat
    <3>1. COUNT \in Nat
      BY SMT DEF KbdTextAssumption
    <3> QED
      BY <1>5, <3>1
  <2>8. ASSUME k \notin Arrive, pos' = 0, events' = events
        PROVE  Done(n, events', pos')
    BY <2>4, <2>6, <2>8 DEF Done
  <2>9. ASSUME k \in Arrive, pos' \in {e + 1, -1}, events' = events \o Meaning(m)
        PROVE  Done(k, events', pos')
    BY <2>3, <2>6, <2>9 DEF Done
  <2>10. CASE End = {} /\ pos' = 0 /\ UNCHANGED events
    BY <2>3, <2>5, <2>7, <2>8, <2>10
  <2>11. CASE End # {}
    <3>1. e <= COUNT
      BY <2>3, <2>7, <2>11
    <3>2. End = {e} /\ SubSeq(reply, pos + 1, e - 1) = KeyTexts(m)
      BY <2>3, <3>1
    <3> HIDE DEF k, m, e
    <3>3. \/ m.kind \notin {Pressing, Releasing} /\ pos' = e + 1 /\ UNCHANGED events
          \/ /\ m.kind \in {Pressing, Releasing} /\ Refused(m.kind, d)
             /\ pos' = 0 /\ UNCHANGED events
          \/ /\ m.kind \in {Pressing, Releasing} /\ ~ Refused(m.kind, d)
             /\ pos' \in Returned(e, d.keys)
             /\ events' = Append(events, EventOf(m.kind, d.keys))
      BY <1>6, <2>3, <2>11, <3>2 DEF Kbdevent
    <3>4. CASE m.kind \notin {Pressing, Releasing} /\ pos' = e + 1 /\ UNCHANGED events
      <4>1. InOrder(m) /\ Meaning(m) = <<>>
        BY <3>4 DEF InOrder, Meaning
      <4>2. events \o Meaning(m) = events
        BY <2>6, <4>1
      <4> QED
        BY <2>5, <2>9, <3>1, <3>4, <4>1, <4>2
    <3>5. CASE m.kind \in {Pressing, Releasing} /\ Refused(m.kind, d) /\ pos' = 0 /\ UNCHANGED events
      <4>1. ~ InOrder(m)
        BY <2>4, <3>5, RefusedIs
      <4> QED
        BY <2>5, <2>8, <3>5, <4>1
    <3>6. CASE /\ m.kind \in {Pressing, Releasing} /\ ~ Refused(m.kind, d)
               /\ pos' \in Returned(e, d.keys)
               /\ events' = Append(events, EventOf(m.kind, d.keys))
      <4>1. InOrder(m) /\ Meaning(m) = <<EventOf(m.kind, d.keys)>>
        BY <2>4, <3>6, RefusedIs
      <4>3. pos' \in {e + 1, -1}
        BY <3>6 DEF Returned
      <4> DEFINE v == EventOf(m.kind, d.keys)
      <4> HIDE DEF v
      <4>2. Append(events, v) = events \o <<v>>
        BY <2>6
      <4> QED
        BY <2>5, <2>9, <3>1, <3>6, <4>1, <4>2, <4>3 DEF v
    <3> QED
      BY <3>3, <3>4, <3>5, <3>6
  <2> QED
    BY <1>6, <2>10, <2>11 DEF Kbdevent
<1>7. CASE KeysFail
  <2>1. Done(n, events', pos')
    BY <1>3, <1>7 DEF KeysFail, Done
  <2> QED
    BY <2>1
<1>8. CASE KbdreadEnds \/ UNCHANGED textv
  <2>1. events' = events /\ pos' = pos
    BY <1>8 DEF KbdreadEnds, textv
  <2> QED
    BY <1>3, <2>1
<1> QED
  BY <1>6, <1>7, <1>8 DEF TextNext

(* The whole of TextInv, for all behaviours.                               *)
THEOREM TextInvariance ==
  ASSUME KbdTextAssumption
  PROVE  TextSpec => []TextInv
<1>1. TextInit => TextInv
  BY TextInvInit
<1>2. TextInv /\ [TextNext]_textv => TextInv'
  BY TextInvNext
<1> QED
  BY <1>1, <1>2, PTL DEF TextSpec

(* The events of a reply are those that rio sent, key for key, up to a     *)
(* message that is cut short or not in order, or for want of memory        *)
(* (wl9.c:583-613, 685-689, util.c:52-86): for all runes that UTF-8 is     *)
(* for, all numbers of keys and messages, and wherever the reply is cut.   *)
THEOREM TextIsRight ==
  ASSUME KbdTextAssumption
  PROVE  TextSpec => []TextAgrees
<1>1. TextInv => TextAgrees
  <2> SUFFICES ASSUME TextInv
               PROVE  TextAgrees
    OBVIOUS
  <2>1. PICK n \in Arrive :
          /\ events = Meant(SubSeq(sent, 1, n))
          /\ pos \in {0, -1, Starts(n) + 1}
          /\ pos = 0 => n < Len(sent) /\ n + 1 \notin Arrive
    BY DEF TextInv
  <2>2. ASSUME pos > Len(reply)
        PROVE  Starts(n) = Len(reply)
    <3>1. /\ n \in 0 .. Len(sent) /\ Len(sent) \in Nat /\ Starts(n) <= COUNT
          /\ Len(sent) \in n .. Len(sent)
      BY DEF Arrive, TextInv
    <3>2. /\ Len(reply) \in Nat /\ Starts(n) \in Nat
          /\ Len(Whole(sent)) <= COUNT => Len(reply) = Len(Whole(sent))
          /\ Len(Whole(sent)) > COUNT => Len(reply) = COUNT
          /\ Starts(Len(sent)) = Len(Whole(sent)) /\ COUNT \in Nat
      BY <3>1, ReplyIs
    <3>3. Starts(n) <= Len(Whole(sent)) /\ Len(Whole(sent)) \in Nat
      <4>1. Starts(n) <= Starts(Len(sent))
        BY <3>1, StartsGrow
      <4>2. Len(sent) \in 0 .. Len(sent)
        BY <3>1
      <4>3. Starts(Len(sent)) \in Nat
        BY <4>2, ReplyIs
      <4> QED
        BY <3>2, <4>1, <4>3
    <3>4. Starts(n) <= Len(reply)
      BY <3>1, <3>2, <3>3
    <3>5. pos = Starts(n) + 1
      BY <2>1, <2>2, <3>2
    <3> QED
      BY <2>2, <3>2, <3>4, <3>5
  <2> QED
    BY <2>1, <2>2 DEF TextAgrees
<1> QED
  BY <1>1, TextInvariance, PTL
=============================================================================
