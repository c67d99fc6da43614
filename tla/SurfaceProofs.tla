--------------------------- MODULE SurfaceProofs ---------------------------
(***************************************************************************)
(* Proofs about Surface for any buffers, callbacks, cells and values.      *)
(***************************************************************************)
EXTENDS Surface, TLAPS

(***************************************************************************)
(* The inductive invariant.  That the window shows the last commit depends *)
(* on what it shows while the next one is prepared.  Of the cells that the *)
(* client knows of and that no move has lost, those damaged are still to   *)
(* be drawn or were drawn early, by a move, and the others show the buffer *)
(* before.                                                                 *)
(***************************************************************************)
ListenersOK ==
  /\ links = Added("pending", pbuf) \cup Added("state", sbuf)
  /\ pbuf # None => pbuf \in live
  /\ sbuf # None => sbuf \in live

BusyOK == busy = {sbuf} \ {None}

DeadOK == ~ alive => pbuf = None /\ sbuf = None /\ ~ role

SettledOK ==
  /\ ~ attached => pbuf = sbuf
  /\ ~ attached /\ sent = {} => early = {}
  /\ ~ attached /\ sent = {} /\ role /\ sbuf # None => pdamage = {}

UntouchedOK ==
  role => \A x \in Cells \ (owed \cup lost \cup pdamage \cup early) :
            x \notin sent /\ (sbuf # None => screen[x] = content[sbuf][x])

EarlyOK ==
  role /\ pbuf # None =>
    \A x \in early \ (owed \cup lost \cup pdamage) : screen[x] = content[pbuf][x]

IInv ==
  /\ TypeOK
  /\ ListenersOK
  /\ BusyOK
  /\ DeadOK
  /\ SettledOK
  /\ UntouchedOK
  /\ EarlyOK

-----------------------------------------------------------------------------
LEMMA InitInv == Init => IInv
  BY DEF Init, IInv, TypeOK, ListenersOK, BusyOK, DeadOK, SettledOK,
         UntouchedOK, EarlyOK, Added, Listeners

(* Requests that change no buffer, no listener and nothing of the screen.  *)
LEMMA QuietInv ==
  ASSUME IInv,
         \/ \E b \in Buffers : NewBuffer(b)
         \/ \E c \in Callbacks : Frame(c)
         \/ ToplevelDestroy
  PROVE  IInv'
<1> USE DEF IInv, TypeOK, ListenersOK, BusyOK, DeadOK, SettledOK,
            UntouchedOK, EarlyOK
<1>1. CASE \E b \in Buffers : NewBuffer(b)
  BY <1>1 DEF NewBuffer, serverv, movev, Added
<1>2. CASE \E c \in Callbacks : Frame(c)
  BY <1>2 DEF Frame, clientv, movev, Added
<1>3. CASE ToplevelDestroy
  BY <1>3 DEF ToplevelDestroy, movev, Added
<1>4. QED
  BY <1>1, <1>2, <1>3

(* The buffer that is drawn in is neither attached nor committed.          *)
LEMMA DrawInv ==
  ASSUME IInv, NEW b \in Buffers, NEW v \in [Cells -> Values], Draw(b, v)
  PROVE  IInv'
<1> USE DEF IInv, Draw, serverv, movev
<1>1. TypeOK'
  BY DEF TypeOK
<1>2. ListenersOK' /\ BusyOK' /\ DeadOK' /\ SettledOK'
  BY DEF TypeOK, ListenersOK, BusyOK, DeadOK, SettledOK, Added
<1>3. b # pbuf /\ b # sbuf
  BY BuffersAssumption DEF BusyOK
<1>4. content'[pbuf] = content[pbuf] \/ pbuf = None
  BY <1>3 DEF TypeOK
<1>5. content'[sbuf] = content[sbuf] \/ sbuf = None
  BY <1>3 DEF TypeOK
<1>6. UntouchedOK'
  BY <1>5 DEF UntouchedOK, movev
<1>7. EarlyOK'
  BY <1>4 DEF EarlyOK, movev
<1>8. QED
  BY <1>1, <1>2, <1>6, <1>7

(* Both fields lose the buffer that is destroyed, if they name it.         *)
LEMMA BufferDestroyedInv ==
  ASSUME IInv, NEW b \in Buffers, SurfaceBufferDestroyed(b)
  PROVE  IInv'
<1> USE DEF IInv, SurfaceBufferDestroyed, movev
<1>1. /\ pbuf' = IF pbuf = b THEN None ELSE pbuf
      /\ sbuf' = IF sbuf = b THEN None ELSE sbuf
  BY BuffersAssumption DEF ListenersOK, Added, TypeOK
<1>2. TypeOK'
  BY <1>1 DEF TypeOK
<1>3. links' = Added("pending", pbuf') \cup Added("state", sbuf')
  BY <1>1, BuffersAssumption DEF ListenersOK, Added, Listeners, TypeOK
<1>4. ListenersOK' /\ BusyOK' /\ DeadOK' /\ SettledOK'
  BY <1>1, <1>3, BuffersAssumption DEF ListenersOK, BusyOK, DeadOK, SettledOK
<1>5. UntouchedOK'
  BY <1>1 DEF UntouchedOK
<1>6. EarlyOK'
  BY <1>1 DEF EarlyOK
<1>7. QED
  BY <1>2, <1>4, <1>5, <1>6

(* A surface begins without buffers, and a window with nothing on it.      *)
LEMMA CreateInv ==
  ASSUME IInv, CreateSurface \/ GetToplevel
  PROVE  IInv'
<1> USE DEF IInv, TypeOK, ListenersOK, BusyOK, DeadOK, SettledOK,
            UntouchedOK, EarlyOK
<1>1. CASE CreateSurface
  BY <1>1 DEF CreateSurface, Added
<1>2. CASE GetToplevel
  BY <1>2 DEF GetToplevel, Added
<1>3. QED
  BY <1>1, <1>2

(* One listener is moved to the buffer that is attached.  What a move drew *)
(* of another one is lost.                                                 *)
LEMMA AttachInv ==
  ASSUME IInv, NEW b \in Buffers \cup {None}, Attach(b)
  PROVE  IInv'
<1> USE DEF IInv, Attach
<1>1. TypeOK'
  BY DEF TypeOK, Removed, Added, Listeners
<1>2. links' = Added("pending", pbuf') \cup Added("state", sbuf')
  BY BuffersAssumption DEF ListenersOK, Removed, Added, Listeners, TypeOK
<1>3. ListenersOK' /\ BusyOK' /\ DeadOK' /\ SettledOK'
  BY <1>2 DEF ListenersOK, BusyOK, DeadOK, SettledOK
<1>4. UntouchedOK'
  BY DEF UntouchedOK
<1>5. EarlyOK'
  BY DEF EarlyOK
<1>6. QED
  BY <1>1, <1>3, <1>4, <1>5

LEMMA DamageInv ==
  ASSUME IInv, NEW cells \in SUBSET Cells \ {{}}, Damage(cells)
  PROVE  IInv'
<1> USE DEF IInv, Damage
<1>1. TypeOK'
  BY DEF TypeOK
<1>2. ListenersOK' /\ BusyOK' /\ DeadOK' /\ SettledOK'
  BY DEF ListenersOK, BusyOK, DeadOK, SettledOK, Added
<1>3. UntouchedOK'
  BY DEF UntouchedOK
<1>4. EarlyOK'
  BY DEF EarlyOK
<1>5. QED
  BY <1>1, <1>2, <1>3, <1>4

(* Before a commit, a cell of the window that the client knows of has been *)
(* damaged and is drawn by it, or it shows the buffer that is pending.     *)
LEMMA ReadyToCommit ==
  ASSUME IInv, role, pbuf # None, attached => MustDamage \subseteq sent,
         NEW x \in Cells \ (owed \cup lost)
  PROVE  x \in DrawnByCommit \/ screen[x] = content[pbuf][x]
<1>1. CASE x \in pdamage
  BY <1>1 DEF DrawnByCommit
<1>2. CASE x \in early \ pdamage
  BY <1>2 DEF IInv, EarlyOK
<1>3. CASE x \notin early \cup pdamage
  <2>1. x \notin sent /\ (sbuf # None => screen[x] = content[sbuf][x])
    BY <1>3 DEF IInv, UntouchedOK
  <2>2. CASE ~ attached
    BY <2>1, <2>2 DEF IInv, SettledOK
  <2>3. CASE attached
    BY <2>1, <2>3 DEF MustDamage
  <2>4. QED
    BY <2>2, <2>3
<1>4. QED
  BY <1>1, <1>2, <1>3

LEMMA CommitInv ==
  ASSUME IInv, Commit
  PROVE  IInv'
<1> USE DEF IInv
<1>1. /\ attached => MustDamage \subseteq sent
      /\ sbuf' = pbuf /\ pbuf' = pbuf /\ owed' = owed /\ role' = role
      /\ content' = content /\ live' = live /\ alive' = alive /\ alive
      /\ attached' = FALSE /\ sent' = {} /\ early' = {} /\ lost' = lost
      /\ links' = IF Replaced
                  THEN Removed("state", sbuf # None) \cup Added("state", pbuf)
                  ELSE links
      /\ busy' = (busy \ IF Replaced THEN {sbuf} ELSE {}) \cup ({pbuf} \ {None})
  BY DEF Commit
<1>2. /\ DrawnByCommit # {} =>
          screen' = [x \in Cells |-> IF x \in DrawnByCommit
                                     THEN content[pbuf][x] ELSE screen[x]]
      /\ DrawnByCommit = {} => screen' = screen
      /\ pdamage' \subseteq pdamage
      /\ role /\ pbuf # None => pdamage' = {}
      /\ cb' \in [Callbacks -> {"free", "pending", "state"}]
  BY DEF Commit, DrawCopy, DrawnByCommit, TypeOK
<1>3. DrawnByCommit # {} => pbuf \in Buffers
  BY DEF DrawnByCommit, TypeOK
<1>4. screen' \in [Cells -> Values \cup {Blank}]
  BY <1>2, <1>3 DEF TypeOK
<1>5. TypeOK'
  <2>1. links' \subseteq Listeners \X Buffers
    BY <1>1 DEF TypeOK, Removed, Added, Listeners
  <2>2. /\ pdamage' \subseteq Cells /\ sent' \subseteq Cells /\ owed' \subseteq Cells
        /\ live' \subseteq Buffers /\ busy' \subseteq Buffers
        /\ early' \subseteq Cells /\ lost' \subseteq Cells
    BY <1>1, <1>2 DEF TypeOK
  <2>3. QED
    BY <1>1, <1>2, <1>4, <2>1, <2>2 DEF TypeOK
<1>6. links' = Added("pending", pbuf') \cup Added("state", sbuf')
  BY <1>1, BuffersAssumption DEF ListenersOK, Removed, Added, Replaced, TypeOK, Listeners
<1>7. ListenersOK' /\ DeadOK' /\ SettledOK' /\ EarlyOK'
  BY <1>1, <1>2, <1>6 DEF ListenersOK, DeadOK, SettledOK, EarlyOK
<1>8. BusyOK'
  BY <1>1 DEF BusyOK, Replaced
<1>9. UntouchedOK'
  <2> SUFFICES ASSUME role', sbuf' # None, NEW x \in Cells \ (owed' \cup lost')
               PROVE  screen'[x] = content'[sbuf'][x]
    BY <1>1 DEF UntouchedOK
  <2>1. x \in DrawnByCommit \/ screen[x] = content[pbuf][x]
    BY <1>1, ReadyToCommit
  <2>2. QED
    BY <1>1, <1>2, <2>1
<1>10. QED
  BY <1>5, <1>7, <1>8, <1>9

LEMMA DestroySurfaceInv ==
  ASSUME IInv, DestroySurface
  PROVE  IInv'
<1> USE DEF IInv, DestroySurface, movev
<1>1. links' = {}
  BY DEF ListenersOK, Removed, Added, TypeOK
<1>2. TypeOK'
  BY <1>1 DEF TypeOK
<1>3. ListenersOK' /\ BusyOK' /\ DeadOK' /\ SettledOK'
  BY <1>1 DEF ListenersOK, BusyOK, DeadOK, SettledOK, Added
<1>4. UntouchedOK' /\ EarlyOK'
  BY DEF UntouchedOK, EarlyOK
<1>5. QED
  BY <1>2, <1>3, <1>4

(* wctlread draws the pending buffer: the committed one if no other is     *)
(* attached.                                                               *)
LEMMA WctlreadInv ==
  ASSUME IInv, Moved \/ Resized
  PROVE  IInv'
<1> USE DEF IInv
<1>1. CASE Moved
  <2> USE <1>1 DEF Moved, clientv
  <2>1. pbuf # None =>
          /\ screen' = [x \in Cells |-> content[pbuf][x]]
          /\ pdamage' = {}
          /\ cb' \in [Callbacks -> {"free", "pending", "state"}]
    BY DEF DrawCopy, TypeOK
  <2>2. pbuf = None => pdamage' = pdamage /\ cb' = cb
    OBVIOUS
  <2>3. screen' \in [Cells -> Values \cup {Blank}]
    BY <2>1 DEF TypeOK
  <2>4. TypeOK'
    BY <2>1, <2>2, <2>3 DEF TypeOK
  <2>5. ListenersOK' /\ BusyOK' /\ DeadOK' /\ SettledOK'
    BY <2>1 DEF ListenersOK, BusyOK, DeadOK, SettledOK, Added
  <2>6. UntouchedOK'
    BY <2>1 DEF UntouchedOK, SettledOK
  <2>7. EarlyOK'
    BY <2>1, <2>4 DEF EarlyOK, TypeOK
  <2>8. QED
    BY <2>4, <2>5, <2>6, <2>7
<1>2. CASE Resized
  BY <1>2 DEF Resized, movev, TypeOK, ListenersOK, BusyOK, DeadOK, SettledOK,
              UntouchedOK, EarlyOK, Added
<1>3. QED
  BY <1>1, <1>2

LEMMA StepInv == IInv /\ [Next]_vars => IInv'
<1> SUFFICES ASSUME IInv, [Next]_vars PROVE IInv'
  OBVIOUS
<1>1. CASE Next
  BY <1>1, QuietInv, DrawInv, BufferDestroyedInv, CreateInv, AttachInv, DamageInv,
     CommitInv, DestroySurfaceInv, WctlreadInv DEF Next
<1>2. CASE UNCHANGED vars
  BY <1>2 DEF vars, serverv, clientv, movev, IInv, TypeOK, ListenersOK, BusyOK, DeadOK,
              SettledOK, UntouchedOK, EarlyOK, Added
<1>3. QED
  BY <1>1, <1>2

-----------------------------------------------------------------------------
(* The invariant holds in every reachable state of a surface.              *)
THEOREM Invariance == Spec => []IInv
  BY InitInv, StepInv, PTL DEF Spec

(* buffer_destroy always clears just the fields that name the buffer that  *)
(* goes, and no field names a buffer that is gone (wl9.c:809, 883, 937).   *)
THEOREM ListenersAgree == Spec => []LinksAgree
<1>1. IInv => LinksAgree
  BY DEF IInv, ListenersOK, LinksAgree, TypeOK
<1>2. QED
  BY <1>1, Invariance, PTL

(* The client only ever lacks the buffer that its surface shows: commit    *)
(* releases all others (wl9.c:882).                                        *)
THEOREM OthersReleased == Spec => []BusyIsCurrent
<1>1. IInv => BusyIsCurrent
  BY DEF IInv, BusyOK, BusyIsCurrent
<1>2. QED
  BY <1>1, Invariance, PTL

(* Between two frames, the window shows what was committed last, although  *)
(* commits draw only what is damaged and a move of the window draws, and   *)
(* forgets the damage, at any time; only cells that such a move has lost   *)
(* in the middle of a frame may not (wl9.c:210, 441, 1136).                *)
THEOREM CommittedIsShown == Spec => []ScreenShowsCommitted
<1>1. IInv => ScreenShowsCommitted
  BY DEF IInv, SettledOK, UntouchedOK, ScreenShowsCommitted
<1>2. QED
  BY <1>1, Invariance, PTL

(* A callback that is done was committed, and its frame shows.  Only a     *)
(* commit or a move completes one, and both draw the pending buffer.       *)
LEMMA StepDone ==
  ASSUME IInv, [Next]_vars, NEW c \in Callbacks, cb[c] # "free", cb'[c] = "free"
  PROVE  /\ cb[c] = "pending" => sbuf' = pbuf' /\ ~ attached'
         /\ \A x \in Cells \ (owed' \cup lost') : screen'[x] = content'[pbuf'][x]
<1>1. CASE Commit
  <2>1. DrawnByCommit # {}
    BY <1>1 DEF Commit
  <2>2. pbuf # None /\ role
    BY <2>1 DEF DrawnByCommit
  <2>3. screen' = [x \in Cells |-> IF x \in DrawnByCommit
                                   THEN content[pbuf][x] ELSE screen[x]]
    BY <1>1, <2>1 DEF Commit, DrawCopy
  <2>4. ASSUME NEW x \in Cells \ (owed \cup lost)
        PROVE  x \in DrawnByCommit \/ screen[x] = content[pbuf][x]
    BY <1>1, <2>2, ReadyToCommit DEF Commit
  <2>5. QED
    BY <1>1, <2>3, <2>4 DEF Commit
<1>2. CASE Moved
  BY <1>2 DEF Moved, DrawCopy, clientv
<1>3. CASE ~ (Commit \/ Moved)
  <2>1. cb' = cb
    <3>1. CASE \E d \in Callbacks : Frame(d)
      BY <3>1 DEF Frame, IInv, TypeOK
    <3>2. CASE ~ \E d \in Callbacks : Frame(d)
      BY <1>3, <3>2 DEF Next, vars, serverv, clientv, NewBuffer, SurfaceBufferDestroyed, Draw,
         CreateSurface, GetToplevel, ToplevelDestroy, Attach, Damage, DestroySurface, Resized
    <3>3. QED
      BY <3>1, <3>2
  <2>2. QED
    BY <2>1
<1>4. QED
  BY <1>1, <1>2, <1>3

(* No frame callback is done before the window shows its frame             *)
(* (wl9.c:214), lost cells excepted.                                       *)
THEOREM DoneIsShown == Spec => DoneWhenShown
<1>1. IInv /\ [Next]_vars =>
        [\A c \in Callbacks : cb[c] # "free" /\ cb'[c] = "free" =>
           /\ cb[c] = "pending" => sbuf' = pbuf' /\ ~ attached'
           /\ \A x \in Cells \ (owed' \cup lost') : screen'[x] = content'[pbuf'][x]]_vars
  BY StepDone
<1>2. QED
  BY <1>1, Invariance, PTL DEF Spec, DoneWhenShown
=============================================================================
