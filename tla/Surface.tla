------------------------------ MODULE Surface ------------------------------
(***************************************************************************)
(* One wl_surface of wl9.c: the buffers attached and committed to it with  *)
(* their destroy listeners, its frame callbacks, and what the image of its *)
(* window shows.  A request is one step: drawcopy waits for the server,    *)
(* and nothing else of the program runs meanwhile.                         *)
(*                                                                         *)
(* A surface is a set of cells and a buffer a value for each.  Damage is a *)
(* set of cells here; DrawCopy has its rectangles.                         *)
(***************************************************************************)
EXTENDS Integers

CONSTANTS
  Buffers,     \* wl_buffers of the client
  Callbacks,   \* wl_callbacks, free to be asked for again once done
  Cells,       \* parts of the surface, drawn or not
  Values       \* what a cell of a buffer can hold

None == "none"
Blank == "blank"

ASSUME BuffersAssumption == None \notin Buffers

Listeners == {"pending", "state"}

VARIABLES
  alive,       \* the surface, from create_surface to destroy_surface
  role,        \* s->commit is toplevel_commit
  pbuf, sbuf,  \* s->pending.buffer, s->state.buffer
  links,       \* which buffer_destroy listens to which buffers
  pdamage,     \* s->pending.damage
  cb,          \* the list each callback is on
  screen,      \* the window's image in the server
  live,        \* client: buffers it has not destroyed
  content,     \* client: what it drew in each
  busy,        \* client: buffers committed and not released yet
  attached,    \* client: it attached since its last commit
  sent,        \* client: what it damaged since its last commit
  owed,        \* client: what it has not damaged since its last configure
  early,       \* cells a move drew, their damage forgotten, before a commit
  lost         \* cells that were to be drawn again after such a move

serverv == <<alive, role, pbuf, sbuf, links, pdamage, cb, screen>>
clientv == <<live, content, busy, attached, sent, owed>>
movev == <<early, lost>>
vars == <<serverv, clientv, movev>>

Init ==
  /\ alive = FALSE /\ role = FALSE
  /\ pbuf = None /\ sbuf = None /\ links = {}
  /\ pdamage = {} /\ cb = [c \in Callbacks |-> "free"]
  /\ screen = [x \in Cells |-> Blank]
  /\ live = {} /\ content \in [Buffers -> [Cells -> Values]] /\ busy = {}
  /\ attached = FALSE /\ sent = {} /\ owed = {} /\ early = {} /\ lost = {}

-----------------------------------------------------------------------------
(* The client between requests.  It draws in no buffer that wl9 may read:  *)
(* neither one that it committed and has not got back nor the attached one. *)

NewBuffer(b) ==
  /\ b \notin live
  /\ live' = live \cup {b}
  /\ UNCHANGED <<serverv, content, busy, attached, sent, owed, movev>>

Draw(b, v) ==
  /\ b \in live \ (busy \cup {pbuf})
  /\ content' = [content EXCEPT ![b] = v]
  /\ UNCHANGED <<serverv, live, busy, attached, sent, owed, movev>>

(* wl_buffer.destroy: the listeners on b run and are taken off its list.   *)
SurfaceBufferDestroyed(b) ==
  /\ b \in live
  /\ live' = live \ {b} /\ busy' = busy \ {b}
  /\ pbuf' = IF <<"pending", b>> \in links THEN None ELSE pbuf
  /\ sbuf' = IF <<"state", b>> \in links THEN None ELSE sbuf
  /\ links' = links \ (Listeners \X {b})
  /\ UNCHANGED <<alive, role, pdamage, cb, screen, content, attached, sent, owed, movev>>

-----------------------------------------------------------------------------
(* Requests.                                                               *)

(* A callback of an earlier surface is on a list that is freed memory.     *)
CreateSurface ==
  /\ ~ alive /\ \A c \in Callbacks : cb[c] = "free"
  /\ alive' = TRUE /\ role' = FALSE
  /\ pbuf' = None /\ sbuf' = None /\ pdamage' = {}
  /\ attached' = FALSE /\ sent' = {} /\ owed' = {} /\ early' = {} /\ lost' = {}
  /\ UNCHANGED <<links, cb, screen, live, content, busy>>

(* xdg-shell: a surface has no buffer when it gets its role.  Its first    *)
(* configure comes with the window's size.                                 *)
GetToplevel ==
  /\ alive /\ ~ role /\ pbuf = None /\ sbuf = None
  /\ role' = TRUE /\ screen' = [x \in Cells |-> Blank] /\ owed' = Cells
  /\ early' = {} /\ lost' = {}
  /\ UNCHANGED <<alive, pbuf, sbuf, links, pdamage, cb,
                 live, content, busy, attached, sent>>

ToplevelDestroy ==
  /\ alive /\ role
  /\ role' = FALSE /\ owed' = {}
  /\ UNCHANGED <<alive, pbuf, sbuf, links, pdamage, cb, screen,
                 live, content, busy, attached, sent, movev>>

RemovedNothing(l, has) == links

Removed(l, has) == IF has THEN links \ ({l} \X Buffers) ELSE links

AddedToNone(l, b) == {<<l, b>>}

Added(l, b) == IF b = None THEN {} ELSE {<<l, b>>}

(* What a move has drawn of the buffer that gives way, and what was        *)
(* damaged before that move, is to be drawn again, but nothing says so.    *)
Attach(b) ==
  /\ alive /\ b \in live \cup {None}
  /\ pbuf' = b
  /\ links' = Removed("pending", pbuf # None) \cup Added("pending", b)
  /\ attached' = TRUE
  /\ lost' = lost \cup (early \ pdamage)
  /\ UNCHANGED <<alive, role, sbuf, pdamage, cb, screen,
                 live, content, busy, sent, owed, early>>

(* damage and damage_buffer, before or after attach.                       *)
Damage(cells) ==
  /\ alive
  /\ pdamage' = pdamage \cup cells
  /\ sent' = sent \cup cells
  /\ owed' = owed \ cells
  /\ lost' = lost \ cells
  /\ UNCHANGED <<alive, role, pbuf, sbuf, links, cb, screen,
                 live, content, busy, attached, early>>

Frame(c) ==
  /\ alive /\ cb[c] = "free"
  /\ cb' = [cb EXCEPT ![c] = "pending"]
  /\ UNCHANGED <<alive, role, pbuf, sbuf, links, pdamage, screen, clientv, movev>>

DrawCopyDoneEarly(cells, lst) ==
  /\ screen' = [x \in Cells |-> IF x \in cells THEN content[pbuf][x] ELSE screen[x]]
  /\ pdamage' = {}
  /\ cb' = [c \in Callbacks |-> "free"]

(* drawcopy at its end: the cells are in the image, no damage is pending,  *)
(* and the callbacks of lst are done.                                      *)
DrawCopy(cells, lst) ==
  /\ screen' = [x \in Cells |-> IF x \in cells THEN content[pbuf][x] ELSE screen[x]]
  /\ pdamage' = {}
  /\ cb' = [c \in Callbacks |-> IF lst[c] = "state" THEN "free" ELSE lst[c]]

(* What toplevel_commit draws.                                             *)
DrawnByCommitLate == IF role /\ sbuf # None /\ pbuf # None THEN pdamage ELSE {}

DrawnByCommit == IF role /\ pbuf # None THEN pdamage ELSE {}

(* What has to be damaged for a commit: what changed, or all of it.        *)
MustDamage ==
  CASE pbuf = None -> {}
    [] pbuf # None /\ sbuf = None -> Cells
    [] OTHER -> {x \in Cells : content[pbuf][x] # content[sbuf][x]}

ReplacedByOther == sbuf # pbuf /\ pbuf # None

(* state.buffer gives way to pending.buffer.                               *)
Replaced == sbuf # pbuf

Commit ==
  LET moved == [c \in Callbacks |-> IF cb[c] = "pending" THEN "state" ELSE cb[c]]
  IN
  /\ alive /\ (attached => MustDamage \subseteq sent)
  /\ IF DrawnByCommit # {}
     THEN DrawCopy(DrawnByCommit, moved)
     ELSE cb' = moved /\ UNCHANGED <<screen, pdamage>>
  /\ sbuf' = pbuf
  /\ links' = IF Replaced
              THEN Removed("state", sbuf # None) \cup Added("state", pbuf)
              ELSE links
  /\ busy' = (busy \ IF Replaced THEN {sbuf} ELSE {}) \cup ({pbuf} \ {None})
  /\ attached' = FALSE /\ sent' = {} /\ early' = {}
  /\ UNCHANGED <<alive, role, pbuf, live, content, owed, lost>>

(* The callbacks stay on lists whose heads are freed: none is ever done.   *)
(* Nothing is released either, but the client has its buffers back.        *)
DestroySurface ==
  /\ alive
  /\ alive' = FALSE /\ role' = FALSE /\ owed' = {}
  /\ pbuf' = None /\ sbuf' = None
  /\ links' = Removed("state", sbuf # None) \cap Removed("pending", pbuf # None)
  /\ busy' = {}
  /\ UNCHANGED <<pdamage, cb, screen, live, content, attached, sent, movev>>

-----------------------------------------------------------------------------
(* wctlread: the user moves the window, which draws the pending buffer     *)
(* whole, committed or not, or gives it another size, which draws nothing  *)
(* and asks the client for a frame.                                        *)

Moved ==
  /\ role
  /\ IF pbuf # None
     THEN DrawCopy(Cells, cb)
     ELSE screen' = [x \in Cells |-> Blank] /\ UNCHANGED <<pdamage, cb>>
  /\ early' = (IF attached THEN Cells ELSE sent) /\ lost' = {}
  /\ UNCHANGED <<alive, role, pbuf, sbuf, links, clientv>>

Resized ==
  /\ role
  /\ screen' = [x \in Cells |-> Blank] /\ owed' = Cells
  /\ UNCHANGED <<alive, role, pbuf, sbuf, links, pdamage, cb,
                 live, content, busy, attached, sent, movev>>

Next ==
  \/ \E b \in Buffers : NewBuffer(b) \/ SurfaceBufferDestroyed(b)
  \/ \E b \in Buffers, v \in [Cells -> Values] : Draw(b, v)
  \/ CreateSurface \/ GetToplevel \/ ToplevelDestroy
  \/ \E b \in Buffers \cup {None} : Attach(b)
  \/ \E cells \in SUBSET Cells \ {{}} : Damage(cells)
  \/ \E c \in Callbacks : Frame(c)
  \/ Commit \/ DestroySurface \/ Moved \/ Resized

Spec == Init /\ [][Next]_vars

-----------------------------------------------------------------------------
TypeOK ==
  /\ alive \in BOOLEAN /\ role \in BOOLEAN /\ attached \in BOOLEAN
  /\ pbuf \in Buffers \cup {None} /\ sbuf \in Buffers \cup {None}
  /\ links \subseteq Listeners \X Buffers
  /\ pdamage \subseteq Cells /\ sent \subseteq Cells /\ owed \subseteq Cells
  /\ early \subseteq Cells /\ lost \subseteq Cells
  /\ cb \in [Callbacks -> {"free", "pending", "state"}]
  /\ screen \in [Cells -> Values \cup {Blank}]
  /\ live \subseteq Buffers /\ busy \subseteq Buffers
  /\ content \in [Buffers -> [Cells -> Values]]

(* Each of the two listeners is on the list of exactly the buffer its      *)
(* field names, so a destroyed buffer is never used (wl9.c:809, 883, 937). *)
LinksAgree ==
  /\ TypeOK
  /\ links = Added("pending", pbuf) \cup Added("state", sbuf)
  /\ {pbuf, sbuf} \subseteq live \cup {None}

(* Every committed buffer is released when another one, or none, takes its *)
(* place: what the client lacks is what the surface shows (wl9.c:882).     *)
BusyIsCurrent == busy \subseteq {sbuf}

(* Between frames, the window shows what the client committed last, where  *)
(* it has damaged it since it was told of a new size.  One thing goes      *)
(* wrong: when the window moves in the middle of a frame, the damage so    *)
(* far is forgotten, and a buffer attached after that is not drawn there   *)
(* until it is damaged again or the window moves again (wl9.c:210-213).    *)
ScreenShowsCommitted ==
  role /\ sbuf # None /\ ~ attached /\ sent = {} =>
    \A x \in Cells \ (owed \cup lost) : screen[x] = content[sbuf][x]

(* A callback is done only once its frame was committed, and the image     *)
(* then has all of the buffer of the surface, but for what a move in the   *)
(* middle of a frame has lost (wl9.c:210-217).                             *)
DoneWhenShown ==
  [][\A c \in Callbacks : cb[c] # "free" /\ cb'[c] = "free" =>
       /\ cb[c] = "pending" => sbuf' = pbuf' /\ ~ attached'
       /\ \A x \in Cells \ (owed' \cup lost') : screen'[x] = content'[pbuf'][x]]_vars
=============================================================================
