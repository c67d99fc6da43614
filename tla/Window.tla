------------------------------- MODULE Window -------------------------------
(***************************************************************************)
(* The windows of wl9.c: xdg_surface and xdg_toplevel, winnew, which opens *)
(* the files of a rio window, the readers of wctl, mouse and kbd, and what *)
(* the destructors give back.                                              *)
(*                                                                         *)
(* AsyncReads is what stands for the 9P client here: an armed reader runs  *)
(* at most once, and not at all once its tag was flushed.  The server does *)
(* requests in order, so a request takes effect when it is posted; its     *)
(* reply is looked at when the code waits for it.                          *)
(***************************************************************************)
EXTENDS Integers, FiniteSets, Sequences, SequencesExt

CONSTANTS
  Window,     \* one struct window each, from calloc to free
  Files,      \* the files of a window in the order of files[]: winname,
              \* label, wctl, mouse, kbd, or some of them
  MaxFid,     \* model bound: fids, without those opened at start-up
  NameLen,    \* lengths of image names
  MaxRefusals,  \* model bound: times the server refuses what is in order
  MaxRoles    \* model bound: toplevels of a window, one after the other

None == <<>>

ASSUME WindowAssumption ==
  IsFiniteSet(Window) /\ Window \cap {None, "screen", "none"} = {}
ASSUME FilesAssumption ==
  /\ Files \in Seq({"winname", "label", "wctl", "mouse", "kbd"})
  /\ IsInjective(Files)
  /\ \E j, k \in DOMAIN Files : Files[j] = "label" /\ Files[k] = "wctl"
ASSUME MaxFidAssumption == MaxFid \in Nat
ASSUME NameLenAssumption == NameLen \subseteq 0 .. 31
ASSUME MaxAssumption == MaxRefusals \in Nat /\ MaxRoles \in Nat

File == {Files[k] : k \in DOMAIN Files}
Input == File \cap {"mouse", "kbd"}
Reader == {"wctl"} \cup Input

Fid == 0 .. MaxFid - 1
Tag == 0 .. Cardinality(Reader) * Cardinality(Window)
Image == 0 .. Cardinality(Window)
NOTAG == -1

VARIABLES
  win,      \* struct window
  fidout,   \* fids handed out
  armed,    \* the reader each tag has a read outstanding for
  imgout,   \* image ids handed out
  srv,      \* server: what each fid names
  img,      \* server: the window whose image each id names; 0 is the screen
  io,       \* the request or event that this step exchanged with a client
  pc,       \* where winnew is; "idle" between handlers
  cur,      \* winnew: its window
  n,        \* winnew: number of the file
  done,     \* winnew: files whose last request the server has done
  clunk,    \* winnew: f->clunk
  ftag,     \* winnew: f->tag of the reads
  refused   \* times the server refused something

locals == <<cur, n, done, clunk, ftag>>
vars == <<win, fidout, armed, imgout, srv, img, io, pc, locals, refused>>

(* What calloc and get_xdg_surface leave in a struct window.  Fields of    *)
(* the model: state is of the memory, roles counts the toplevels it had,   *)
(* asked says that the present one had its initial commit, known that      *)
(* x0 .. y1 have been read.                                                *)
Fresh ==
  [state |-> "live", top |-> FALSE, roles |-> 0,
   asked |-> FALSE, initial |-> TRUE,
   wsys |-> -1, fid |-> [f \in File |-> -1],
   tag |-> [f \in Reader |-> NOTAG], image |-> 0, known |-> FALSE]

Init ==
  /\ win = [w \in Window |-> [Fresh EXCEPT !.state = "new"]]
  /\ fidout = {} /\ armed = [t \in Tag |-> None] /\ imgout = {0}
  /\ srv = [f \in Fid |-> None]
  /\ img = [i \in Image |-> IF i = 0 THEN "screen" ELSE "none"]
  /\ io = None
  /\ pc = "idle" /\ cur = None /\ n = 1
  /\ done = {} /\ clunk = {} /\ ftag = [f \in Reader |-> NOTAG]
  /\ refused = 0

Quiet == io' = None

(* winnew returns.                                                         *)
LocalsEnd ==
  /\ cur' = None /\ n' = 1
  /\ done' = {} /\ clunk' = {} /\ ftag' = [f \in Reader |-> NOTAG]

(* The server does as asked, or refuses.                                   *)
Does(ok) == /\ ok \/ refused < MaxRefusals
            /\ refused' = IF ok THEN refused ELSE refused + 1

NewFid == Min(Fid \ fidout)

NewTagInUse(busy) == Min(Tag \ busy)

(* fsdispatch frees a reader's tag after the callback: busy is that tag.   *)
NewTag(busy) == Min({t \in Tag : armed[t] = None} \ busy)

(* fsclunk does not return the fid to the pool.                            *)
Clunked(fids) == [f \in Fid |-> IF f \in fids THEN None ELSE srv[f]]

Flushed(tags) == [t \in Tag |-> IF t \in tags THEN None ELSE armed[t]]

-----------------------------------------------------------------------------
(* Requests of the client.                                                 *)

GetXdgSurface(w) ==
  /\ pc = "idle" /\ win[w].state = "new"
  /\ win' = [win EXCEPT ![w] = Fresh]
  /\ Quiet
  /\ UNCHANGED <<fidout, armed, imgout, srv, img, pc, locals, refused>>

(* A client may ask for another toplevel when it destroyed the first.      *)
GetToplevel(w) ==
  /\ pc = "idle" /\ win[w].state = "live" /\ ~ win[w].top /\ win[w].roles < MaxRoles
  /\ win' = [win EXCEPT ![w].top = TRUE, ![w].roles = @ + 1]
  /\ Quiet
  /\ UNCHANGED <<fidout, armed, imgout, srv, img, pc, locals, refused>>

(* set_title: a title is dropped while there is no label; a write to a     *)
(* clunked fid fails, and nobody looks.                                    *)
SetTitle(w) ==
  /\ pc = "idle" /\ win[w].top
  /\ LET l == win[w].fid["label"]
         kept == l # -1 /\ srv[l] = <<w, "label">>
     IN  io' = <<w, IF kept THEN "title" ELSE "lost title">>
  /\ UNCHANGED <<win, fidout, armed, imgout, srv, img, pc, locals, refused>>

(* toplevel_commit after the first one; what it draws is not in here.      *)
Commit(w) ==
  /\ pc = "idle" /\ win[w].top /\ ~ win[w].initial
  /\ io' = <<w, IF win[w].asked THEN "commit" ELSE "initial commit">>
  /\ win' = [win EXCEPT ![w].asked = TRUE]
  /\ UNCHANGED <<fidout, armed, imgout, srv, img, pc, locals, refused>>

Opened(w) == win[w].wsys # -1

OwnFids(w) == {win[w].wsys} \cup {win[w].fid[f] : f \in File}

OwnTags(w) == {win[w].tag[f] : f \in Reader}

Released(w) == [img EXCEPT ![win[w].image] = "none"]

GivenUnclunked(w) ==
  /\ fidout' = IF Opened(w) THEN fidout \ OwnFids(w) ELSE fidout
  /\ armed' = IF Opened(w) THEN Flushed(OwnTags(w)) ELSE armed
  /\ img' = IF win[w].image # -1 THEN Released(w) ELSE img
  /\ UNCHANGED <<srv, imgout>>

GivenUnflushed(w) ==
  /\ srv' = IF Opened(w) THEN Clunked(OwnFids(w)) ELSE srv
  /\ img' = IF win[w].image # -1 THEN Released(w) ELSE img
  /\ UNCHANGED <<fidout, armed, imgout>>

GivenFidsReturned(w) ==
  /\ srv' = IF Opened(w) THEN Clunked(OwnFids(w)) ELSE srv
  /\ fidout' = IF Opened(w) THEN fidout \ OwnFids(w) ELSE fidout
  /\ armed' = IF Opened(w) THEN Flushed(OwnTags(w)) ELSE armed
  /\ img' = IF win[w].image # -1 THEN Released(w) ELSE img
  /\ UNCHANGED imgout

GivenImageReturned(w) ==
  /\ srv' = IF Opened(w) THEN Clunked(OwnFids(w)) ELSE srv
  /\ armed' = IF Opened(w) THEN Flushed(OwnTags(w)) ELSE armed
  /\ img' = IF win[w].image # -1 THEN Released(w) ELSE img
  /\ imgout' = imgout \ {win[w].image}
  /\ UNCHANGED fidout

(* toplevel_destroy.  wctltag and the others are unsigned, so that the     *)
(* tests for -1 are always true.  Nothing goes back to the pools, and      *)
(* nothing in struct window says that fids, tags and image are given up.   *)
Given(w) ==
  /\ srv' = IF Opened(w) THEN Clunked(OwnFids(w)) ELSE srv
  /\ armed' = IF Opened(w) THEN Flushed(OwnTags(w)) ELSE armed
  /\ img' = IF win[w].image # -1 THEN Released(w) ELSE img
  /\ UNCHANGED <<fidout, imgout>>

ToplevelDestroy(w) ==
  /\ pc = "idle" /\ win[w].top
  /\ Given(w)
  /\ win' = [win EXCEPT ![w].top = FALSE, ![w].asked = FALSE]
  /\ Quiet
  /\ UNCHANGED <<pc, locals, refused>>

Failed(w) == ~ win[w].initial /\ ~ Opened(w)

(* xdg_surface_destroy, also when the surface or the client goes first.    *)
(* The tags of a freed window are of interest only where a reader is left. *)
XdgSurfaceDestroy(w) ==
  /\ pc = "idle" /\ win[w].state = "live"
  /\ IF win[w].top THEN Given(w) ELSE UNCHANGED <<srv, armed, img, fidout, imgout>>
  /\ win' = [win EXCEPT ![w].top = FALSE, ![w].asked = FALSE,
                        ![w].state = "gone",
                        ![w].tag = IF Failed(w) THEN @ ELSE Fresh.tag]
  /\ Quiet
  /\ UNCHANGED <<pc, locals, refused>>

-----------------------------------------------------------------------------
(* The readers.                                                            *)

(* What a reply to a read of wctl, but Rerror, makes wctlread do.  short:  *)
(* not 72 bytes.  same, focus, moved, resized: what changed; where it      *)
(* moved and has a buffer the focus may have changed too.                  *)
(* noname: the window moved and winname cannot be read.  nobind: draw(3)   *)
(* does not know that name.                                                *)
WctlReply(w) ==
  (IF win[w].known THEN {"same", "focus", "moved"} ELSE {})
    \cup {"resized", "short", "noname", "nobind"}

BufSize == 32 + 6

(* 'f' and the image, if there is one, then 'n', the image, the length of  *)
(* the name and the name.                                                  *)
MessageSize(w, len) == (IF win[w].image >= 0 THEN 5 ELSE 0) + 6 + len

(* wctlread for a reply with data, as it leaves window v = win[w].  The    *)
(* position is taken over before winname is read, and is not tried again.  *)
Wctlread(w, v, reply, busy) ==
  LET t == NewTag(busy)
      names == reply \in {"moved", "resized", "nobind"}
      i == IF win[w].image >= 0 THEN win[w].image ELSE Min(Image \ imgout)
  IN  /\ Does(reply \notin {"short", "noname", "nobind"})
      /\ win' = [win EXCEPT ![w] =
                   [v EXCEPT !.tag["wctl"] = t,
                             !.known = @ \/ reply # "short",
                             !.image = IF names THEN i ELSE @]]
      /\ armed' = [u \in Tag |-> IF u = t THEN <<w, "wctl">>
                                 ELSE IF u \in busy THEN None ELSE armed[u]]
      /\ imgout' = IF names THEN imgout \cup {i} ELSE imgout
      /\ img' = IF names
                THEN [img EXCEPT ![i] = IF reply = "nobind" THEN "none" ELSE w]
                ELSE img
      /\ io' \in CASE reply \in {"focus", "resized"} -> {<<w, "configure">>}
                   [] reply = "moved" -> {<<w, "configure">>, None}
                   [] OTHER -> {None}
      /\ IF names
         THEN \E len \in NameLen :
                pc' = IF MessageSize(w, len) < BufSize THEN "idle" ELSE "abort"
         ELSE pc' = "idle"

(* A reader runs: fsdispatch has taken tag t.  Of a struct window that was *)
(* freed the model keeps the contents.                                     *)
FireWctl(t) ==
  \E w \in Window :
    /\ pc = "idle" /\ armed[t] = <<w, "wctl">>
    /\ \E reply \in WctlReply(w) : Wctlread(w, win[w], reply, {t})
    /\ UNCHANGED <<fidout, srv, locals>>

(* After winnew failed the reads it posted are still there, and those that *)
(* follow are of fid -1, which the server answers with an error.           *)
ReadOfFid(w, f) == win[w].fid[f] # -1 \/ win[w].tag[f] = NOTAG

(* mouseread and kbdread: read again.                                      *)
FireInput(t) ==
  \E w \in Window, f \in Input :
    /\ pc = "idle" /\ armed[t] = <<w, f>> /\ ReadOfFid(w, f)
    /\ LET u == NewTag({t})
       IN  /\ armed' = [armed EXCEPT ![t] = None, ![u] = <<w, f>>]
           /\ win' = [win EXCEPT ![w].tag[f] = u]
    /\ Quiet
    /\ UNCHANGED <<fidout, imgout, srv, img, pc, locals, refused>>

(* Rerror: the reader does not read again.                                 *)
FireError(t) ==
  \E w \in Window, f \in Reader :
    /\ pc = "idle" /\ armed[t] = <<w, f>>
    /\ armed' = [armed EXCEPT ![t] = None]
    /\ win' = [win EXCEPT ![w].tag[f] = NOTAG]
    /\ io' = IF f = "wctl" THEN <<w, "close">> ELSE None
    /\ UNCHANGED <<fidout, imgout, srv, img, pc, locals, refused>>

-----------------------------------------------------------------------------
(* winnew, called by the first commit.                                     *)

Bound(fid, w, f) == [srv EXCEPT ![fid] = <<w, f>>]

(* Attach to wsys, or for the first window of the child walk to /dev; the  *)
(* server refuses a fid that it has in use.  Without wsys winnew returns.  *)
WinnewAttach(w) ==
  /\ pc = "idle" /\ win[w].top /\ win[w].initial
  /\ MaxFid - Cardinality(fidout) > Cardinality(File)
  /\ io' = <<w, "initial commit">>
  /\ \/ /\ srv[NewFid] = None
        /\ win' = [win EXCEPT ![w].wsys = NewFid, ![w].image = -1,
                               ![w].asked = TRUE]
        /\ srv' = Bound(NewFid, w, "wsys")
        /\ fidout' = fidout \cup {NewFid}
        /\ pc' = "walk" /\ cur' = w
        /\ UNCHANGED <<n, done, clunk, ftag>>
        /\ Does(TRUE)
     \/ /\ Does(srv[NewFid] # None)
        /\ win' = [win EXCEPT ![w].initial = FALSE, ![w].asked = TRUE]
        /\ UNCHANGED <<srv, fidout, pc, locals>>
  /\ UNCHANGED <<armed, imgout, img>>

GoOnTooFar(next) == n' = n + 1 /\ pc' = IF n = Len(Files) THEN next ELSE pc

GoOn(next) == /\ n' = IF n = Len(Files) THEN 1 ELSE n + 1
              /\ pc' = IF n = Len(Files) THEN next ELSE pc

Fail == pc' = "error" /\ UNCHANGED n

(* All walks are posted.                                                   *)
WinnewWalk ==
  /\ pc = "walk"
  /\ fidout' = fidout \cup {NewFid}
  /\ win' = [win EXCEPT ![cur].fid[Files[n]] = NewFid]
  /\ \E ok \in BOOLEAN :
       /\ Does(ok)
       /\ IF ok /\ srv[NewFid] = None
          THEN srv' = Bound(NewFid, cur, Files[n]) /\ done' = done \cup {Files[n]}
          ELSE UNCHANGED <<srv, done>>
  /\ GoOn("open")
  /\ Quiet
  /\ UNCHANGED <<armed, imgout, img, cur, clunk, ftag>>

(* Wait for each walk and post the open.                                   *)
WinnewOpen ==
  /\ pc = "open"
  /\ IF Files[n] \in done
     THEN /\ clunk' = clunk \cup {Files[n]}
          /\ \E ok \in BOOLEAN :
               Does(ok) /\ done' = IF ok THEN done ELSE done \ {Files[n]}
          /\ GoOn("read")
     ELSE Fail /\ UNCHANGED <<clunk, done, refused>>
  /\ Quiet
  /\ UNCHANGED <<win, fidout, armed, imgout, srv, img, cur, ftag>>

WinnewReadArmsWctl ==
  /\ pc = "read"
  /\ IF Files[n] \in done
     THEN /\ IF Files[n] \in Reader
             THEN LET t == NewTag({ftag[f] : f \in Reader})
                  IN  /\ ftag' = [ftag EXCEPT ![Files[n]] = t]
                      /\ armed' = [armed EXCEPT ![t] = <<cur, Files[n]>>]
             ELSE UNCHANGED <<ftag, armed>>
          /\ GoOn("wctl")
     ELSE Fail /\ UNCHANGED <<ftag, armed>>
  /\ Quiet
  /\ UNCHANGED <<win, fidout, imgout, srv, img, cur, done, clunk, refused>>

(* Wait for each open and post the first read; those of mouse and kbd get  *)
(* their callbacks.                                                        *)
WinnewRead ==
  /\ pc = "read"
  /\ IF Files[n] \in done
     THEN /\ IF Files[n] \in Reader
             THEN LET t == NewTag({ftag[f] : f \in Reader})
                  IN  /\ ftag' = [ftag EXCEPT ![Files[n]] = t]
                      /\ armed' = IF Files[n] = "wctl" THEN armed
                                  ELSE [armed EXCEPT ![t] = <<cur, Files[n]>>]
             ELSE UNCHANGED <<ftag, armed>>
          /\ GoOn("wctl")
     ELSE Fail /\ UNCHANGED <<ftag, armed>>
  /\ Quiet
  /\ UNCHANGED <<win, fidout, imgout, srv, img, cur, done, clunk, refused>>

(* Wait for the read of wctl, which frees its tag, and call wctlread.      *)
WinnewWctl ==
  /\ pc = "wctl"
  /\ LET v == [win[cur] EXCEPT !.tag = ftag, !.initial = FALSE]
     IN  \E reply \in WctlReply(cur) : Wctlread(cur, v, reply, {})
  /\ LocalsEnd
  /\ UNCHANGED <<fidout, srv>>

WinnewWctlError ==
  /\ pc = "wctl"
  /\ Does(FALSE)
  /\ Fail
  /\ Quiet
  /\ UNCHANGED <<win, fidout, armed, imgout, srv, img, cur, done, clunk, ftag>>

Walked == {win[cur].fid[f] : f \in File}

ErrorClunks == {win[cur].fid[f] : f \in clunk}

(* Return the fids, and clunk those whose walk has been waited for.        *)
(* f->flush is never set, so no read is flushed.                           *)
WinnewError ==
  /\ pc = "error"
  /\ srv' = Clunked({win[cur].wsys} \cup ErrorClunks)
  /\ fidout' = fidout \ Walked
  /\ win' = [win EXCEPT ![cur].wsys = -1, ![cur].initial = FALSE,
                        ![cur].fid = [f \in File |-> -1]]
  /\ pc' = "idle"
  /\ LocalsEnd
  /\ Quiet
  /\ UNCHANGED <<armed, imgout, img, refused>>

Winnew == WinnewWalk \/ WinnewOpen \/ WinnewRead \/ WinnewWctl \/ WinnewWctlError \/ WinnewError

Next ==
  \/ \E w \in Window :
       \/ GetXdgSurface(w) \/ GetToplevel(w) \/ SetTitle(w) \/ Commit(w)
       \/ WinnewAttach(w) \/ ToplevelDestroy(w) \/ XdgSurfaceDestroy(w)
  \/ Winnew
  \/ \E t \in Tag : FireWctl(t) \/ FireInput(t) \/ FireError(t)

Spec == Init /\ [][Next]_vars

-----------------------------------------------------------------------------
StructWindow ==
  [state : {"new", "live", "gone"}, top : BOOLEAN, roles : 0 .. MaxRoles,
   asked : BOOLEAN, initial : BOOLEAN,
   wsys : Fid \cup {-1}, fid : [File -> Fid \cup {-1}],
   tag : [Reader -> Tag \cup {NOTAG}], image : Image \cup {-1}, known : BOOLEAN]

TypeOK ==
  /\ win \in [Window -> StructWindow]
  /\ fidout \subseteq Fid /\ imgout \subseteq Image
  /\ armed \in [Tag -> {None} \cup (Window \X Reader)]
  /\ srv \in [Fid -> {None} \cup (Window \X (File \cup {"wsys"}))]
  /\ img \in [Image -> Window \cup {"screen", "none"}]
  /\ io \in {None} \cup
       (Window \X {"initial commit", "commit", "title", "lost title", "configure", "close"})
  /\ pc \in {"idle", "walk", "open", "read", "wctl", "error", "abort"}
  /\ cur \in Window \cup {None} /\ n \in 1 .. Len(Files)
  /\ done \subseteq File /\ clunk \subseteq File
  /\ ftag \in [Reader -> Tag \cup {NOTAG}]
  /\ refused \in 0 .. MaxRefusals

(* The fids of an open window name its own files at the server.            *)
FidsNameFiles ==
  \A w \in Window :
    win[w].top /\ win[w].roles = 1 /\ Opened(w) /\ ~ win[w].initial =>
      /\ srv[win[w].wsys] = <<w, "wsys">>
      /\ \A f \in File : srv[win[w].fid[f]] = <<w, f>>

(* The server and the pool agree on the fids in use, but for those of      *)
(* walks that were on their way when winnew failed: winnew returns them to *)
(* the pool and the server keeps them.                                     *)
PoolAgrees ==
  \A f \in Fid : srv[f] # None => f \in fidout \/ Failed(srv[f][1])

(* Whatever other windows walked, clunked or returned meanwhile, what wl9  *)
(* writes to label or reads from mouse never belongs to another window     *)
(* (wl9.c:731-792, 1028-1037, 1155-1185).                                  *)
FidsAgree == TypeOK /\ FidsNameFiles /\ PoolAgrees

(* A window has one read outstanding of each of its files, so that events  *)
(* of a file are handled in order; Fs9p's readers rest on it.              *)
OneReadPerFile ==
  \A t, u \in Tag : armed[t] # None /\ armed[t] = armed[u] => t = u

(* An armed reader is the only one of its file, and belongs to a toplevel  *)
(* that is there and whose struct window has the reader's tag, so that its *)
(* destruction flushes it; but winnew leaves the reads it armed before it  *)
(* failed.                                                                 *)
ReadersKnown ==
  /\ OneReadPerFile
  /\ pc = "idle" =>
       \A t \in Tag, w \in Window, f \in Reader :
         armed[t] = <<w, f>> => Failed(w) \/ (win[w].top /\ win[w].tag[f] = t)

Armed(w, f) == \E t \in Tag : armed[t] = <<w, f>>

Again(v) == win[v].roles > 1

(* A reader ends with an error reply or with its toplevel, not because of  *)
(* what happens to another window, unless some window had a second         *)
(* toplevel.  The destruction of that one flushes the tags the first had,  *)
(* and a window that lost a reader so keeps its tag as well.               *)
ReadersGoOn ==
  [][\A w \in Window, f \in Reader :
       Armed(w, f) /\ ~ Armed(w, f)' =>
         \/ win'[w].tag[f] = NOTAG
         \/ win[w].top /\ ~ win'[w].top
         \/ \E v \in Window : Again(v)]_vars

(* What an image id names at the server changes only with the window it    *)
(* names: no window renames or frees the image of another.                 *)
ImagesKept ==
  [][\A i \in Image, w \in Window :
       img[i] = w /\ img'[i] # w => win'[w] # win[w] /\ win[w].image = i]_vars

(* assert(pos - buf < sizeof buf) of wctlread.                             *)
AssertHolds == pc # "abort"

(* xdg-shell-server-protocol.h: the compositor will reply to the initial   *)
(* commit of a toplevel with a configure event.                            *)
CommitConfigured ==
  \A w \in Window :
    io = <<w, "initial commit">> ~> io = <<w, "configure">> \/ ~ win[w].top

FairSpec == Spec /\ WF_vars(Winnew)
=============================================================================
