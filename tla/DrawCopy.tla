------------------------------ MODULE DrawCopy ------------------------------
(***************************************************************************)
(* How damage becomes draw(3) messages: damage and toplevel_commit of      *)
(* wl9.c, the redraw of wctlread, and drawcopy, which sends the rectangle  *)
(* in pieces that fit draw.buf.                                            *)
(*                                                                         *)
(* A pixel of the window is <<x, y>>; src says which pixel of the buffer   *)
(* img points to, as x + y * STRIDE, also where the buffer has none.  A    *)
(* pixel has four bytes.  What overflows an int is not modelled.           *)
(***************************************************************************)
EXTENDS Integers, FiniteSets

CONSTANTS
  W, H,         \* size of the window, w->x1 - w->x0 and w->y1 - w->y0
  STRIDE, ROWS, \* size of the client's buffer, which nobody compares with it
  BUFLEN,       \* draw.buflen: iounit of the draw data file, or 32768
  LIMIT,        \* largest c9write: msize less the header of Twrite
  Coord,        \* where damage can start, left of and above the window too
  Extent,       \* widths and heights of damage
  MaxRequests   \* model bound: damage requests between two draws

DHEADER == 22    \* 'y', the image, a rectangle, and the 'v' of the last one
Room == BUFLEN - DHEADER

CeilDiv(a, b) == (a + b - 1) \div b

ASSUME DrawAssumption ==
  /\ W \in Nat \ {0} /\ H \in Nat \ {0} /\ STRIDE \in Nat /\ ROWS \in Nat
  /\ Coord \subseteq Int /\ Extent \subseteq Int /\ MaxRequests \in Nat
  /\ BUFLEN \in Nat /\ DHEADER + 4 <= BUFLEN /\ LIMIT \in Nat

Pixels == (0 .. W - 1) \X (0 .. H - 1)

NoDamage == [x0 |-> -1, y0 |-> -1, x1 |-> -1, y1 |-> -1]

VARIABLES
  damage,    \* s->pending.damage
  asked,     \* pixels of the window that the client damaged
  requests,  \* how many requests that took
  minus,     \* one of them began at -1
  d,         \* d->d, the rectangle to draw
  dx, dy,    \* size of a piece
  px, py,    \* where the next piece starts
  src,       \* img
  drawn,     \* which pixel of the buffer each pixel of the window shows
  dlen,      \* bytes in the last message
  tag,       \* of the last message
  dpc        \* "idle", "draw" (the loop), "wait" (after it), "trap"

rectv == <<d, dx, dy>>
loopv == <<px, py, src, drawn, dlen, tag>>
damagev == <<damage, asked, requests, minus>>
drawv == <<damagev, rectv, loopv, dpc>>

Return ==
  /\ d' = NoDamage /\ dx' = 0 /\ dy' = 0
  /\ px' = 0 /\ py' = 0 /\ src' = 0 /\ drawn' = [p \in {} |-> 0] /\ dlen' = 0
  /\ tag' = "none" /\ dpc' = "idle"

DrawInit ==
  /\ damage = NoDamage /\ asked = {} /\ requests = 0 /\ minus = FALSE
  /\ d = NoDamage /\ dx = 0 /\ dy = 0
  /\ px = 0 /\ py = 0 /\ src = 0 /\ drawn = [p \in {} |-> 0] /\ dlen = 0
  /\ tag = "none" /\ dpc = "idle"

-----------------------------------------------------------------------------
(* One side of the bounding box.                                           *)
LowerLast(old, new) == new

Lower(old, new) == IF old = -1 \/ new < old THEN new ELSE old

UpperFirst(old, new) == IF old = -1 THEN new ELSE old

Upper(old, new) == IF old = -1 \/ new > old THEN new ELSE old

Damage(x0, y0, w, h) ==
  /\ dpc = "idle" /\ requests < MaxRequests
  /\ damage' = [x0 |-> Lower(damage.x0, x0), y0 |-> Lower(damage.y0, y0),
                x1 |-> Upper(damage.x1, x0 + w), y1 |-> Upper(damage.y1, y0 + h)]
  /\ asked' = asked \cup {p \in Pixels : /\ x0 <= p[1] /\ p[1] < x0 + w
                                         /\ y0 <= p[2] /\ p[2] < y0 + h}
  /\ requests' = requests + 1 /\ minus' = (minus \/ -1 \in {x0, y0})
  /\ UNCHANGED <<rectv, loopv, dpc>>

AtMostNothing(a, b) == a

AtMost(a, b) == IF a > b THEN b ELSE a

(* A row that does not fit: d.dx is the number of its pieces.              *)
Split(w) == Room < 4 * w

Width(w) == IF Split(w) THEN CeilDiv(4 * w, Room) ELSE w

HeightRoundedUp(w) == IF Split(w) THEN 1 ELSE CeilDiv(Room, 4 * w)

Height(w) == IF Split(w) THEN 1 ELSE Room \div (4 * w)

SourceByWidth(r) == r.x0 + r.y0 * W

Source(r) == r.x0 + r.y0 * STRIDE

(* What toplevel_commit and wctlread do before drawcopy.  A width of 0 is  *)
(* a division by zero, and a negative one becomes a huge size_t.           *)
StartDraw(r) ==
  LET w == r.x1 - r.x0
  IN
  /\ d' = r
  /\ IF w <= 0
     THEN dpc' = "trap" /\ UNCHANGED <<dx, dy, loopv>>
     ELSE /\ dx' = Width(w) /\ dy' = Height(w)
          /\ px' = r.x0 /\ py' = r.y0 /\ src' = Source(r)
          /\ drawn' = [p \in {} |-> 0] /\ dlen' = 0 /\ tag' = "none"
          /\ dpc' = "draw"

ToplevelCommit ==
  /\ dpc = "idle" /\ damage.x0 # -1
  /\ StartDraw([damage EXCEPT !.x1 = AtMost(@, W), !.y1 = AtMost(@, H)])
  /\ UNCHANGED damagev

(* wctlread of a window that moved.                                        *)
Moved ==
  /\ dpc = "idle"
  /\ StartDraw([x0 |-> 0, y0 |-> 0, x1 |-> W, y1 |-> H])
  /\ UNCHANGED damagev

(* The piece that starts at x, y.                                          *)
X1 == AtMost(px + dx, d.x1)
Y1 == AtMost(py + dy, d.y1)
Piece == (px .. X1 - 1) \X (py .. Y1 - 1)
Rows == IF Y1 > py THEN Y1 - py ELSE 0

RowEndsAlways == TRUE

RowEnds == X1 = d.x1

NextY == IF RowEnds THEN py + Rows ELSE py + Rows - 1

LastMessageLate == NextY = d.y1 + 1

LastMessage == NextY = d.y1

(* One turn of drawcopy's loop.  A write that fails leaves no tag.         *)
DrawPiece ==
  LET bytes == DHEADER - 1 + 4 * (X1 - px) * Rows + IF LastMessage THEN 1 ELSE 0
  IN
  /\ dpc = "draw"
  /\ drawn' = [p \in DOMAIN drawn \cup Piece |->
                IF p \in Piece THEN src + (p[1] - px) + (p[2] - py) * STRIDE
                ELSE drawn[p]]
  /\ src' = src + Rows * STRIDE
  /\ px' = IF RowEnds THEN d.x0 ELSE X1
  /\ py' = NextY
  /\ dlen' = bytes
  /\ tag' = IF bytes <= LIMIT THEN "given" ELSE "none"
  /\ dpc' = IF LastMessage \/ bytes > LIMIT THEN "wait" ELSE "draw"
  /\ UNCHANGED <<damagev, rectv>>

(* The tail of drawcopy, once the last write was answered.                 *)
DrawDone ==
  /\ dpc = "wait" /\ tag = "given"
  /\ damage' = NoDamage /\ asked' = {} /\ requests' = 0 /\ minus' = FALSE
  /\ Return

(* The division stopped wl9, or it waits for the tag of a failed write.    *)
Trapped == (dpc = "trap" \/ (dpc = "wait" /\ tag = "none")) /\ UNCHANGED drawv

DrawNext ==
  \/ \E x0, y0 \in Coord, w, h \in Extent : Damage(x0, y0, w, h)
  \/ ToplevelCommit \/ Moved \/ DrawPiece \/ DrawDone \/ Trapped

DrawSpec == DrawInit /\ [][DrawNext]_drawv /\ WF_drawv(DrawPiece)

-----------------------------------------------------------------------------
Rectangle == [x0 : Int, y0 : Int, x1 : Int, y1 : Int]

DrawTypeOK ==
  /\ damage \in Rectangle /\ d \in Rectangle
  /\ asked \subseteq Pixels /\ requests \in 0 .. MaxRequests /\ minus \in BOOLEAN
  /\ dx \in Nat /\ dy \in 0 .. Room
  /\ {px, py, src, dlen} \subseteq Int /\ drawn \in [DOMAIN drawn -> Int]
  /\ tag \in {"none", "given"} /\ dpc \in {"idle", "draw", "wait", "trap"}

(* A rectangle that is not empty is drawn row by row without a gap and     *)
(* nothing outside it is: the loop has drawn what lies before x, y.  It is *)
(* so whether rows are split or not (wl9.c:173-194).                       *)
Before(p) == p[2] < py \/ (p[2] = py /\ p[1] < px)

Inside == (d.x0 .. d.x1 - 1) \X (d.y0 .. d.y1 - 1)

NoGaps ==
  dpc \in {"draw", "wait"} /\ d.y0 < d.y1 => DOMAIN drawn = {p \in Inside : Before(p)}

(* When the loop has sent its last message, all that the client damaged in *)
(* the window since the last draw is drawn; and a commit finds no damage   *)
(* only if there is none.  Damage that begins at -1 is the exception: the  *)
(* code takes -1 for no damage (wl9.c:828-835, 1136).                      *)
Covered ==
  ~ minus =>
    /\ dpc = "wait" /\ tag = "given" => asked \subseteq DOMAIN drawn
    /\ damage.x0 = -1 => asked = {}

(* Where rows are not split, every pixel shows its own of the buffer: img  *)
(* goes down a row with each piece, of a split row too (wl9.c:190).        *)
RightPixels ==
  ~ Split(d.x1 - d.x0) => \A p \in DOMAIN drawn : drawn[p] = p[1] + p[2] * STRIDE

(* Then what is read lies in the buffer, if the rectangle does: nothing    *)
(* compares a negative corner, or the size of the window, with it.         *)
InBuffer ==
  /\ ~ Split(d.x1 - d.x0) /\ d.y0 < d.y1
  /\ 0 <= d.x0 /\ d.x1 <= STRIDE /\ 0 <= d.y0 /\ d.y1 <= ROWS
  => \A p \in DOMAIN drawn : 0 <= drawn[p] /\ drawn[p] < STRIDE * ROWS

(* Only a commit whose damage is wholly outside the window, or empty, gets *)
(* the division by zero, or one with damage at -1.                         *)
TrapsOnEmpty == dpc = "trap" /\ ~ minus => asked = {}

(* What was damaged is drawn, whatever the sizes of window, buffer and     *)
(* draw.buf and however many messages it takes: all of it, in order, each  *)
(* pixel its own, and only an empty rectangle stops the program instead.   *)
(* The exceptions are the code's: damage at -1 may be lost, split rows     *)
(* show wrong pixels, and what is not in the buffer is read beside it      *)
(* (wl9.c:165-205, 828-835, 1136-1153).                                    *)
DamageDrawn == Covered /\ NoGaps /\ RightPixels /\ InBuffer /\ TrapsOnEmpty

(* As many rows of this width as fit draw.buf, or the pieces of one.  The  *)
(* pieces are as wide as there are of them, so that too long a row has too *)
(* wide pieces; about (Room / 4)^2 pixels is as long as a row may be.      *)
Fits(w) == 4 * w <= Room * (Room \div 4)

(* No message is longer than draw.buf if the row fits so, although the     *)
(* rows of a message are counted before it is known how many are left, and *)
(* the last one has a byte more (wl9.c:189, 197, 1145-1150).               *)
MessageFits == DrawTypeOK /\ (Fits(d.x1 - d.x0) => dlen <= BUFLEN)

(* The loop ends, unless the damage starts below the window, when y never  *)
(* meets d.y1 and the same empty message is sent for ever (wl9.c:195).     *)
DrawEnds == (dpc = "draw" /\ d.y0 <= d.y1) ~> dpc = "wait"
=============================================================================
