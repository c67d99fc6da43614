------------------------------- MODULE RecvBuf -------------------------------
(***************************************************************************)
(* How bytes become messages: c9proc of c9.c and read9p of fs.c over rbuf. *)
(*                                                                         *)
(* The server's replies are a stream of bytes numbered from 0.  read()     *)
(* returns any number of the bytes that have arrived, and EAGAIN at any    *)
(* byte; c9proc then returns and is called again later, by fsreadR or by   *)
(* fswait, between the size of a message and its body if need be.          *)
(***************************************************************************)
EXTENDS Integers

CONSTANTS
  BUF,       \* bytes in rbuf
  MSIZE,     \* largest message: msize, at first sizeof rbuf, only lowered
  MaxSent    \* model bound: bytes the server sends

ASSUME SizeAssumption == BUF \in Nat /\ MSIZE \in Nat /\ 7 <= MSIZE /\ MSIZE <= BUF
ASSUME MaxSentAssumption == MaxSent \in Nat

HEADER == 4            \* the size field in front of each message
Size == 7 .. MSIZE

VARIABLES
  len,     \* the stream: where messages start, and the size of each
  sent,    \* bytes of the stream so far
  rbuf,    \* for each byte of the buffer its number in the stream
  rpos,
  rend,
  got,     \* the byte that read() returns next
  sz,      \* c->sz: size of the message whose size was read, or 0
  want,    \* the argument of read9p
  pc,      \* "c9proc", "read9p" (entered), "read" (its loop)
  at       \* where the next message to hand to r() starts

srvv == <<len, sent>>
bufv == <<rbuf, rpos, rend, got>>
vars == <<srvv, bufv, sz, want, pc, at>>

(* rpos == rend: the contents of rbuf are of no interest.                  *)
Init ==
  /\ len = [n \in {} |-> 0] /\ sent = 0
  /\ rbuf = [i \in 0 .. BUF - 1 |-> 0] /\ rpos = 0 /\ rend = 0 /\ got = 0
  /\ sz = 0 /\ want = 0 /\ pc = "c9proc" /\ at = 0

(* The server sends one more message.                                      *)
Send(s) ==
  /\ sent + s <= MaxSent
  /\ len' = [n \in DOMAIN len \cup {sent} |-> IF n = sent THEN s ELSE len[n]]
  /\ sent' = sent + s
  /\ UNCHANGED <<bufv, sz, want, pc, at>>

(* c9proc goes on where it returned for want of bytes.                     *)
C9proc ==
  /\ pc = "c9proc"
  /\ want' = IF sz = 0 THEN HEADER ELSE sz - HEADER
  /\ pc' = "read9p"
  /\ UNCHANGED <<srvv, bufv, sz, at>>

Available == rend - rpos

NoShiftForRoom == rend = rpos

(* The bytes asked for would not fit behind rpos.                          *)
ShiftNeeded == rend = rpos \/ BUF - rpos < want

(* memmove to the front of rbuf.                                           *)
Shift ==
  /\ rbuf' = [i \in 0 .. BUF - 1 |->
                IF i < Available THEN rbuf[rpos + i] ELSE rbuf[i]]
  /\ rend' = Available
  /\ rpos' = 0

Read9p ==
  /\ pc = "read9p"
  /\ IF ShiftNeeded THEN Shift ELSE UNCHANGED <<rbuf, rpos, rend>>
  /\ pc' = "read"
  /\ UNCHANGED <<srvv, got, sz, want, at>>

ReadSomeUnbounded(n) ==
  /\ pc = "read"
  /\ Available < want
  /\ got + n <= sent
  /\ rend' = rend + n
  /\ got' = got + n
  /\ UNCHANGED <<srvv, rbuf, rpos, sz, want, pc, at>>

(* read(): some of the bytes that have arrived, as many as fit.            *)
ReadSome(n) ==
  /\ pc = "read"
  /\ Available < want
  /\ rend + n <= BUF
  /\ got + n <= sent
  /\ rbuf' = [i \in 0 .. BUF - 1 |->
                IF i \in rend .. rend + n - 1 THEN got + (i - rend) ELSE rbuf[i]]
  /\ rend' = rend + n
  /\ got' = got + n
  /\ UNCHANGED <<srvv, rpos, sz, want, pc, at>>

AgainForgetsSize ==
  /\ pc = "read"
  /\ Available < want
  /\ sz' = 0
  /\ pc' = "c9proc"
  /\ UNCHANGED <<srvv, bufv, want, at>>

(* EAGAIN: c9proc returns, c->sz stays.                                    *)
ReadAgain ==
  /\ pc = "read"
  /\ Available < want
  /\ pc' = "c9proc"
  /\ UNCHANGED <<srvv, bufv, sz, want, at>>

(* The n bytes at rpos are those of the stream from number first on.       *)
Holds(first, n) == \A i \in 0 .. n - 1 : rbuf[rpos + i] = first + i

(* What the four bytes at rpos say as a size: the size of a message if     *)
(* they are its size field, anything if not.                               *)
SizeField ==
  {s \in Size :
     \A m \in DOMAIN len : Holds(m, HEADER) => s = len[m]}

(* The body follows at once if it is there.                                *)
GotSize ==
  /\ pc = "read"
  /\ sz = 0
  /\ Available >= want
  /\ sz' \in SizeField
  /\ want' = sz' - HEADER
  /\ rpos' = rpos + HEADER
  /\ pc' = "read9p"
  /\ UNCHANGED <<srvv, rbuf, rend, got, at>>

(* c->r is called for the body.                                            *)
GotBody ==
  /\ pc = "read"
  /\ sz # 0
  /\ Available >= want
  /\ sz' = 0
  /\ rpos' = rpos + want
  /\ at' = at + len[at]
  /\ pc' = "c9proc"
  /\ UNCHANGED <<srvv, rbuf, rend, got, want>>

Next ==
  \/ \E s \in Size : Send(s)
  \/ C9proc \/ Read9p \/ ReadAgain \/ GotSize \/ GotBody
  \/ \E n \in 1 .. BUF : ReadSome(n)

Spec == Init /\ [][Next]_vars

-----------------------------------------------------------------------------
TypeOK ==
  /\ DOMAIN len \subseteq Nat /\ \A m \in DOMAIN len : len[m] \in Size
  /\ sent \in Nat /\ got \in 0 .. sent
  /\ rbuf \in [0 .. BUF - 1 -> Nat]
  /\ rpos \in 0 .. rend /\ rend \in 0 .. BUF
  /\ sz \in Size \cup {0}
  /\ want \in 0 .. BUF
  /\ pc \in {"c9proc", "read9p", "read"}
  /\ at \in Nat

(* read9p never calls read() without room: it would return 0, which read9p *)
(* takes for the end of the stream, and wl9 would exit with a message half *)
(* received at the end of rbuf.                                            *)
RoomToRead == pc = "read" /\ Available < want => rend < BUF

(* r() is called for each message, in order, with its size and its bytes,  *)
(* however the stream was cut up and wherever rbuf was shifted.            *)
MessagesWhole ==
  [][at' # at =>
       /\ at \in DOMAIN len
       /\ sz = len[at]
       /\ Holds(at + HEADER, sz - HEADER)]_vars
=============================================================================
