------------------------------- MODULE SendBuf -------------------------------
(***************************************************************************)
(* How requests become bytes: T of c9.c, begin and write9p of fs.c over    *)
(* wbuf, and the pipe.                                                     *)
(*                                                                         *)
(* Requests are a stream of bytes numbered from 0.  A request is put       *)
(* together behind the bytes that are not written yet; if there is no room *)
(* all of them are written first.  write() takes any number of bytes that  *)
(* fit the pipe, and gives EAGAIN if none does.                            *)
(***************************************************************************)
EXTENDS Integers

CONSTANTS
  WBUF,       \* bytes in wbuf
  TSIZE,     \* msize
  CAP,       \* bytes the pipe holds
  MaxPut     \* model bound: bytes of all requests

ASSUME WbufAssumption == WBUF \in Nat /\ TSIZE \in Nat /\ 7 <= TSIZE /\ TSIZE <= WBUF
ASSUME CapAssumption == CAP \in Nat \ {0}
ASSUME MaxPutAssumption == MaxPut \in Nat

THEADER == 7      \* size, type and tag

VARIABLES
  wbuf,    \* for each byte of the buffer its number in the stream
  wpos,
  wend,
  put,     \* number of the next byte to put into wbuf
  out,     \* bytes written so far
  pipe,    \* bytes in the pipe that the server has not read
  need,    \* size of the request begin was called for, or 0
  wpc       \* "idle", "begin", "fill", "block" (write9p of begin or
           \* fswait), "write" (write9p of fswriteT and fsdispatch)

wbufv == <<wbuf, wpos, wend>>
sendvars == <<wbufv, put, out, pipe, need, wpc>>

SendInit ==
  /\ wbuf = [i \in 0 .. WBUF - 1 |-> 0] /\ wpos = 0 /\ wend = 0
  /\ put = 0 /\ out = 0 /\ pipe = 0 /\ need = 0 /\ wpc = "idle"

AcceptedBare(size) == size <= TSIZE

Accepted(size) == size <= TSIZE - THEADER

(* T refuses a request larger than msize, and otherwise calls begin for    *)
(* its size and the header's.                                              *)
T(size) ==
  /\ wpc = "idle"
  /\ Accepted(size)
  /\ put + size + THEADER <= MaxPut
  /\ need' = size + THEADER
  /\ wpc' = "begin"
  /\ UNCHANGED <<wbufv, put, out, pipe>>

HasRoom == need <= WBUF - wend

(* begin looks for room once, and does not look again after write9p.       *)
Begin ==
  /\ wpc = "begin"
  /\ wpc' = IF HasRoom THEN "fill" ELSE "block"
  /\ UNCHANGED <<wbufv, put, out, pipe, need>>

(* begin returns wend, and T and its caller fill in the request.           *)
Fill ==
  /\ wpc = "fill"
  /\ wbuf' = [i \in 0 .. WBUF - 1 |->
                IF i \in wend .. wend + need - 1 THEN put + (i - wend) ELSE wbuf[i]]
  /\ wend' = wend + need
  /\ put' = put + need
  /\ need' = 0
  /\ wpc' = "idle"
  /\ UNCHANGED <<wpos, out, pipe>>

(* fswait                                                                  *)
Wait ==
  /\ wpc = "idle"
  /\ wpc' = "block"
  /\ UNCHANGED <<wbufv, put, out, pipe, need>>

(* fswriteT, fsdispatch                                                    *)
Write9p ==
  /\ wpc = "idle"
  /\ wpc' = "write"
  /\ UNCHANGED <<wbufv, put, out, pipe, need>>

(* write() of n bytes from wpos on.                                        *)
WriteSome(n) ==
  /\ wpc \in {"block", "write"}
  /\ wpos + n <= wend
  /\ pipe + n <= CAP
  /\ wpos' = wpos + n
  /\ out' = out + n
  /\ pipe' = pipe + n
  /\ UNCHANGED <<wbuf, wend, put, need, wpc>>

AgainRewinds ==
  /\ wpc = "write"
  /\ wpos < wend
  /\ pipe = CAP
  /\ wpos' = 0 /\ wend' = 0
  /\ wpc' = "idle"
  /\ UNCHANGED <<wbuf, put, out, pipe, need>>

(* EAGAIN; with block write9p polls and tries again, that is, stays.       *)
WriteAgain ==
  /\ wpc = "write"
  /\ wpos < wend
  /\ pipe = CAP
  /\ wpc' = "idle"
  /\ UNCHANGED <<wbufv, put, out, pipe, need>>

WriteEndsInPlace ==
  /\ wpc \in {"block", "write"}
  /\ wpos = wend
  /\ wpc' = IF need > 0 THEN "fill" ELSE "idle"
  /\ UNCHANGED <<wbufv, put, out, pipe, need>>

WriteEndsIdle ==
  /\ wpc \in {"block", "write"}
  /\ wpos = wend
  /\ wpos' = 0 /\ wend' = 0
  /\ wpc' = "idle"
  /\ UNCHANGED <<wbuf, put, out, pipe, need>>

(* wpos = wend = wbuf when all is written; then back to begin or the loop. *)
WriteEnds ==
  /\ wpc \in {"block", "write"}
  /\ wpos = wend
  /\ wpos' = 0 /\ wend' = 0
  /\ wpc' = IF need > 0 THEN "fill" ELSE "idle"
  /\ UNCHANGED <<wbuf, put, out, pipe, need>>

(* The server reads from the pipe.                                         *)
SrvRead(n) ==
  /\ n <= pipe
  /\ pipe' = pipe - n
  /\ UNCHANGED <<wbufv, put, out, need, wpc>>

SendNext ==
  \/ \E size \in 0 .. TSIZE : T(size)
  \/ Begin \/ Fill \/ Wait \/ Write9p \/ WriteAgain \/ WriteEnds
  \/ \E n \in 1 .. WBUF : WriteSome(n)
  \/ \E n \in 1 .. CAP : SrvRead(n)

SendSpec == SendInit /\ [][SendNext]_sendvars

-----------------------------------------------------------------------------
SendTypeOK ==
  /\ wbuf \in [0 .. WBUF - 1 -> Nat]
  /\ wpos \in 0 .. wend /\ wend \in 0 .. WBUF
  /\ put \in Nat /\ out \in 0 .. put
  /\ pipe \in 0 .. CAP
  /\ need \in 0 .. WBUF
  /\ wpc \in {"idle", "begin", "fill", "block", "write"}

(* What is in wbuf between wpos and wend are the bytes that follow those   *)
(* written, none lost, none twice and none overwritten by a later request, *)
(* wherever write() stopped.                                               *)
UnsentIntact ==
  /\ put = out + (wend - wpos)
  /\ \A i \in wpos .. wend - 1 : wbuf[i] = out + (i - wpos)

(* A request is never written past the end of wbuf, although begin does    *)
(* not look for room again after write9p.                                  *)
FitsWbuf == wpc = "fill" => need <= WBUF - wend

-----------------------------------------------------------------------------
(* The server reads on, and write9p goes on when poll reports room.        *)
Step ==
  \/ Begin \/ Fill \/ WriteEnds \/ WriteAgain
  \/ \E n \in 1 .. WBUF : WriteSome(n)

FairSendSpec ==
  /\ SendSpec
  /\ WF_sendvars(Step)
  /\ WF_sendvars(\E n \in 1 .. CAP : SrvRead(n))

(* A request that begin was called for gets into wbuf, also when it must   *)
(* wait for all of wbuf to be written to a pipe smaller than wbuf.         *)
BeginReturns == need > 0 ~> need = 0
=============================================================================
