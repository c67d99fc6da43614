----------------------------- MODULE MCBuffers -----------------------------
(* The parts that keep numbers or bytes in arrays: NumTab, RecvBuf,        *)
(* SendBuf, DrawCopy, and C9, which puts messages together and takes them  *)
(* apart.  They share no state, so that a behaviour is one of a part       *)
(* alone; the others stay as they began.                                   *)
EXTENDS NumTab, RecvBuf, SendBuf, DrawCopy, C9

VARIABLE part    \* the one that runs

(* Paths and directories for C9: none, one or two parts, as many as there  *)
(* may be and one more, parts of no bytes and of too many.                 *)
SomePaths ==
  {<<>>, <<1>>, <<0>>, <<3, 65535>>, <<65536>>, <<1, 0>>}
    \cup {[k \in 1 .. n |-> 2] : n \in {16, 17}}

SomeDirs ==
  {<<>>, <<<<1, 1, 1, 1>>>>, <<<<3, 0, 1, 2>>, <<2, 1, 0, 0>>>>, <<<<0, 1, 1, 1>>>>,
   <<<<1, 1, 1, 1>>, <<1, 65536, 1, 1>>>>, <<<<1, 1, 1, 4000>>, <<1, 1, 1, 1>>>>,
   <<<<1, 1, 1, 1>>, <<60000, 10000, 1, 1>>>>, <<<<1, 0, 0, 65487>>>>, <<<<1, 0, 0, 65488>>>>}

(* Damage from left of and above the window, at -1, and in the buffer.     *)
SomeCoords == {-2, -1, 0, 2}

MCInit ==
  /\ part \in {"numtab", "recv", "send", "draw", "c9"}
  /\ NumInit /\ Init /\ SendInit /\ DrawInit /\ C9Init
  /\ part # "c9" => smsize = 4096

MCNext ==
  /\ UNCHANGED part
  /\ \/ part = "numtab" /\ NumNext /\ UNCHANGED <<vars, sendvars, drawv, c9vars>>
     \/ part = "recv" /\ Next /\ UNCHANGED <<numvars, sendvars, drawv, c9vars>>
     \/ part = "send" /\ SendNext /\ UNCHANGED <<numvars, vars, drawv, c9vars>>
     \/ part = "draw" /\ DrawNext /\ UNCHANGED <<numvars, vars, sendvars, c9vars>>
     \/ part = "c9" /\ C9Next /\ UNCHANGED <<numvars, vars, sendvars, drawv>>

(* The fairness is that of SendBuf and DrawCopy; none of these actions can *)
(* happen in a behaviour of another part.                                  *)
MCSpec ==
  /\ MCInit /\ [][MCNext]_<<part, numvars, vars, sendvars, drawv, c9vars>>
  /\ WF_sendvars(Step)
  /\ WF_sendvars(\E n \in 1 .. CAP : SrvRead(n))
  /\ WF_drawv(DrawPiece)
=============================================================================
