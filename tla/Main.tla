------------------------------- MODULE Main --------------------------------
(***************************************************************************)
(* main of wl9.c: the calls that set wl9 up, launch, the first window of   *)
(* the program it launches, and when the main loop ends.                   *)
(*                                                                         *)
(* Until the loop runs every call is waited for, and main returns 1 when   *)
(* one fails.  The loop's traffic with rio is Fs9p; here are its clients.  *)
(***************************************************************************)
EXTENDS Integers, Sequences, FiniteSetsExt

CONSTANTS
  Addr,         \* where a struct wl_client can be
  PathLens,     \* numbers of names in $wsys
  MaxWindows,   \* model bound: windows of a client
  MaxClients    \* model bound: clients that connect

None == "none"

ASSUME MainAssumption ==
  /\ None \notin Addr
  /\ PathLens \subseteq Nat \ {0} /\ MaxWindows \in Nat /\ MaxClients \in Nat

VARIABLES
  argc, dflag,  \* there is a program to launch; -d was given
  step,         \* of the calls, the next one
  fid,          \* the variables that hold a fid
  out,          \* termaux.fid: numbers handed out
  named,        \* server: what each fid names
  opened,       \* server: fids that are open
  child,        \* the client of the program, or None
  conn,         \* libwayland: the client at each address
  hungup,       \* clients that closed their end
  owed,         \* clients with something for them in libwayland's buffers
  wins,         \* windows each client has had
  took,         \* clients and windows that took over the window of exportfs
  served,       \* clients that have been there
  mpc           \* "version", "setup", "launch", "loop", "flush", "dispatch" in
                \* epoll_wait, "events", "exited"

setupv == <<step, fid, out, named, opened>>
clientsv == <<child, conn, hungup, owed, wins, took, served>>
mainv == <<argc, dflag, setupv, clientsv, mpc>>

Fid == 0 .. 7

(* Variables that main has no value for yet are 0 as all static ones.      *)
MainInit ==
  /\ argc \in BOOLEAN /\ dflag \in BOOLEAN /\ step = 1 /\ mpc = "version"
  /\ fid = [x \in {"root", "env", "wsys", "snarf", "ctl", "data", "kbmap"} |-> 0]
  /\ out = {} /\ named = [f \in Fid |-> None] /\ opened = {}
  /\ child = None /\ conn = [a \in Addr |-> None] /\ hungup = {} /\ owed = {}
  /\ wins = [a \in Addr |-> 0] /\ took = <<>> /\ served = 0

-----------------------------------------------------------------------------
(* Start-up.                                                               *)

Call(op, x, from, n) == [op |-> op, fid |-> x, from |-> from, names |-> n]

Drawinit ==
  << Call("walk", "ctl", "data", 3), Call("open", "ctl", None, 0),
     Call("read", "ctl", None, 0), Call("walk", "data", "root", 4),
     Call("open", "data", None, 0) >>

(* The number of names in $wsys is not known before it is read.            *)
Calls(n) ==
  << Call("attach", "root", None, 0),
     Call("walk", "env", "root", 2), Call("open", "env", None, 0),
     Call("read", "env", None, 0), Call("walk", "wsys", "root", n),
     Call("walk", "snarf", "root", 2), Call("open", "snarf", None, 0) >>
  \o (IF dflag THEN <<>> ELSE Drawinit) \o
  << Call("walk", "kbmap", "root", 2), Call("open", "kbmap", None, 0),
     Call("read", "kbmap", None, 0), Call("clunk", "kbmap", None, 0),
     Call("display", None, None, 0) >>

(* splitpath leaves one of C9maxpathel names for the NULL, and refuses to  *)
(* go on behind the last but one.                                          *)
SplitFits(n) == n + 1 < 16

NewFid == Min(Fid \ out)

(* fswalk takes an Rwalk with too few names for a success; the server has  *)
(* made no fid then.                                                       *)
WalkNames(c) == {c.fid} \cup {x \in {None} : c.names > 1}

OpenBlindly(f) == TRUE

OpenWorks(f) == named[f] # None

Works(c) ==
  CASE c.op = "attach" ->
         /\ fid' = [fid EXCEPT ![c.fid] = NewFid] /\ out' = out \cup {NewFid}
         /\ named' = [named EXCEPT ![NewFid] = c.fid] /\ UNCHANGED opened
    [] c.op = "walk" ->
         /\ SplitFits(c.names) /\ named[fid[c.from]] # None
         /\ fid' = [fid EXCEPT ![c.fid] = NewFid] /\ out' = out \cup {NewFid}
         /\ \E x \in WalkNames(c) : named' = [named EXCEPT ![NewFid] = x]
         /\ UNCHANGED opened
    [] c.op = "open" ->
         /\ OpenWorks(fid[c.fid])
         /\ opened' = opened \cup {fid[c.fid]} /\ UNCHANGED <<fid, out, named>>
    [] c.op = "clunk" ->
         /\ named' = [named EXCEPT ![fid[c.fid]] = None]
         /\ opened' = opened \ {fid[c.fid]} /\ UNCHANGED <<fid, out>>
    [] c.op \in {"read", "display"} -> UNCHANGED <<fid, out, named, opened>>

(* main does not look at what fsinit returns: also when rio refuses the    *)
(* version the calls begin.                                                *)
Fsinit ==
  /\ mpc = "version" /\ mpc' = "setup"
  /\ UNCHANGED <<argc, dflag, setupv, clientsv>>

Setup(n) ==
  /\ mpc = "setup" /\ Works(Calls(n)[step])
  /\ step' = step + 1
  /\ mpc' = IF step = Len(Calls(n)) THEN "launch" ELSE "setup"
  /\ UNCHANGED <<argc, dflag, clientsv>>

(* A call fails, or fswait ends wl9 over a reply that it cannot use.       *)
SetupFails ==
  /\ mpc \in {"version", "setup"} /\ mpc' = "exited"
  /\ UNCHANGED <<argc, dflag, setupv, clientsv>>

-----------------------------------------------------------------------------
(* Clients.                                                                *)

NoProgram ==
  /\ mpc = "launch" /\ ~ argc /\ mpc' = "loop"
  /\ UNCHANGED <<argc, dflag, setupv, clientsv>>

Launch(a) ==
  /\ mpc = "launch" /\ argc
  /\ conn' = [conn EXCEPT ![a] = "launched"] /\ child' = a
  /\ served' = 1 /\ mpc' = "loop"
  /\ UNCHANGED <<argc, dflag, setupv, hungup, owed, wins, took>>

LaunchFails ==
  /\ mpc = "launch" /\ argc /\ mpc' = "exited"
  /\ UNCHANGED <<argc, dflag, setupv, clientsv>>

ChildStays(as) == child

(* child_destroyed *)
ChildDestroyed(as) == IF child \in as THEN None ELSE child

(* libwayland destroys clients.                                            *)
Destroy(as) ==
  /\ conn' = [a \in Addr |-> IF a \in as THEN None ELSE conn[a]]
  /\ wins' = [a \in Addr |-> IF a \in as THEN 0 ELSE wins[a]]
  /\ hungup' = hungup \ as /\ child' = ChildDestroyed(as)

(* The condition of the loop.                                              *)
Turn ==
  /\ mpc = "loop"
  /\ mpc' = IF argc /\ \A a \in Addr : conn[a] = None THEN "exited" ELSE "flush"
  /\ UNCHANGED <<argc, dflag, setupv, clientsv>>

(* wl_display_flush_clients destroys a client that has something to get    *)
(* and is not there any more; one whose socket is full gets it later.      *)
FlushClients ==
  /\ mpc = "flush" /\ mpc' = "dispatch"
  /\ Destroy(hungup \cap owed)
  /\ owed' \in SUBSET (owed \ hungup)
  /\ UNCHANGED <<argc, dflag, setupv, took, served>>

Dispatching == mpc \in {"dispatch", "events"} /\ mpc' = "events"

Connect(a) ==
  /\ Dispatching /\ conn[a] = None /\ served < MaxClients
  /\ conn' = [conn EXCEPT ![a] = "other"] /\ served' = served + 1
  /\ UNCHANGED <<argc, dflag, setupv, child, hungup, owed, wins, took>>

Disconnected(a) ==
  /\ Dispatching /\ a \in hungup /\ Destroy({a}) /\ owed' = owed \ {a}
  /\ UNCHANGED <<argc, dflag, setupv, took, served>>

ChildIsDone == child' = None

(* Any other request that is answered with an event.                       *)
Request(a) ==
  /\ Dispatching /\ conn[a] # None /\ a \notin hungup
  /\ owed' = owed \cup {a}
  /\ UNCHANGED <<argc, dflag, setupv, child, conn, hungup, wins, took, served>>

(* winnew, for the client of the program: the next window of it is like    *)
(* any other, and even this one's next attempt if only the walk worked.    *)
Winnew(a, ok) ==
  /\ Dispatching /\ conn[a] # None /\ a \notin hungup /\ wins[a] < MaxWindows
  /\ wins' = IF ok THEN [wins EXCEPT ![a] = @ + 1] ELSE wins
  /\ IF a = child
     THEN /\ ChildIsDone \/ (~ ok /\ UNCHANGED child)
          /\ took' = IF ok THEN Append(took, <<conn[a], wins[a] + 1>>) ELSE took
     ELSE UNCHANGED <<child, took>>
  /\ owed' = owed \cup {a}
  /\ UNCHANGED <<argc, dflag, setupv, conn, hungup, served>>

(* A reply of rio to a read of a window, whose client may get an event.    *)
Reply9p(a) ==
  /\ Dispatching /\ wins[a] > 0
  /\ owed' \in {owed, owed \cup {a}}
  /\ UNCHANGED <<argc, dflag, setupv, child, conn, hungup, wins, took, served>>

DispatchReturns ==
  /\ mpc = "events" /\ mpc' = "loop"
  /\ UNCHANGED <<argc, dflag, setupv, clientsv>>

HangUp(a) ==
  /\ conn[a] # None /\ a \notin hungup /\ mpc # "exited"
  /\ hungup' = hungup \cup {a}
  /\ UNCHANGED <<argc, dflag, setupv, child, conn, owed, wins, took, served, mpc>>

MainNext ==
  \/ \E n \in PathLens : Setup(n)
  \/ Fsinit \/ SetupFails \/ NoProgram \/ LaunchFails
  \/ Turn \/ FlushClients \/ DispatchReturns
  \/ \E a \in Addr :
       \/ Launch(a) \/ Connect(a) \/ Disconnected(a) \/ HangUp(a)
       \/ Request(a) \/ Reply9p(a)
       \/ \E ok \in BOOLEAN : Winnew(a, ok)

(* The loop goes on, and epoll reports a client that is gone.              *)
MainSpec ==
  /\ MainInit /\ [][MainNext]_mainv
  /\ WF_mainv(Turn) /\ WF_mainv(FlushClients) /\ WF_mainv(DispatchReturns)
  /\ \A a \in Addr : SF_mainv(Disconnected(a))

-----------------------------------------------------------------------------
Running == mpc \notin {"version", "setup", "exited"}

Names(x) == named[fid[x]] = x

(* Of what the loop works with, every fid is the file it should be, and    *)
(* open, although fswalk also takes walks that got half way for good and   *)
(* drawinit starts its first from the data fid, which is 0 as root is.  It *)
(* is not for $wsys, which is never opened (wl9.c:2048-2078, 1754), nor    *)
(* for data with -d.  The server has no fid that the pool has free.        *)
FidsReady ==
  /\ Running =>
       /\ Names("root") /\ Names("snarf") /\ fid["snarf"] \in opened
       /\ named[fid["wsys"]] \in {"wsys", None}
       /\ ~ dflag => \A x \in {"ctl", "data"} : Names(x) /\ fid[x] \in opened
  /\ \A f \in Fid : named[f] # None => f \in out

(* The window of exportfs is taken over at most once, and by the first     *)
(* window of the program that was launched: never by a client that has its *)
(* memory after it (README.md:28; wl9.c:713-719, 1954-1982).               *)
OnlyChildTakesOver ==
  /\ took \in {<<>>, << <<"launched", 1>> >>}
  /\ child # None => conn[child] = "launched"

(* README.md:30: wl9 will stop automatically when it has no clients.       *)
StopsWithoutClients ==
  (mpc \in {"loop", "flush", "dispatch", "events"} /\ argc /\ \A a \in Addr : conn[a] = None)
    ~> (mpc = "exited" \/ \E a \in Addr : conn[a] # None)
=============================================================================
