-------------------------------- MODULE Fs9p --------------------------------
(***************************************************************************)
(* The 9P client of fs.c, driven by the main loop of wl9.c, and the file   *)
(* server at the other end of the pipe.                                    *)
(*                                                                         *)
(* wl9 is single threaded but not sequential: requests are posted and      *)
(* waited for later (drawcopy, winnew), left to a callback (fsasync), or   *)
(* flushed (fsflush), the server answers in any order, and whoever waits   *)
(* reads the answers of all the others.  A message is the unit of every    *)
(* transfer here; bytes are the matter of RecvBuf and SendBuf.              *)
(***************************************************************************)
EXTENDS Integers, Sequences, SequencesExt

CONSTANTS
  MaxTag,    \* model bound: tags that can be in use at once
  Reader,    \* the callbacks with their arguments
  None,      \* no callback
  MaxOps     \* model bound: operations in one turn of the main loop

ASSUME MaxTagAssumption == MaxTag \in Nat
ASSUME NoneAssumption == None \notin Reader
ASSUME MaxOpsAssumption == MaxOps \in Nat

Tag == 0 .. MaxTag - 1
NOTAG == -1      \* 0xffff, never handed out

(* A request; its reply is represented by the request it answers.  The     *)
(* fields for and old are the caller's intent: the reader it will register *)
(* for the reply, and the tag that a Tflush names.                         *)
Message ==
  [op : {"io", "flush"}, tag : Tag, for : Reader \cup {None},
   old : Tag \cup {NOTAG}]

VARIABLES
  inuse,     \* aux->tag: the tags that numget has handed out
  cb,        \* aux->cb: the callback of each tag
  queue,     \* aux->queue: replies not dispatched, the newest first
  tx,        \* requests the server has not taken yet ...
  nsent,     \* ... of which so many have left wbuf
  srv,       \* requests the server is working on
  rx,        \* replies not yet handed to r() ...
  nread,     \* ... of which so many are in rbuf
  pc,        \* where the program is, see PC
  cur,       \* fsdispatch: tag of the reply whose callback runs, or NOTAG
  fn,        \* the callback that runs
  wtag,      \* fswait: the tag it waits for
  wold,      \* fsflush: its oldtag
  flushing,  \* fswait was called by fsflush
  posted,    \* tags the running handler may still wait for
  ops,       \* operations since the last poll
  ev,        \* event sources that epoll reported and are not handled yet
  mask,      \* events asked of the 9P descriptor
  leaving    \* the destructors of clients that went run

client  == <<inuse, cb, queue>>
wbufv   == <<tx, nsent>>
rbufv   == <<rx, nread>>
waitv   == <<wtag, wold, flushing>>
loopv   == <<ev, mask, leaving>>
callv   == <<cur, fn, posted>>
vars    == <<client, wbufv, rbufv, srv, pc, callv, waitv, ops, loopv>>

PC == {"flush",      \* wl_display_flush_clients
       "poll",       \* epoll_wait in wl_event_loop_dispatch
       "events",     \* wl_event_loop_dispatch calls the event handlers
       "fsreadR",    \* fsready has called fsreadR
       "fsdispatch", \* fsdispatch takes replies off the queue
       "run",        \* a Wayland request handler, a destructor or a reader runs
       "search",     \* fswait looks for the reply in the queue
       "fswait"}     \* fswait reads from the server

TagsIn(s) == {m.tag : m \in ToSet(s)}

Init ==
  /\ inuse = {} /\ cb = [t \in Tag |-> None] /\ queue = <<>>
  /\ tx = <<>> /\ nsent = 0 /\ srv = {} /\ rx = <<>> /\ nread = 0
  /\ pc = "poll" /\ cur = NOTAG /\ fn = None /\ posted = {} /\ ops = 0
  /\ wtag = NOTAG /\ wold = NOTAG /\ flushing = FALSE
  /\ ev = {} /\ mask = {"readable"} /\ leaving = FALSE

-----------------------------------------------------------------------------
(* The main loop.                                                          *)

(* wl_display_flush_clients destroys the clients that it cannot write to.  *)
DestructorsStart ==
  /\ pc = "flush"
  /\ leaving' = TRUE
  /\ pc' = "run"
  /\ UNCHANGED <<client, wbufv, rbufv, srv, callv, waitv, ops, ev, mask>>

ClientsFlushed ==
  /\ pc = "flush"
  /\ pc' = "poll"
  /\ UNCHANGED <<client, wbufv, rbufv, srv, callv, waitv, ops, loopv>>

(* The descriptor is watched level triggered: it is readable while there   *)
(* is something in the pipe, whatever rbuf holds.  It can be full.         *)
Poll(events) ==
  /\ pc = "poll"
  /\ events # {}
  /\ "readable" \in events <=> nread < Len(rx)
  /\ "writable" \in events => "writable" \in mask
  /\ ev' = events
  /\ pc' = "events"
  /\ UNCHANGED <<client, wbufv, rbufv, srv, callv, waitv, ops, mask, leaving>>

(* A client has sent a request: its handler runs.                          *)
HandlerStarts ==
  /\ pc = "events"
  /\ "client" \in ev
  /\ ev' = ev \ {"client"}
  /\ pc' = "run"
  /\ UNCHANGED <<client, wbufv, rbufv, srv, callv, waitv, ops, mask, leaving>>

(* write9p without block may stop at any point with EAGAIN.                *)
WriteSome == nsent' \in nsent .. Len(tx)

(* fsready: fswriteT if writable, then fsreadR if readable.  The events    *)
(* are those of the poll; a handler may have run since.                    *)
FsReady ==
  /\ pc = "events"
  /\ ev \cap {"readable", "writable"} # {}
  /\ IF "writable" \in ev THEN WriteSome ELSE UNCHANGED nsent
  /\ pc' = IF "readable" \in ev THEN "fsreadR" ELSE "events"
  /\ ev' = ev \ {"readable", "writable"}
  /\ UNCHANGED <<client, tx, rbufv, srv, callv, waitv, ops, mask, leaving>>

EventsEnd ==
  /\ pc = "events"
  /\ ev = {}
  /\ pc' = "fsdispatch"
  /\ UNCHANGED <<client, wbufv, rbufv, srv, callv, waitv, ops, loopv>>

-----------------------------------------------------------------------------
(* Receiving.                                                              *)

(* read9p fills rbuf with what the pipe holds.                             *)
Read9p ==
  /\ pc \in {"fsreadR", "fswait"}
  /\ nread = 0
  /\ nread' \in 1 .. Len(rx)
  /\ UNCHANGED <<client, wbufv, rx, srv, pc, callv, waitv, ops, loopv>>

C9procRereads ==
  /\ nread > 0
  /\ rx' = Tail(rx)
  /\ UNCHANGED nread

(* c9proc of the next message in rbuf; r() puts it in front of the queue.  *)
C9proc ==
  /\ nread > 0
  /\ rx' = Tail(rx)
  /\ nread' = nread - 1

FsReadReply ==
  /\ pc = "fsreadR"
  /\ C9proc
  /\ queue' = Cons(Head(rx), queue)
  /\ UNCHANGED <<inuse, cb, wbufv, srv, pc, callv, waitv, ops, loopv>>

(* EAGAIN: nothing in rbuf and nothing in the pipe.                        *)
FsReadAgain ==
  /\ pc = "fsreadR"
  /\ rx = <<>>
  /\ pc' = "events"
  /\ UNCHANGED <<client, wbufv, rbufv, srv, callv, waitv, ops, loopv>>

-----------------------------------------------------------------------------
(* fsdispatch.                                                             *)

UnregisterNothing(tag) == cb

(* aux->cb[tag].fn = NULL, in fsdispatch and in fsflush.                   *)
Unregister(tag) == [t \in Tag |-> IF t = tag THEN None ELSE cb[t]]

DispatchCallback ==
  /\ pc = "fsdispatch"
  /\ queue # <<>>
  /\ LET tag == Head(queue).tag
     IN  /\ cb[tag] # None
         /\ cb' = Unregister(tag)
         /\ fn' = cb[tag]
         /\ cur' = tag
  /\ queue' = Tail(queue)
  /\ pc' = "run"
  /\ UNCHANGED <<inuse, wbufv, rbufv, srv, posted, waitv, ops, loopv>>

UnclaimedKeepsTag ==
  /\ pc = "fsdispatch"
  /\ queue # <<>>
  /\ cb[Head(queue).tag] = None
  /\ queue' = Tail(queue)
  /\ UNCHANGED <<inuse, cb, wbufv, rbufv, srv, pc, callv, waitv, ops, loopv>>

(* A reply nobody waits for, such as those of drawcopy's earlier writes.   *)
DispatchUnclaimed ==
  /\ pc = "fsdispatch"
  /\ queue # <<>>
  /\ cb[Head(queue).tag] = None
  /\ inuse' = inuse \ {Head(queue).tag}
  /\ queue' = Tail(queue)
  /\ UNCHANGED <<cb, wbufv, rbufv, srv, pc, callv, waitv, ops, loopv>>

NeverWritable == {"readable"}

(* The main loop asks for a writable event if something is left in wbuf.   *)
EventMask ==
  {"readable"} \cup {e \in {"writable"} : nsent' < Len(tx)}

DispatchEndsEarly ==
  /\ pc = "fsdispatch"
  /\ WriteSome
  /\ mask' = EventMask
  /\ ops' = 0
  /\ pc' = "flush"
  /\ UNCHANGED <<client, tx, rbufv, srv, callv, waitv, ev, leaving>>

(* The queue is empty: write what can be written, and the loop turns.      *)
DispatchEnds ==
  /\ pc = "fsdispatch"
  /\ queue = <<>>
  /\ WriteSome
  /\ mask' = EventMask
  /\ ops' = 0
  /\ pc' = "flush"
  /\ UNCHANGED <<client, tx, rbufv, srv, callv, waitv, ev, leaving>>

HandlerReturns ==
  /\ pc = "run"
  /\ cur = NOTAG
  /\ posted' = {}
  /\ leaving' = FALSE
  /\ pc' = IF leaving THEN "poll" ELSE "events"
  /\ UNCHANGED <<client, wbufv, rbufv, srv, cur, fn, waitv, ops, ev, mask>>

(* The tag of the reply is freed when its callback has returned.           *)
CallbackReturns ==
  /\ pc = "run"
  /\ cur # NOTAG
  /\ inuse' = inuse \ {cur}
  /\ cur' = NOTAG
  /\ fn' = None
  /\ posted' = {}
  /\ pc' = "fsdispatch"
  /\ UNCHANGED <<cb, queue, wbufv, rbufv, srv, waitv, ops, loopv>>

-----------------------------------------------------------------------------
(* Sending.  A handler or a reader issues these in any order; destructors  *)
(* leave nothing to be waited for.                                         *)

Op ==
  /\ pc = "run"
  /\ ops < MaxOps
  /\ ops' = ops + 1

(* newtag takes the smallest free tag (numget); cb is as it was left.      *)
NewTag(t) ==
  /\ t \in Tag \ inuse
  /\ \A u \in 0 .. t - 1 : u \in inuse
  /\ inuse' = inuse \cup {t}

(* T: begin sends all of wbuf first if it has no room for the message.     *)
Send(m) ==
  /\ NewTag(m.tag)
  /\ nsent' \in {nsent, Len(tx)}
  /\ tx' = Append(tx, m)

Request(t, r) == [op |-> "io", tag |-> t, for |-> r, old |-> NOTAG]

(* fswrite, fsread, fsopen or fswalk with a tag pointer.                   *)
Post(t) ==
  /\ Op /\ ~ leaving
  /\ Send(Request(t, None))
  /\ posted' = posted \cup {t}
  /\ UNCHANGED <<cb, queue, srv, rbufv, pc, cur, fn, waitv, loopv>>

(* fsread with a tag pointer, and fsasync for that tag.  A reader keeps at *)
(* most one read outstanding: it is armed when its window is set up and    *)
(* then by itself.                                                         *)
Arm(t, r) ==
  /\ Op /\ ~ leaving
  /\ \A u \in Tag : cb[u] # r
  /\ Send(Request(t, r))
  /\ cb' = [cb EXCEPT ![t] = r]
  /\ UNCHANGED <<queue, srv, rbufv, pc, callv, waitv, loopv>>

(* A call without tag pointer: the request and at once fswait, which       *)
(* starts by sending all of wbuf.                                          *)
Call(t) ==
  /\ Op
  /\ NewTag(t)
  /\ tx' = Append(tx, Request(t, None))
  /\ nsent' = Len(tx')
  /\ wtag' = t
  /\ flushing' = FALSE
  /\ pc' = "search"
  /\ UNCHANGED <<cb, queue, srv, rbufv, callv, wold, loopv>>

(* fswait for a request posted earlier.                                    *)
Wait(t) ==
  /\ Op
  /\ t \in posted
  /\ nsent' = Len(tx)
  /\ wtag' = t
  /\ posted' = posted \ {t}
  /\ flushing' = FALSE
  /\ pc' = "search"
  /\ UNCHANGED <<client, tx, srv, rbufv, cur, fn, wold, loopv>>

(* fsflush of a read that has a reader, or of NOTAG (toplevel_destroy does *)
(* not tell a window without an outstanding read from one with).           *)
Flush(t, old) ==
  /\ Op
  /\ cur = NOTAG
  /\ old # NOTAG => cb[old] # None
  /\ NewTag(t)
  /\ tx' = Append(tx, [op |-> "flush", tag |-> t, for |-> None, old |-> old])
  /\ nsent' = Len(tx')
  /\ wtag' = t
  /\ wold' = old
  /\ flushing' = TRUE
  /\ pc' = "search"
  /\ UNCHANGED <<cb, queue, srv, rbufv, callv, loopv>>

-----------------------------------------------------------------------------
(* fswait.                                                                 *)

UnlinkNothing(q, t) == q

(* The loops of fswait and fsflush over the queue: unlink the first reply  *)
(* with the tag, if there is one.                                          *)
Unlink(q, t) == RemoveFirstMatch(q, LAMBDA m : m.tag = t)

(* The reply awaited has been unlinked, rest is the queue without it: its  *)
(* tag is freed, and fsflush, its only caller to do more, frees oldtag,    *)
(* unregisters the callback and drops the reply that came before Rflush.   *)
Awaited(rest) ==
  /\ pc' = "run"
  /\ wtag' = NOTAG
  /\ flushing' = FALSE
  /\ wold' = NOTAG
  /\ IF flushing
       THEN /\ inuse' = inuse \ {wtag, wold}
            /\ cb' = Unregister(wold)
            /\ queue' = Unlink(rest, wold)
       ELSE /\ inuse' = inuse \ {wtag}
            /\ queue' = rest
            /\ UNCHANGED cb

(* The reply is in the queue.                                              *)
FswaitQueued ==
  /\ pc = "search"
  /\ wtag \in TagsIn(queue)
  /\ Awaited(Unlink(queue, wtag))
  /\ UNCHANGED <<wbufv, rbufv, srv, callv, ops, loopv>>

FswaitSkipsQueue ==
  /\ pc = "search"
  /\ pc' = "fswait"
  /\ UNCHANGED <<client, wbufv, rbufv, srv, callv, waitv, ops, loopv>>

FswaitNotQueued ==
  /\ pc = "search"
  /\ wtag \notin TagsIn(queue)
  /\ pc' = "fswait"
  /\ UNCHANGED <<client, wbufv, rbufv, srv, callv, waitv, ops, loopv>>

(* One reply is processed and only the head of the queue is looked at: the *)
(* reply that was just put there.                                          *)
FswaitFound ==
  /\ pc = "fswait"
  /\ C9proc
  /\ Head(rx).tag = wtag
  /\ Awaited(queue)
  /\ UNCHANGED <<wbufv, srv, callv, ops, loopv>>

FswaitOther ==
  /\ pc = "fswait"
  /\ C9proc
  /\ Head(rx).tag # wtag
  /\ queue' = Cons(Head(rx), queue)
  /\ UNCHANGED <<inuse, cb, wbufv, srv, pc, callv, waitv, ops, loopv>>

-----------------------------------------------------------------------------
(* The file server: takes requests in order, answers them in any order.    *)

SrvTake ==
  /\ nsent > 0
  /\ srv' = srv \cup {Head(tx)}
  /\ tx' = Tail(tx)
  /\ nsent' = nsent - 1
  /\ UNCHANGED <<client, rbufv, pc, callv, waitv, ops, loopv>>

SrvReply(m) ==
  /\ m \in srv
  /\ m.op = "io"
  /\ srv' = srv \ {m}
  /\ rx' = Append(rx, m)
  /\ UNCHANGED <<client, wbufv, nread, pc, callv, waitv, ops, loopv>>

(* Rflush: the old request, if still there, will not be answered any more. *)
SrvFlush(m) ==
  /\ m \in srv
  /\ m.op = "flush"
  /\ srv' = {n \in srv : n # m /\ n.tag # m.old}
  /\ rx' = Append(rx, m)
  /\ UNCHANGED <<client, wbufv, nread, pc, callv, waitv, ops, loopv>>

-----------------------------------------------------------------------------
Run ==
  \/ HandlerReturns
  \/ CallbackReturns
  \/ \E t \in Tag : Post(t) \/ Call(t) \/ Wait(t)
  \/ \E t \in Tag, r \in Reader : Arm(t, r)
  \/ \E t \in Tag, old \in Tag \cup {NOTAG} : Flush(t, old)

Fswait == FswaitQueued \/ FswaitNotQueued \/ FswaitFound \/ FswaitOther

Fsdispatch == DispatchCallback \/ DispatchUnclaimed \/ DispatchEnds

EventSource == {"readable", "writable", "client"}

Program ==
  \/ DestructorsStart \/ ClientsFlushed \/ HandlerStarts \/ FsReady \/ EventsEnd
  \/ Read9p \/ FsReadReply \/ FsReadAgain
  \/ Run \/ Fswait \/ Fsdispatch

Server == SrvTake \/ \E m \in srv : SrvReply(m) \/ SrvFlush(m)

Next == Program \/ Server \/ \E events \in SUBSET EventSource : Poll(events)

Spec == Init /\ [][Next]_vars

-----------------------------------------------------------------------------
TypeOK ==
  /\ inuse \subseteq Tag
  /\ cb \in [Tag -> Reader \cup {None}]
  /\ queue \in Seq(Message) /\ tx \in Seq(Message) /\ rx \in Seq(Message)
  /\ srv \subseteq Message
  /\ nsent \in 0 .. Len(tx) /\ nread \in 0 .. Len(rx)
  /\ pc \in PC
  /\ cur \in Tag \cup {NOTAG}
  /\ fn \in Reader \cup {None}
  /\ wtag \in Tag \cup {NOTAG} /\ wold \in Tag \cup {NOTAG}
  /\ flushing \in BOOLEAN
  /\ posted \subseteq Tag
  /\ ops \in 0 .. MaxOps
  /\ ev \subseteq EventSource
  /\ mask \subseteq {"readable", "writable"} /\ leaving \in BOOLEAN

(* The messages on their way, wherever they are.                           *)
InFlight == ToSet(tx) \cup srv \cup ToSet(rx) \cup ToSet(queue)

(* A tag identifies one message: whatever is posted, waited for, flushed   *)
(* and dispatched in whatever order, no two messages on their way share a  *)
(* tag, none has the tag of the reply whose callback runs, and the tag of  *)
(* each is in use.  Were a tag freed too early (fsflush, fsdispatch), a    *)
(* reply could be taken for that of a later request.                       *)
OneMessagePerTag == \A m, n \in InFlight : m.tag = n.tag => m = n

OnePlacePerMessage ==
  /\ IsInjective(tx) /\ IsInjective(rx) /\ IsInjective(queue)
  /\ ToSet(tx) \cap (srv \cup ToSet(rx) \cup ToSet(queue)) = {}
  /\ srv \cap (ToSet(rx) \cup ToSet(queue)) = {}
  /\ ToSet(rx) \cap ToSet(queue) = {}

TagsInUse == \A m \in InFlight : m.tag \in inuse \ {cur}

TagsUnique == OneMessagePerTag /\ OnePlacePerMessage /\ TagsInUse

(* aux->cb holds for each message on its way the callback that its request *)
(* was made for, and nothing for a free tag: newtag does not clear cb, so  *)
(* a callback left behind would be run with the reply of another request.  *)
CallbackMatches ==
  /\ \A m \in InFlight : cb[m.tag] = m.for
  /\ \A t \in Tag \ inuse : cb[t] = None

(* The loop of fswait only ever looks at the head of the queue.  Whatever  *)
(* is in the queue below it is not what it waits for, or it would wait for *)
(* ever.                                                                   *)
WaitNotBuried == pc = "fswait" => wtag \notin TagsIn(queue)

(* No tag is lost: one that is in use belongs to a message on its way, to  *)
(* the reply whose callback runs, or to a request that is being flushed.   *)
NoTagLost ==
  \A t \in inuse :
    \/ \E m \in InFlight : m.tag = t
    \/ t = cur
    \/ flushing /\ t = wold

(* The readers see AsyncReads: a reader runs once per read, with the reply *)
(* to it, never beside another, and never after fsflush has returned.      *)
ForIn(s) == {m.for : m \in ToSet(s)} \ {None}

Async == INSTANCE AsyncReads WITH
  armed    <- {cb[t] : t \in Tag} \ {None},
  answered <- ForIn(rx) \cup ForIn(queue),
  running  <- fn

ImplementsAsyncReads == Async!Spec

-----------------------------------------------------------------------------
(* The program keeps going, epoll reports the descriptor, the pipe drains, *)
(* and the server takes requests and answers all but the blocking reads    *)
(* of a reader.  Clients need not send anything.                           *)
PollDescriptor ==
  \E events \in SUBSET EventSource :
    Poll(events) /\ events \cap {"readable", "writable"} # {}

PollWritable ==
  \E events \in SUBSET EventSource : Poll(events) /\ "writable" \in events

SrvAnswer ==
  \E m \in srv : m.for = None /\ (SrvReply(m) \/ SrvFlush(m))

Fairness ==
  /\ WF_vars(Program)
  /\ WF_vars(PollDescriptor)
  /\ SF_vars(PollWritable)
  /\ SF_vars(FsReady /\ nsent' > nsent)
  /\ WF_vars(SrvTake)
  /\ WF_vars(SrvAnswer)

FairSpec == Spec /\ Fairness

(* fswait returns: its request reaches the server and the reply is seen    *)
(* among those of other requests.                                          *)
WaitEnds == pc = "fswait" ~> pc # "fswait"

(* A posted request does not stay in wbuf, although the program goes back  *)
(* to epoll with wbuf not empty.                                           *)
Unsent(t) == \E i \in nsent + 1 .. Len(tx) : tx[i].tag = t

RequestSent == \A t \in Tag : Unsent(t) ~> ~ Unsent(t)

(* A reply taken off the pipe for a reader is dispatched or flushed, also  *)
(* when it was some fswait that took it and newer ones pile up on it.  The *)
(* exception is a fswait of a destructor that wl_display_flush_clients     *)
(* runs, after fsdispatch: the reply stays where it is while epoll sleeps, *)
(* for ever if neither server nor client has another word (wl9.c:2118).    *)
QueuedHandled ==
  \A r \in Reader :
    r \in ForIn(queue) ~> (r \notin ForIn(queue) \/ [](pc = "poll"))

(* The comment of c9.h on the callback r: "called every time a new         *)
(* R-message is received".  fswait returns as soon as it has its reply; if *)
(* the read brought more replies they stay in rbuf, and epoll, which       *)
(* watches the descriptor, does not know of them.                          *)
ReceivedIsHandled == nread > 0 ~> nread = 0
=============================================================================
