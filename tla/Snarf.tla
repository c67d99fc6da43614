------------------------------- MODULE Snarf -------------------------------
(***************************************************************************)
(* The selection in wl9.c: set_selection and snarfput, which copy what a   *)
(* client offers to /dev/snarf, and offer_receive and snarfget, which copy *)
(* /dev/snarf to a client.  Any number of transfers run at once, a read or *)
(* a reply of each at a time.  What the rest of wl9 does to them is to     *)
(* wait for the server, and to be woken by it.                             *)
(*                                                                         *)
(* Text goes in chunks, numbered from 1 in each selection: what one read() *)
(* of a pipe and one Rread return.                                         *)
(***************************************************************************)
EXTENDS Integers, Sequences

CONSTANTS
  Sources,     \* wl_data_sources, each made the selection at most once
  Gets,        \* wl_data_offer.receive requests
  MaxChunks,   \* model bound: chunks of a selection
  PipeSize     \* chunks that fit in a pipe

(* Replies to a read, besides a chunk <<source, number>>.                  *)
Wait == <<>>

End == <<"end">>

Failed == <<"error">>

ASSUME SizeAssumption == MaxChunks \in Nat /\ PipeSize \in Nat \ {0}

VARIABLES
  source,     \* wl_data_source resources that are there
  put,        \* struct snarfput: "new", "running" or "freed"
  events,     \* wl9: puts whose pipe the event loop watches
  written,    \* clients: chunks written to the pipe of each source
  read,       \* wl9: chunks read from it
  closed,     \* clients: pipes they closed after the last chunk
  failed,     \* puts one of whose writes failed
  text,       \* server: what was written to the fid of each put
  snarf,      \* server: the text of /dev/snarf
  get,        \* struct snarfget: "new", "running" or "freed"
  offset,     \* get->offset, in chunks
  reply,      \* server: the reply to the read of each get
  late, due,  \* replies that wl9 has, but asleep, and that fsdispatch will see
  pipe,       \* chunks in the pipe of each get
  got,        \* clients: chunks read from it
  gone,       \* clients: pipes of gets whose other end they closed
  writing,    \* wl9: the get in write(), which blocks all of wl9
  up,         \* wl9 runs
  start,      \* the text of /dev/snarf when each paste began
  changed     \* pastes during which it was replaced

putv == <<source, put, events, written, read, closed, failed, text>>
taskv == <<late, due>>
getv == <<get, offset, reply, pipe, got, gone, writing>>
vars == <<putv, snarf, getv, taskv, up, start, changed>>

Init ==
  /\ source = {} /\ put = [s \in Sources |-> "new"] /\ events = {}
  /\ written = [s \in Sources |-> 0] /\ read = [s \in Sources |-> 0]
  /\ closed = {} /\ failed = {}
  /\ text = [s \in Sources |-> <<>>] /\ snarf = <<>>
  /\ get = [g \in Gets |-> "new"] /\ offset = [g \in Gets |-> 0]
  /\ reply = [g \in Gets |-> Wait] /\ late = {} /\ due = {}
  /\ pipe = [g \in Gets |-> <<>>] /\ got = [g \in Gets |-> <<>>] /\ gone = {}
  /\ writing = {} /\ up = TRUE
  /\ start = [g \in Gets |-> <<>>] /\ changed = {}

(* wl9 can take the next event.                                            *)
Serves == up /\ writing = {}

-----------------------------------------------------------------------------
(* Replies that wait for snarfget.  fswait takes what came with its own    *)
(* reply off the descriptor: what was before it goes to the queue, and     *)
(* what was behind it stays in rbuf, where epoll does not see it.          *)

Fresh == {g \in Gets : get[g] = "running" /\ reply[g] # Wait} \ (late \cup due)

(* A handler that waits: fsdispatch comes after it.                        *)
HandlerWaits ==
  /\ late' \in SUBSET Fresh
  /\ due' = due \cup late

(* The server's next word wakes the main loop, which then sees them all.   *)
Heard == late' = {} /\ due' = due \cup late

(* The rest of wl9: its handlers and its readers' replies, and the waits   *)
(* in wl_display_flush_clients, after which the main loop sleeps.          *)
Elsewhere ==
  /\ Serves
  /\ \E l \in SUBSET Fresh, d \in SUBSET late :
       late' = (late \ d) \cup l /\ due' = due \cup d
  /\ UNCHANGED <<putv, snarf, getv, up, start, changed>>

-----------------------------------------------------------------------------
(* To /dev/snarf.                                                          *)

CreateDataSource(s) ==
  /\ Serves /\ put[s] = "new" /\ s \notin source
  /\ source' = source \cup {s}
  /\ UNCHANGED <<put, events, written, read, closed, failed, text,
                 snarf, getv, taskv, up, start, changed>>

(* The walk or the open may fail: the source is then asked for text that   *)
(* nobody reads.  Nor does anybody if the event loop does not take the     *)
(* pipe, which nothing looks at; the put, its pipe and its fid then stay.  *)
(* No exit of this or of snarfput gives the number of the fid back, so     *)
(* that two puts never have the same one: text is by the put.  A source of *)
(* NULL, with which a client takes its selection back, is not modelled.    *)
SetSelection(s) ==
  /\ Serves /\ put[s] = "new" /\ s \in source
  /\ \/ put' = [put EXCEPT ![s] = "running"] /\ events' = events \cup {s}
     \/ put' = [put EXCEPT ![s] = "running"] /\ UNCHANGED events
     \/ put' = [put EXCEPT ![s] = "freed"] /\ UNCHANGED events
  /\ HandlerWaits
  /\ UNCHANGED <<source, written, read, closed, failed, text, snarf, getv, up, start, changed>>

(* Clients.  They write while they are asked to, close the pipe at the end *)
(* and may destroy a source, or die, at any time; after its put is freed,  *)
(* a source is used no more.                                               *)
WriteChunk(s) ==
  /\ up /\ put[s] = "running" /\ s \notin closed
  /\ written[s] < MaxChunks /\ written[s] - read[s] < PipeSize
  /\ written' = [written EXCEPT ![s] = @ + 1]
  /\ UNCHANGED <<source, put, events, read, closed, failed, text,
                 snarf, getv, taskv, up, start, changed>>

CloseSource(s) ==
  /\ up /\ put[s] = "running" /\ s \notin closed
  /\ closed' = closed \cup {s}
  /\ UNCHANGED <<source, put, events, written, read, failed, text,
                 snarf, getv, taskv, up, start, changed>>

DestroySource(s) ==
  /\ Serves /\ s \in source /\ put[s] # "freed"
  /\ source' = source \ {s}
  /\ UNCHANGED <<put, events, written, read, closed, failed, text,
                 snarf, getv, taskv, up, start, changed>>

PutTwice(s) == 0

PutAt(s) == read[s]

HasText(s) == read[s] < written[s]

(* snarfput with text; nobody looks whether the write succeeds.            *)
SnarfPut(s, ok) ==
  /\ Serves /\ s \in events /\ HasText(s)
  /\ read' = [read EXCEPT ![s] = @ + 1]
  /\ text' = IF ok THEN [text EXCEPT ![s] = Append(@, <<s, PutAt(s) + 1>>)] ELSE text
  /\ failed' = IF ok THEN failed ELSE failed \cup {s}
  /\ HandlerWaits
  /\ UNCHANGED <<source, put, events, written, closed, snarf, getv, up, start, changed>>

AtEndOfAll(s) == closed = Sources /\ read[s] = written[s]

AtEnd(s) == s \in closed /\ read[s] = written[s]

(* snarfput at the end of file, or after an error of read(): the text may  *)
(* be cut short.  rio takes it over when the fid is clunked.  Cancelled    *)
(* then goes to the source, which is freed memory if its client destroyed  *)
(* it: wl9 may end or not.                                                 *)
SnarfPutEnd(s) ==
  /\ Serves /\ s \in events
  /\ AtEnd(s)
  /\ put' = [put EXCEPT ![s] = "freed"] /\ events' = events \ {s}
  /\ snarf' = text[s]
  /\ changed' = changed \cup {g \in Gets : get[g] = "running"}
  /\ up' \in IF s \in source THEN {TRUE} ELSE BOOLEAN
  /\ HandlerWaits
  /\ UNCHANGED <<source, written, read, closed, failed, text, getv, start>>

-----------------------------------------------------------------------------
(* From /dev/snarf.                                                        *)

OfferReceive(g) ==
  /\ Serves /\ get[g] = "new"
  /\ get' = [get EXCEPT ![g] = "running"]
  /\ reply' = [reply EXCEPT ![g] = Wait]
  /\ start' = [start EXCEPT ![g] = snarf]
  /\ UNCHANGED <<putv, snarf, offset, pipe, got, gone, writing, taskv, up, changed>>

(* Server: the chunk at the offset, the end of the text, or an error.      *)
ReadReply(g) ==
  /\ up /\ get[g] = "running" /\ reply[g] = Wait
  /\ \/ /\ offset[g] < Len(snarf)
        /\ reply' = [reply EXCEPT ![g] = snarf[offset[g] + 1]]
     \/ /\ offset[g] >= Len(snarf)
        /\ reply' = [reply EXCEPT ![g] = End]
     \/ reply' = [reply EXCEPT ![g] = Failed]
  /\ Heard
  /\ UNCHANGED <<putv, snarf, get, offset, pipe, got, gone, writing, up, start, changed>>

AdvancedTwice(g) == offset[g] + 2

Advanced(g) == offset[g] + 1

(* snarfget with text: it is written, and only then is more asked for.     *)
SnarfGet(g) ==
  /\ Serves /\ get[g] = "running" /\ reply[g] \notin {Wait, End, Failed} /\ g \notin late
  /\ offset' = [offset EXCEPT ![g] = Advanced(g)]
  /\ writing' = {g} /\ due' = due \ {g}
  /\ UNCHANGED <<putv, snarf, get, reply, late, pipe, got, gone, up, start, changed>>

SnarfGetWritten(g) ==
  /\ up /\ writing = {g} /\ g \notin gone /\ Len(pipe[g]) < PipeSize
  /\ pipe' = [pipe EXCEPT ![g] = Append(@, reply[g])]
  /\ reply' = [reply EXCEPT ![g] = Wait]
  /\ writing' = {}
  /\ UNCHANGED <<putv, snarf, get, offset, got, gone, taskv, up, start, changed>>

(* The client closed its end: SIGPIPE, which nothing ignores.              *)
SnarfGetBroken(g) ==
  /\ up /\ writing = {g} /\ g \in gone
  /\ up' = FALSE
  /\ UNCHANGED <<putv, snarf, getv, taskv, start, changed>>

OverAtEnd(g) == reply[g] = End

Over(g) == reply[g] \in {End, Failed}

SnarfGetEnd(g) ==
  /\ Serves /\ get[g] = "running" /\ Over(g) /\ g \notin late
  /\ get' = [get EXCEPT ![g] = "freed"] /\ due' = due \ {g}
  /\ UNCHANGED <<putv, snarf, offset, reply, late, pipe, got, gone, writing, up, start, changed>>

(* Clients read a pipe until they close it.                                *)
ReadChunk(g) ==
  /\ up /\ g \notin gone /\ pipe[g] # <<>>
  /\ got' = [got EXCEPT ![g] = Append(@, Head(pipe[g]))]
  /\ pipe' = [pipe EXCEPT ![g] = Tail(@)]
  /\ UNCHANGED <<putv, snarf, get, offset, reply, gone, writing, taskv, up, start, changed>>

CloseReader(g) ==
  /\ up /\ get[g] = "running" /\ g \notin gone
  /\ gone' = gone \cup {g}
  /\ UNCHANGED <<putv, snarf, get, offset, reply, pipe, got, writing, taskv, up, start, changed>>

-----------------------------------------------------------------------------
Next ==
  \/ Elsewhere
  \/ \E s \in Sources :
       \/ CreateDataSource(s) \/ SetSelection(s) \/ WriteChunk(s) \/ CloseSource(s)
       \/ DestroySource(s) \/ SnarfPutEnd(s)
       \/ \E ok \in BOOLEAN : SnarfPut(s, ok)
  \/ \E g \in Gets :
       \/ OfferReceive(g) \/ ReadReply(g) \/ SnarfGet(g) \/ SnarfGetWritten(g)
       \/ SnarfGetBroken(g) \/ SnarfGetEnd(g) \/ ReadChunk(g) \/ CloseReader(g)

(* The event loop serves every descriptor that is ready, fsdispatch every  *)
(* reply that is not late, and the server answers.  Nothing makes a client *)
(* close the pipe it writes or read the one it pastes from, and nothing    *)
(* wakes a main loop that sleeps on late replies.                          *)
Fairness ==
  /\ \A s \in Sources :
       WF_vars(SnarfPutEnd(s)) /\ WF_vars(\E ok \in BOOLEAN : SnarfPut(s, ok))
  /\ \A g \in Gets :
       /\ WF_vars(ReadReply(g)) /\ WF_vars(SnarfGet(g)) /\ WF_vars(SnarfGetWritten(g))
       /\ WF_vars(SnarfGetBroken(g)) /\ WF_vars(SnarfGetEnd(g))

Spec == Init /\ [][Next]_vars /\ Fairness

-----------------------------------------------------------------------------
TypeOK ==
  /\ source \subseteq Sources /\ closed \subseteq Sources /\ failed \subseteq Sources
  /\ put \in [Sources -> {"new", "running", "freed"}]
  /\ \A s \in events : put[s] = "running"
  /\ written \in [Sources -> 0 .. MaxChunks]
  /\ \A s \in Sources : read[s] <= written[s]
  /\ get \in [Gets -> {"new", "running", "freed"}]
  /\ \A g \in Gets : Len(pipe[g]) <= PipeSize /\ offset[g] <= MaxChunks
  /\ late \subseteq Gets /\ due \subseteq Gets /\ late \cap due = {}
  /\ gone \subseteq Gets /\ up \in BOOLEAN

(* With other transfers going on, what /dev/snarf holds is all the text of *)
(* one client, in its order, unless a write of that transfer failed.  This *)
(* is about put->offset and about when snarfput clunks the fid.            *)
SnarfWhole ==
  \/ snarf = <<>>
  \/ \E s \in Sources :
       \/ s \in failed /\ snarf = text[s]
       \/ snarf = [i \in 1 .. written[s] |-> <<s, i>>]

(* A paste that ends without an error gave the client the text of          *)
(* /dev/snarf, each part once and in order, if nothing replaced the text   *)
(* meanwhile.  This is about get->offset, which snarfget moves before it   *)
(* writes.                                                                 *)
PasteWhole ==
  \A g \in Gets \ changed :
    (get[g] = "freed" /\ reply[g] = End) => got[g] \o pipe[g] = start[g]

(* wl9 is stopped: in the write of a paste whose client never reads, or by *)
(* a signal.                                                               *)
Stopped == [](writing # {}) \/ []~ up

(* A selection whose client closed the pipe reaches /dev/snarf and is      *)
(* cleaned up, if the event loop watches it, and a paste ends.  What stops *)
(* them is one of three: a client that never reads its paste, the end of   *)
(* wl9, and, for a paste, a reply that was taken off the descriptor by a   *)
(* wait after which nothing more comes (wl9.c:239, 268; fs.c:281).         *)
TransfersEnd ==
  /\ \A s \in Sources :
       (s \in events /\ s \in closed) ~> (put[s] = "freed" \/ Stopped)
  /\ \A g \in Gets :
       get[g] = "running" ~> (get[g] = "freed" \/ [](g \in late) \/ Stopped)
=============================================================================
