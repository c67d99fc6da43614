# wl9 in TLA+

wl9 is a Wayland server that shows its clients' windows in Plan 9's rio. It is
one single-threaded C program between two conversations: Wayland clients on
one side (libwayland calls wl9's request handlers), and a 9P file server on the
other, over a pipe. This directory holds TLA+ models of wl9, the TLC
configurations that check them, and TLAPS proofs.

    tlc -config MCFs9p.cfg MCFs9p.tla      check a run
    tlapm Fs9pProofs.tla                   check proofs

## The system

| component | source | state | operations | interacts with |
| --- | --- | --- | --- | --- |
| number table | `util.c` numget, numput | words of free bits | get, put | tags and fids (fs.c), image ids (wl9.c) |
| 9P client | `fs.c` | tag and fid tables, `cb[]`, reply queue, `rbuf`, `wbuf` | fswalk ... fsclunk (post or call), fsasync, fswait, fsflush, fsdispatch, fsreadR, fswriteT | c9 library through callbacks (newtag, freetag, read, begin, r); wl9.c through calls and reader callbacks |
| c9 library | `c9.c`, client and server half | `msize`, `sz` (size of the message half read) | T and one function per request, c9proc; s9proc and one function per reply | fs.c (the client half) |
| main loop | `wl9.c` main, fsready | event mask of the 9P descriptor | epoll, handlers, fsdispatch, flushing clients and destroying those that are gone | everything |
| windows | `wl9.c` winnew, wctlread, toplevel_*, xdg_surface_* | struct window: fids, pending tags, geometry, image id | first commit opens five files of a rio window; wctl, mouse and kbd are read for ever by readers that re-arm themselves; destruction clunks and flushes | 9P client, surfaces, focus |
| surfaces | `wl9.c` attach, damage, frame, commit | pending and current buffer, damage, frame callbacks | wl_surface requests, buffer destruction | windows, drawing |
| drawing | `wl9.c` drawcopy, drawinit | draw buffer | damage cut into messages of at most a buffer | 9P client |
| mouse, focus | `wl9.c` mouseread, mousefocus, get_pointer | focus, active and inactive pointers | enter, leave, motion, buttons | windows |
| keyboard | `wl9.c` kbdread, kbdevent, kbdfocus, get_keyboard; `keymap.c` keymapmod; `util.c` utf8dec | focus, active and inactive keyboards, modifiers, keys of each window | enter, leave, key, modifiers | windows |
| snarf | `wl9.c` set_selection, snarfput, offer_receive, snarfget | a transfer record each | copy between a client's pipe and /dev/snarf | 9P client |
| keymap | `keymap.c` writekeymap, `kbmaptoxkb.c` | keys | kbmap lines to XKB | start-up, or a program of its own |
| start-up, launch | `wl9.c` main, drawinit, keymapinit, launch | root, $wsys, snarf and draw fids; the child client | calls that must all succeed; first window of the child; end of the loop | windows, 9P client |

What is outside the models is listed under "Not modelled".

### What is hard about it

wl9 has one thread but many conversations. A handler may *post* a request and
wait for the reply later, *call* (post and wait at once), or *arm* a reader:
post a read and leave a callback for its reply. While anybody waits, it
receives the replies for all the others. Replies come in any order. Readers
re-arm themselves and make calls of their own, from inside fsdispatch. Windows
are destroyed while their reads are outstanding or already answered. The pipe
may be full, and a reply may arrive together with others or in pieces. Nothing
is persisted, there is one thread, and the transport is a reliable pipe, so
there is no crash recovery and no message loss to model; the hazards are of
order, of staleness and of boundaries. PROJECT.json lists them by line.

## Modules

| module | what | extends or instantiates |
| --- | --- | --- |
| `IdPool` | abstract: a pool of small integers | |
| `NumTab` | numget and numput on words and bits | implements `IdPool` |
| `AsyncReads` | abstract: what a reader may rely on | |
| `Fs9p` | fs.c, the main loop, the 9P server | implements `AsyncReads` |
| `MCFs9p` | symmetry for the safety run | `Fs9p` |
| `Fs9pProofs` | invariant and theorems of `Fs9p` | `Fs9p` |
| `RecvBuf` | c9proc and read9p: bytes into messages | |
| `SendBuf` | T, begin and write9p: messages into bytes | |
| `C9` | c9.c: the client half against the server half, field by field | |
| `DrawCopy` | damage, its clipping and split, drawcopy's loop | |
| `MCBuffers` | one run for NumTab, RecvBuf, SendBuf, DrawCopy and C9 | all five |
| `Window` | winnew, the readers, destruction; fids, tags and image ids | over what `AsyncReads` promises |
| `MCWindow` | symmetry, files of the runs | `Window` |
| `Surface` | wl_surface: buffers, listeners, damage, frame callbacks | over what `DrawCopy` promises |
| `Pointer` | mouseread, mousefocus, wl_pointers | |
| `Kbd` | kbdevent, kbdfocus, wl_keyboards, the current window | |
| `KbdText` | kbdread and utf8dec: bytes into events | what `Kbd` handles |
| `Seat` | what Pointer and Kbd share: windows, clients, current windows | |
| `MCSeat` | one run for Pointer, Kbd and KbdText | `Pointer`, `Kbd`, `KbdText` |
| `Snarf` | set_selection, snarfput, offer_receive, snarfget | |
| `Main` | main, launch, the child's first window, the end of the loop | |
| `Keymap` | writekeymap | |
| `MCStartup` | one run for Main and Keymap | both |
| `BufferProofs` | invariants and theorems of the four | `NumTab`, `RecvBuf`, `SendBuf`, `DrawCopy` |
| `StartupProofs` | invariants and theorems of the two | `Main`, `Keymap` |
| `SeatProofs` | invariants and theorems of the three | `Pointer`, `Kbd`, `KbdText` |
| `C9Proofs` | invariant and theorems of `C9` | `C9` |
| `WindowProofs`, `SurfaceProofs`, `SnarfProofs` | invariant and theorems of the module each is named for | that module |

`MCBuffers`, `MCSeat` and `MCStartup` check parts that share no state in one
run: a variable `part` says which of them a behaviour is about, the others stay
as they began, and each property is that of its own part. Nothing is lost by
it, since no action of one part reads a variable of another.

### NumTab

`ent` is the array of words, each the set of its set bits; a set bit is a free
number. `NumgetFound`, `NumgetGrow` and `NumgetNoMemory` are the three exits of
numget, `Numput` and `NumputRefused` those of numput. `call` and `res` are the
last call and its return value, so that the refinement can speak of results.
`Shl1` is `1ul << num` as the machine computes it. C leaves a shift by 64 or
more undefined; numget shifts by the number itself, so from the second word on
it depends on the target's shift taking the count modulo the width (x86-64 and
AArch64 do). The mutant `Shl1Unwrapped` is the reading in which the count does
not wrap, and with it the pool is broken at once.

In run `buffers`: three words of three bits. The properties are about one word
against another, about growth, and about arguments outside the table; three
words have a first, a middle and a last one.

### Fs9p

One step of the model is one iteration of a loop of fs.c, or one call of a
handler. State and code:

| variable | code |
| --- | --- |
| `inuse` | `aux->tag`, by its `IdPool` abstraction (smallest free number) |
| `cb` | `aux->cb[].fn`, `.aux` |
| `queue` | `aux->queue`, newest first |
| `tx`, `nsent` | `wbuf` and the pipe to the server: the first `nsent` requests have left `wbuf` |
| `rx`, `nread` | the pipe from the server and `rbuf`: the first `nread` replies are in `rbuf` |
| `srv` | requests the server works on |
| `pc` | which loop the program is in; there is no deeper nesting, since wait is never entered from wait and fsdispatch never from a callback |
| `cur`, `fn` | fsdispatch's reply (its tag) and the callback that runs |
| `wtag`, `wold`, `flushing` | arguments of fswait and fsflush |
| `posted` | tag variables of the running handler that it may still wait for |
| `ev`, `mask` | epoll's events not yet handled, the event mask |
| `leaving` | wl_display_flush_clients runs the destructors of a client that went |

A message is the unit of every transfer; a reply is represented by its request
(`for` and `old` are the intent of the caller, not data on the wire). Handlers
are arbitrary programs over `Post`, `Call`, `Arm`, `Wait` and `Flush`, which
covers drawcopy, winnew, wctlread, snarfget, toplevel_destroy and all others,
under three facts about wl9.c: a reader has at most one read outstanding (each
window arms each of its readers once, and a reader re-arms only itself); a
handler waits only for tags it posted itself; only handlers of Wayland requests
and the destructors of what they have made flush, never readers, and only tags
of armed readers or NOTAG. (`Window` checks
the first as `OneReadPerFile`, a part of `ReadersKnown`. It also shows the one exception to the last: the
destruction of a second toplevel on one xdg_surface flushes the tags that the
first one had, which may be anybody's by then.) An Rerror frees
its tag like any reply, so success and failure are not told apart. Paths that
end in exit(1) and running out of memory are left out.

A turn of the main loop is `Poll`, the handlers (`events`), fsdispatch, and then
`flush`, wl_display_flush_clients, before epoll sleeps again. That call destroys
a client that cannot be written to (`DestructorsStart`); toplevel_destroy then
clunks and flushes, which waits, after fsdispatch has looked at the queue.

The server takes requests in order and answers them in any order; a flush
removes the old request if it is still there and is then answered, as flush(5)
demands.

Invariants. `TagsUnique`: among requests in wbuf or in the pipe, requests at
the server, replies in the pipe or in rbuf, and the queue, no two messages
share a tag, and their tags are in use. `CallbackMatches`: `cb` of a message's
tag is the reader it was posted for; free tags have none (newtag does not clear
it). `WaitNotBuried`: fswait's loop looks only at the head of the queue, and
what it waits for is never below. `NoTagLost`: no tag leaks.

`ImplementsAsyncReads`: a reader is armed, answered, run once, or cancelled. It
is the promise that wl9.c's windows need: after fsflush returned, the callback
never runs, even if its reply was already in the queue.

Bounds: `MaxTag` is the number of tags at once, `MaxOps` the number of
operations between two polls. Run `fs9p_safety` has two readers (so that one
reply can be taken for another's), three tags and five operations per turn. Two
armed readers and a flush, or a reader and two posted writes, fill the tags;
three operations are what it takes to find an awaited reply in the queue (post,
another wait that receives it, wait), two more let a callback or a flush come
between. The same properties were also checked once with four tags and four
operations (10.9 million states). Readers are interchangeable, so the run uses
symmetry.

Liveness, run `fs9p_liveness` (one reader, three tags, no symmetry): `WaitEnds`,
`RequestSent`, `QueuedHandled`. The last has an exception that the code has: a
reply to a reader that was taken off the pipe by a wait of such a destructor
stays in the queue while epoll sleeps, for as long as neither the server nor a
client has another word. Fairness assumed:

  - `WF(Program)`: the process is scheduled;
  - `WF(PollDescriptor)`: epoll is level triggered, so a descriptor that stays
    ready is reported;
  - `SF(PollWritable)`, `SF(FsReady /\ nsent' > nsent)`: the pipe to the server
    drains infinitely often, and a writable descriptor takes something;
  - `WF(SrvTake)`, `WF(SrvAnswer)`: the server takes requests and answers all
    but a reader's: reads of mouse, kbd and wctl block for as long as rio likes.

Nothing is assumed of clients. The operations of a turn are bounded by
`MaxOps`, which excludes a handler that never returns.

Run `fs9p_stranded` shows a disagreement with a comment. c9.h says of the
callback r that it is called for every message received, but when fswait finds
its reply, replies behind it in the same read stay in rbuf. The main loop then
sleeps on the descriptor, which has nothing more to say; the replies are
handled when the server sends something else.

### RecvBuf and SendBuf

`Fs9p` moves whole messages; these two modules are about the bytes beneath. The
bytes of each direction are numbered, and a buffer maps an index to the number
of the byte it holds, so "the right bytes in the right order" needs no
contents.

`RecvBuf`: `rbuf`, `rpos`, `rend` are the fields of aux, `sz` is `c->sz`,
`want` the argument of read9p. `Read9p` is the entry of read9p with its
memmove, `ReadSome` one read(), `ReadAgain` EAGAIN: read9p returns NULL and
c9proc returns, to be called again later. `GotSize` and `GotBody` are the two
halves of c9proc; when the four bytes at rpos are not a size field, any size
may be read. `at` is a ghost: where the next message starts. In run `buffers`:
messages of 7 to 10 bytes in a buffer of 12, so that a message may start
anywhere, be shifted, and follow or precede others in one read; 30 bytes are
three to four messages. `RoomToRead` is what makes read9p's reading of 0 as the
end of the stream correct.

`SendBuf`: `T` with its size check, `begin` with its single look for room,
write9p with block and without. In run `buffers`: requests of 7 to
10 bytes, a buffer of 12, a pipe of 3, so that no request fits the pipe and
write9p stops at every byte; 30 bytes are several refills. `BeginReturns`
assumes that the server reads its end of the pipe and that write9p goes on when
poll reports room. The assumption hides one hazard, a server that does not read
because its own replies are not read: write9p polls for POLLOUT only.

### Window

`win[w]` is a struct window: `wsys`, the fids, the tags of the readers, `image`
and `initial_commit` (`initial`). It also says whether the memory is live,
whether there is a toplevel (`top`), how many there were (`roles`), whether the
present one had its initial commit (`asked`) and whether x0 to y1 have been read
(`known`). `fidout` and `imgout` are the pools, `armed` the callbacks, `srv` and
`img` what the server believes a fid and an image id to be. `io` is the last
message exchanged with a client.

A handler runs to its end, so each is one action, except winnew, which has one
step for each iteration of its three loops and its own error path; `pc`, `n`,
`done`, `clunk`, `ftag` are its locals. The server may refuse any walk, open or
read of winnew and any request of wctlread, `MaxRefusals` times, and it refuses
a fid that it has in use as often as it is asked. A reader fires when its reply
has come, as `AsyncReads` promises. wctlread is modelled up to what it draws:
the reply decides whether the window was resized, moved, or gained the focus,
and at which step it gives up.

wl9 has three habits that decide what can go wrong. Fids and image ids do not go
back to their pools when a window is destroyed, so that giving one up twice
hurts nobody. Tags do, so a stale tag may be somebody else's. And the tests
`tag != -1` are always true, since C9tag is unsigned, so that NOTAG is flushed
too, which is harmless.

Run `window`: two windows, so that one can take what the other gave up, with one
file that is only written and two that are read for ever (the five files of wl9
differ in nothing else), two toplevels each, one refusal anywhere, and nine
fids: two full openings of four and one to spare. The windows are
interchangeable. The system may stop, when all windows have gone, so deadlock is
not checked.

  - `FidsAgree`, with the types of all variables. The fids of an open window
    name its own files at the server (for first toplevels: a second one has the
    clunked fids of the first), and the server has no fid in use that the pool
    thinks free. The
    exception is real: when winnew fails between its walks, the walks on their
    way succeed and their fids go back to the pool without a clunk. Whoever is
    handed one of them is refused, and fsattach returns it to the pool, which
    hands out the smallest: after one refused walk and one more attempt no
    window can be opened any more (no state in the run's graph leads out of it).
  - `ReadersKnown`: an armed reader belongs to a toplevel that will flush it.
    Again with the exception of a winnew that failed: the reads of mouse and kbd
    stay, destruction skips a window without wsys, and the reader runs on freed
    memory if an event comes. In the model a freed window keeps its contents,
    and what the reader does with them is only to read again, which fails.
    `ReadersKnown` also has that a file has one read outstanding, on which
    `Fs9p` rests.
  - `ReadersGoOn`: no window ends the reader of another, until some window had
    a second toplevel. That one flushes stale tags, and the window that lost a
    reader to it keeps the reader's tag, so that with three windows even its
    ordinary destruction can then end the reader of a third.
  - `ImagesKept`: no window renames or frees the image of another. (The id 0 of
    a window that was never opened is the screen's; it is freed.)

Two runs of one window with all five files show disagreements.
`window_assert`: the assertion of wctlread fails for a name of 27 bytes.
`window_configure`: a second toplevel on an xdg_surface gets no answer to its
initial commit. Its fairness is `WF(Winnew)`: a handler that has begun goes on.
There are no refusals in it, so nothing else could have kept the answer back.

### C9

The client half of c9.c against its server half, with one request outstanding.
`packet` is the message on its way as the list of the fields that were written,
each with its width; a value is read only where a field of that width lies, so
a size that one half counts and the other does not shows at once. `called` and
`told` are what the caller of each half passed, `t` and `r` what the other half
got, `err` the result of the call, `held` whether its tag is still taken,
`phase` whose turn it is. There is one
operator for each c9 and s9 function and for each case of s9proc and c9proc.

  - `RequestsArrive`: whatever the client half sends, the server half takes for
    what was meant. Two exceptions, both by the code: an aname longer than uname
    may be refused, because the length of aname is taken off the size before it
    is compared with what is left (c9.c:1082, 1103); and c9wstat refuses a NULL
    name, though c9.h:146 says "Set any string to NULL to keep it unchanged".
  - `RepliesArrive`: the same of the answers. s9stat sends muid with the length
    of name (c9.c:853), and the size of a stat has 16 bits.
  - `SizesAgree`: each message is as long as it says it is and no longer than
    its receiver takes, and of the answers only a stat or an error can be too
    large to send.

The server half takes any version that starts with "9P2000" and answers an
unknown one with msize 0, which the client takes for a bad packet, not for
C9Ever. The Makefile builds c9.c with C9_NO_SERVER, so wl9 runs the client half
only. The flush slots are never taken (the line that does is commented out).
In run `buffers`: msizes, counts, lengths of strings, numbers of path elements
and directory entries on both sides of each limit (65535, 16, 4096).

### DrawCopy

Damage is a bounding box (`damage`, -1 for none); ToplevelCommit and Moved clip
it and fill in `d`, `dx`, `dy`, and one DrawPiece is one turn of drawcopy's
loop: a load message of at most `BUFLEN` bytes. `drawn` says which pixel of the
client's buffer each pixel of the window shows, `asked` which ones the client
damaged.

`DamageDrawn` has five parts: the loop leaves no gap (`NoGaps`), draws all that
was asked for (`Covered`), takes each pixel from its own place (`RightPixels`),
reads nothing beside a buffer that has the rectangle (`InBuffer`), and stops the
program only for an empty rectangle (`TrapsOnEmpty`). The exceptions are the
code's, and each is a premise of one of them:

  - damage that begins at -1, which the code takes for no damage, may be lost,
    or widen what is drawn (`minus`; the box of (-1, ..) and (2, ..) begins at 2);
  - a negative corner, or a buffer narrower or lower than the window, lets img
    point beside the buffer, since nobody compares them;
  - where a row is longer than the draw buffer, img goes down a row with each
    piece, so its pixels are wrong;
  - a rectangle with no width after clipping divides by zero (`Trapped`), and one
    that starts below the window never ends the loop, so `DrawEnds` speaks of
    the others only;
  - the pieces of a split row are as wide as there are of them, so that a row of
    more than about (Room / 4)^2 pixels has pieces that overflow draw.buf:
    `MessageFits` is said of the rows that are `Fits`.

A write that fails leaves no tag, and `assert(tag != -1)` says nothing of it, tag
being unsigned: wl9 waits for a reply that does not come. `LIMIT` below `BUFLEN`
is that case; the proofs hold for it.

In run `buffers`: a window of 4 by 3 pixels, a buffer of 3 by 2, which is smaller
both ways, and a draw buffer with room for less than a row of the window, so
that rows are split, and for two rows of a narrow rectangle; any two rectangles
that begin at -2, -1, 0 or 2 and are 0 to 4 wide and high. Fairness:
`WF(DrawPiece)`, a loop goes on.

### Surface

`pbuf`, `sbuf`, `pdamage` and `cb` are pending and state of struct surface,
`links` the destroy listeners, `screen` what the window's image shows. The
client is part of the model: it draws in no buffer that wl9 may still read, and
before a commit it has damaged what changed. Otherwise it is free: it damages
before or after it attaches, attaches as often as it likes before a commit,
destroys buffers and surfaces and asks for callbacks at any moment, and the user
may move or resize the window between two of its requests. drawcopy waits for its
last write, so a request is one step; that all of it is drawn is `DrawCopy`'s
matter.

`LinksAgree` is what keeps a destroyed buffer from being read, `BusyIsCurrent`
that each replaced buffer is released, `ScreenShowsCommitted` that the window
shows the last commit although damage is only kept until something is drawn,
and `DoneWhenShown` that no frame callback is done before its frame shows.
One order of legal requests breaks both, and both name it: a client damages, the
window moves, which draws the buffer there is and forgets the damage
(wl9.c:210-213), and only then the client attaches the buffer the damage was
for, or one in the place of that which was drawn. What was damaged is not drawn at the commit, and stays as it was until it
is damaged again or the window moves again; a later commit with damage elsewhere
even completes the callback. `early` are the cells of the present frame that a
move has drawn, `lost` those of them that an attach then made wrong; both are
kept for the two properties only, and no guard reads them. Outside `lost` the
properties hold without exception.
Callbacks of a destroyed surface stay on lists whose heads are freed
(wl9.c:941); the model keeps such a callback and makes no new surface while it
is there, so what the freed heads do is not checked. Two buffers (pending and
current, the same or different), two callbacks, two cells (one damaged, one
not) and two values are what the properties tell apart.

### Pointer, Kbd and KbdText

`active` is the list of resources of the client in focus, all others of `ptr`
or `kbds` are on the inactive list. rio and the clients are part of both
models: rio gives the mouse to one window while a button is down and the keys
to the current one; a client keeps what it was told in `inside`, `down` and
`told`. Replies of different files and windows are handled in any order,
because fsdispatch takes the last one first.

`MouseAgrees` and, of the keyboard, `FocusAgrees`: events go only to the client
in focus and to the surface it was told. MouseAgrees (its part `ButtonsAgree`)
and `KeysAgree`: what a client thinks is pressed is what its window last read. `NoStuckKeys`: a key goes up when its window reads so.
Resources created while their client has the focus (`late`) get no enter, as
the code has it (wl9.c:1508), and are left out of the properties.

`KeysAgree`, and that the focus is rio's current window, need `orderly`, which
is chosen at the start of a behaviour and then stays: replies in the order of
the events, and no key down when the current window changes. Without it they do
not hold. A key reply that is handled after the
wctl reply takes the focus back; modifiers are sent when they differ from those
of the last event of whichever window. So run `seat` has the keyboard in
order with three windows and a modifier, and in disorder (with wctl replies lost
half-way too) with two windows and no modifier, where `NoStuckKeys` and the two
parts of `FocusAgrees` about the client still hold. Three windows of two clients have a change of window with
and without a change of client.

`KbdText` is what lies before: kbdread's loop over the messages of one read, and
utf8dec. `sent` is what rio has to say: messages, each a kind and keys, a key
either a rune with its UTF-8 or a string that utf8dec cannot read. `reply` is
the text of that, cut where the read ends, and `Arrive` are the numbers of
messages that are whole and in order, with all before them. `TextAgrees`: the
events are what the first n of them mean, for some such n; when kbdread stops
early (pos is NULL), message n + 1 does not arrive, and when it comes to the end
of the reply, the reply ends with message n. Want of memory may stop it
anywhere (`KeysFail`, `Returned`). The run has every
reply of two messages of two keys, with runes on both sides of each length of
UTF-8, and a read of 10 bytes instead of 256, so that messages are cut at every
place and between one another: that a reply may be cut just where a message
ends, so that it is read to its end and still not all that was sent, is why
TextAgrees speaks of the reply's end and not of the last message. Beyond UTF-8, utf8dec takes forms that are too long, and surrogates from
0xda00 on: it compares the difference to 0xd800 with 0x200, where all of them
are 0x800.

### Snarf

A transfer is a struct snarfput or snarfget with its pipe, its fid and, for a
put, its event source. Text is in chunks, what one read returns. rio keeps what
is written to an open fid and takes it over when the fid is clunked; this is
how /dev/snarf behaves as wl9 uses it. A write to a client's pipe blocks all of
wl9 (`writing`), as the pipe is not set to O_NONBLOCK; when the client has closed
its end (`gone`), it is SIGPIPE, which nothing ignores (`up`).

What the rest of wl9 does to a transfer is in two variables. A read of /dev/snarf
is answered while some fswait reads from the server, and that wait may take the
reply along: it is then in the queue, or in rbuf behind the reply that was waited
for, and epoll does not see it (`late`). What the server says next, or a handler
that is followed by fsdispatch, makes it `due`. `HandlerWaits` is a handler that
waits, `Elsewhere` all that goes on in wl9 besides these transfers, `Heard` the
server's next word. `events` is the set of puts whose pipe the event loop
watches: nobody looks whether wl_event_loop_add_fd succeeds (wl9.c:1630), and a
put that is not watched stays, with its pipe and its fid.

`SnarfWhole`, `PasteWhole`: text is whole and in order while other transfers
run, unless a write failed, of which nobody takes notice. `TransfersEnd`: a
selection that is watched and closed reaches /dev/snarf, and a paste ends, unless
one of three things stops it, which the property names: wl9 is for ever in the
write of a paste that its client does not read; wl9 has ended; or the reply of a
paste is late for ever. The fairness under it is that the event loop serves
descriptors that are ready, fsdispatch replies that are not late, and rio answers.
Nothing makes a client write, close or read a pipe.

A client may destroy its source at any time, also by dying, and snarfput then
sends cancelled to freed memory (wl9.c:239). That is undefined; the model lets
wl9 end there or go on. That nothing leaks is no property: the numbers of the
fids of selections are never given back (wl9.c:237, 1625). Because of it no two
selections share a fid, and `text` can be kept by the put. Two
selections overlap in every way, with a paste through a pipe that is full after
one chunk.

### Main

`Calls` is the list of calls that main makes before its loop: root, $wsys, the
snarf file, without -d the two draw files, the keymap, and the display. Each is
waited for and each may fail, which ends the program. `fid` are the variables
that hold the fids, `named` what each fid names at the server. fswalk takes an
Rwalk with too few names for a success, so a walk may leave a fid that names
nothing, which is found out when the fid is opened; the first walk of drawinit
starts from the data fid before it has a value, which is 0 as that of root is;
and $wsys is walked to but never opened. What fsinit returns is not looked at
(wl9.c:2048), so `Fsinit` goes on although the server has refused the version. `FidsReady`: all the same, what the
loop works with is the right file and open, but for $wsys.

Then come the clients. libwayland is external: it destroys a client when its
socket is closed and it is read from, or when it has something to get and is
flushed to; it may use the address of a client again for the next one.
`OnlyChildTakesOver`: the first window of the launched program, and nobody who
has its address later, takes over the window that exportfs made.

Run `main_stops` shows a disagreement with README.md:30, "wl9 will stop
automatically when it has no clients": the loop looks for clients, then
wl_display_flush_clients destroys the last one, and epoll has nothing to
report. Its fairness is that the loop goes on (`WF` of its three steps) and
that epoll reports a client that is gone (`SF(Disconnected)`): nothing else
could have kept wl9 from stopping.

Bounds: two addresses and three clients, so that an address is used again
while another client is there, two windows each; $wsys of 1, 2, 14 and 15
names, the last one being too many for splitpath. With -t r,w there are two
descriptors and only the one to read is set to O_NONBLOCK; the model of the
loop (`Fs9p`) is of a single one, where requests may stay in wbuf.

### Keymap

One Line is one turn of writekeymap's loop; keys, `room` and the keycodes
declared are its state, and Lines writes the symbols. `KeymapAgrees` has what
README.md says of the keymap: a keycode for each entry of the tables 0, 2, 5
and 6, shared by keys of the same rune, a key of its name, and a second level
from table 1. It holds for runes of up to 16 bits; longer ones are cut off, and
one that is 0 in 16 bits fails the assertion of runetoxkb. bsearch relies on
the order of /dev/kbmap; kbmaptoxkb reads its standard input in any order, so
the second level is only said of the file. Past 128 keys (`FIRST`, 2 in the
run) the array does not grow when it should, and the model goes no further
(`undefined`). kbmaptoxkb exits with 1 when all went well and with 0 when not.
Three lines are enough for a key, its shifted symbol and one that is in the
way.

### Proofs

`Fs9pProofs` proves for every `MaxTag`, `Reader` and `MaxOps` that
`Spec => []IInv`, and from it the type invariant, the four safety invariants
and the refinement.

TypeOK, TagsUnique and CallbackMatches are not inductive alone. `IInv` adds

  - `CurOK`: the program counter, `cur` and `fn` agree, and the callback that
    runs has been unregistered;
  - `PostedOK`: a tag in `posted` is in use by a request without a reader;
  - `WaitOK`: while fswait searches or reads, the message it waits for is on
    its way, has no reader, and is not a tag the handler may still wait for;
  - `FlushOK`: a flush waits for its own Tflush, and its oldtag is in use by an
    armed read or is NOTAG;
  - `FlushLast`: once the server has answered a flush, the old request is no
    longer before the server or at it; it is among the replies or nowhere;
  - `OneReadPerReader`: two tags do not have the same reader.

The phase in which clients are flushed needs nothing of its own: a destructor is
a handler that starts after fsdispatch instead of before.

The proof has one lemma per action and one step per conjunct the action can
disturb. Sequences are handled through the sets of their elements: the lemmas
at its beginning say what Append, Tail, Cons and the removal of the first match do
to `ToSet` and to injectivity. The last step of the refinement maps every
action of `Fs9p` to an action of `AsyncReads` or to a stuttering step:
FsReadReply and the waits move replies within `answered`, SrvReply answers,
DispatchCallback fires, and the end of fsflush cancels.

`BufferProofs` is about the parts that keep numbers or bytes in arrays.
For `NumTab` it proves the refinement of `IdPool` for every word size: a number
has one word and one bit (`SplitUnique`, `NumberSplit`), so clearing or setting
a bit takes out or puts back one number (`OneBit`), and everything below the
lowest set bit of the first word that has one is out (`BelowFound`). Type
correctness is the only invariant it needs. For `RecvBuf` and `SendBuf` it
proves the safety properties for all sizes of buffers, messages and pipe:
`RecvIInv` says that rbuf from rpos to rend holds the bytes of the stream up to
`got`, that the message at `at` starts at rpos, or four bytes before it when
`sz` is set, and that `sz` is then its size; `SendIInv` that only begin waits
with a request pending, and that after write9p in begin wbuf is empty. For
`DrawCopy` it proves DamageDrawn and MessageFits for any size of window, client
buffer and draw buffer, any integers as damage, and any limit of a write; the
exceptions are those of the properties, and nothing is assumed of the sizes but
that draw.buf has room for a pixel. `DrawIInv` has the box around what was damaged
(`BoxOK`), the size of a piece as a quotient of the draw buffer by the width
(`PieceOK`) and where the loop is in the rectangle (`LoopOK`); drawn is all
that lies before that place. The arithmetic is not linear, so products and
quotients have lemmas of their own.

`WindowProofs` proves all four properties of `Window`, for any number of
windows, any files, fids and refusals. The idea is that each fid, tag and image
id in use belongs to one field of one struct window, so that what another
window does cannot reach it. The properties are far from inductive: `FidsOK`
says of every fid the server knows whose field it is in, and that two fields
never hold the same; `TagsOK` that the reader that is armed with a tag is the
one whose field has it; `ImagesOK` the same of image ids. winnew has ids that
are not in struct window yet, and replies that it has not waited for;
`WinnewOK` says at which `pc` it has which, and that the pool has room for the
walks to come. The converse of ReadersKnown, that a tag in struct window has
its reader armed, holds only while no window had a second toplevel, and is what
ReadersGoOn needs. That pools have an id left is an argument about
cardinalities; that numget gives the least one, an induction.

`SurfaceProofs` proves the four properties of `Surface` for all sets of
buffers, cells and frame callbacks, from `BuffersAssumption` (no buffer is
`None`, the null pointer). The invariant says that a buffer has a destroy
listener linked exactly when the surface points at it (`ListenersOK`), that the
only busy buffer is `sbuf` (`BusyOK`), and that without an attach pending `pbuf`
is `sbuf` and between frames no damage is left (`SettledOK`). What carries
ScreenShowsCommitted over a commit is said of cells that are not damaged, owed
or lost: those that no move has drawn in this frame show the old buffer and the
client has not damaged them (`UntouchedOK`); those that one has drawn show the
pending buffer (`EarlyOK`).

`SeatProofs` proves the properties of the mouse and the keyboard for any
windows, clients, pointers, keyboards, keys and modifiers, from the assumptions
that each has an owner and that None is not a window or key. For the pointers it
is enough that what is not there knows of nothing (`GoneClean`) and that also a
pointer without an enter is inside no surface but that in focus. The keyboard
in order is harder, because wl9 learns of a key or a change of window from
replies that lie in a queue. `QueueOK` says that the queue is a path from what
wl9 believes (the focus and its keys) to what rio knows (its current window and
the keys down), on which each reply fits what the one before it left; each
handler takes the first step of the path and each event of rio adds one at its
end (`PathTail`, `PathAppend`). NoStuckKeys and the parts of FocusAgrees
about the client are proved for replies in any order, KeysAgree for behaviours
that are orderly.

It also proves TextAgrees for any runes, strings, numbers of keys and messages
and wherever a reply is cut. `KbdTextAssumption` says that runes are those UTF-8
is for (not 0, below 0x110000, no surrogates), and that a string of `Bad` is one
that utf8dec does not read, alone or with what follows: none that is cut short is
followed by one that may be its rest, for together they would be a rune. What
the model computes of a text it computes by a fold or a recursive function, so
the proof begins with what those are, place by place, by induction over the
numbers (`FlattenIs`, `UptoPlaces`, `DecodedIs`). `RuneRead` says that utf8dec
reads from the UTF-8 of a rune that rune, whatever follows it; the bits of a
rune are quotients and remainders, which `PartsAre` puts together again.
`BadRead` says that it reads nothing of a string of Bad. So a turn of the loop
over the keys that begins where a key does ends where the next one does
(`TurnIs`), the loop reads all keys or stops (`KeysDecoded`), and a turn of
kbdread does the same with messages (`NextMessage`). `TextInv` is TextAgrees with
the place: while kbdread goes on, pos is the beginning of message n + 1.

`SnarfProofs` proves the two safety properties of `Snarf` for every text and
every number of transfers: for a put, that the text collected is what was read
unless the write has failed, and that the snarf buffer is the text of a
transfer that finished; for a get, that what the client has together with what
the pipe holds is the text up to the offset, less a chunk being written. The
text that fits is cut from a sequence, so the lemmas are about `SubSeq`.

`StartupProofs` proves OnlyChildTakesOver and FidsReady, whatever the server
makes of the version, from `MainAssumption`
(no address is `None`). `ChildInv` says that the child has had no window for as
long as it is known to be one; `SetupInv` which fid numbers are known after each
of the setup's calls, with one step per call (`CallsAre`). It also proves
KeymapAgrees for any lines, runes and room for keys (`KeymapAssumption`: scan
codes have 8 bits and levels one digit). `DeclOK` says that keys and runes are
in one-to-one correspondence, `OrderOK` that lines of a file are distinct in
level and scan code, `MadeOK` which line each key is made of and that its second
symbol is what table 1 has said so far of this line's scan code, and `SortOK`
that while tables 0 and 1 are read the keys are sorted, so that bsearch finds
them; that is what makes MadeOK inductive.

`C9Proofs` proves that requests and replies are understood and that sizes agree,
for every msize, every count and every length of string, path and directory.
`C9Assumption` says what these are: msizes, counts and lengths are numbers below
2^30, for the model does not wrap the sums that the code forms in 32 bits, and
the server starts with no less than C9minmsize. Paths and directories may be of
any length.
There are three layers:

  - sums and places. The size of a message is a sum over a set of fields, and
    strings of unknown number lie in it one after the other. `AddedIs` to
    `AddedFew` are about sums over prefixes and are proved by induction over
    numbers, in the form that a set of numbers without a least one is empty
    (`Induction`); `TotalIs`, `FitIs`, `WireIs`, `WithStrings`, `Behind` say what
    that makes of messages;
  - one lemma per request (`UnderstoodOpen` ...) and per answer (`RepliedOpen`
    ...): read by the other half, it is what was meant, or it is one of the
    exceptions. For a directory, `ListedAt` says where each entry that fits lies,
    and `ParsedIs` that reading by the entries' own sizes finds them all;
  - `C9Inv`, which says for each phase what the packet is: that of the call as
    long as the server has not read it, that of `told` afterwards, and that both
    msizes are the same once a version is agreed. There is one lemma per action.

Only model-checked:

  - liveness (`WaitEnds`, `RequestSent`, `QueuedHandled`, `BeginReturns`,
    `DrawEnds`, `TransfersEnd`), and whatever needs ENABLED, which are out of
    the prover's reach;
  - the four violations, which are each shown by a behaviour.

## Not modelled

  - Output, decoration and registry binds: handlers that create a resource
    and send constants, and keep no state.
  - The protocol code that wayland-scanner generates, and the patch to exportfs,
    which is part of Plan 9's server.
  - Coordinates of pointer events and the scroll buttons' axis events; what
    snarfoffer announces; names and layout of XKB text: data without state.
  - Exits in the middle of a handler and running out of memory in `Fs9p`: the
    program is gone, and nothing outlives it but what the server keeps.
  - A server that stops reading because its replies are not read, while write9p
    polls for POLLOUT only (fs.c:74). The server is external and exportfs reads
    and writes in different processes; `BeginReturns` assumes so.
  - What the freed heads of a destroyed surface's callback lists are used for
    (wl9.c:941).
  - A selection of NULL, with which a client takes its selection back: the code
    does not look out for it and crashes.
  - Numbers of fids of selections that are never given back, in `Snarf`: the
    table of fids grows by one with each, and does so without a bound.
  - Sums of coordinates that overflow an int, and what the server makes of a
    rectangle that is not in the window's image.
  - A title set before the initial commit finds no label file and is dropped
    (README.md:83 of wl9 says that set_title is translated to writes); `Window` has the early return.

## What is left

 1. That `AsyncReads` is what `Window` assumes of a reader is said in comments
    and by names only. In `Window` a reader runs and reads again in one step,
    and a window's reads are flushed in one, which are several steps of
    `AsyncReads`; a refinement would need `Window` to take them one by one.
