-------------------------------- MODULE C9 ---------------------------------
(* The two halves of src/c9.c: a client and a server, each of this library, *)
(* with one request outstanding.  A message is the sequence of the fields   *)
(* that were written, <<width, value>>; a string is known by its length and *)
(* its place, so that a value that arrives elsewhere is seen.  A length of  *)
(* 0 is NULL or "".  How messages get into and out of buffers is SendBuf's  *)
(* and RecvBuf's matter, and who has which tag is that of Fs9p.             *)
EXTENDS Integers, Sequences

CONSTANTS
  ClientMsizes,    \* what c9version is called with
  ServerMsizes,    \* the msize a server starts with
  Lengths,         \* of strings
  Paths,           \* sequences of lengths, for c9walk
  Dirs,            \* sequences of entries, each the lengths of its four strings
  Counts,          \* of bytes to read or write
  Margins          \* and how many less than msize those may be

(* Sizes whose sums are far from 2^32, and not less than C9minmsize.       *)
C9Sizes ==
  /\ \A m \in ClientMsizes \cup ServerMsizes : m \in Nat /\ m < 2^30
  /\ \A m \in ServerMsizes : m >= 4096
  /\ \A n \in Lengths \cup Counts : n \in Nat /\ n < 2^30
  /\ Margins \subseteq 0 .. 4096
  /\ Paths \subseteq Seq(Nat) /\ Dirs \subseteq Seq([1 .. 4 -> Nat])

ASSUME C9Assumption == C9Sizes

C9maxstr == 65535
C9minmsize == 4096
C9maxpathel == 16

VARIABLES
  cmsize, smsize,  \* C9ctx.msize of the client and of the server
  svver,           \* Svver in svflags
  held,            \* newtag gave a tag that is not free again
  packet,          \* the message on its way
  called,          \* what the client called for
  t, r,            \* what the server's t and the client's r got
  told,            \* what the server answered
  err,             \* of the last call
  phase            \* "new" before c9version, "idle", "sent", "served",
                   \* "answered", "replied", "refused" by s9proc, "broken" in c9proc

c9vars == <<cmsize, smsize, svver, held, packet, called, t, r, told, err, phase>>

Nothing == [type |-> "none", v |-> <<>>]

NoPacket == [err |-> "ok", type |-> "none", size |-> 0, f |-> <<>>]

(* Values that only have to arrive.                                        *)
V == [fid |-> 101, newfid |-> 102, afid |-> 103, offset |-> 104, data |-> 105,
      mode |-> 106, perm |-> 107, qid |-> 108, iounit |-> 109, stat |-> 110,
      nochange |-> 111, oldtag |-> 112, known |-> 113, longer |-> 114, unknown |-> 115]

Least(a, b) == IF a < b THEN a ELSE b

-----------------------------------------------------------------------------
(* Writing: w08 to w64 and memmove, w16 and wcs.                           *)
F(width, value) == <<width, value>>

W16(value) == F(2, value % 65536)

Wcs(len, text) == <<W16(len), F(len, text)>>

(* Strings one after the other, each as wcs writes it; their texts are     *)
(* numbered from first.                                                    *)
Strings(lens, first) ==
  [i \in 1 .. 2 * Len(lens) |->
     LET k == (i + 1) \div 2
     IN  Wcs(lens[k], first + k - 1)[IF i % 2 = 1 THEN 1 ELSE 2]]

Added(s) ==
  LET sum[i \in 0 .. Len(s)] == IF i = 0 THEN 0 ELSE sum[i - 1] + s[i]
  IN  sum[Len(s)]

TotalBare(lens) == Added(lens)

Total(lens) == Added([k \in DOMAIN lens |-> 2 + lens[k]])

(* The bytes of a message's fields.                                        *)
WireSize(f) == Added([i \in DOMAIN f |-> f[i][1]])

TooLong(lens) == \E k \in DOMAIN lens : lens[k] > C9maxstr

(* Reading: what lies at the i-th place, if the reader takes as many bytes *)
(* as were written there, the lengths of n strings and their texts.        *)
Val(f, i, width) == IF i \in DOMAIN f /\ f[i][1] = width THEN f[i][2] ELSE -1

Lens(f, i, n) == [k \in 1 .. n |-> Val(f, i + 2 * (k - 1), 2)]

Texts(f, i, n) == [k \in 1 .. n |-> Val(f, i + 2 * k - 1, Lens(f, i, n)[k])]

StringsAt(f, i, n) == Lens(f, i, n) \o Texts(f, i, n)

(* What StringsAt gives of Strings(lens, first).                           *)
Same(lens, first) == lens \o [k \in DOMAIN lens |-> first + k - 1]

(* "sz < 2 || (cnt = r16(&b)) > sz-2", for each string in turn.            *)
FitStrict(lens, sz) ==
  \A k \in DOMAIN lens : lens[k] + 2 < sz - Total(SubSeq(lens, 1, k - 1))

Fit(lens, sz) ==
  \A k \in DOMAIN lens : lens[k] + 2 <= sz - Total(SubSeq(lens, 1, k - 1))

Refused(e) == [err |-> e, type |-> "none", size |-> 0, f |-> <<>>]

Got(ok, v) == IF ok THEN [err |-> "ok", v |-> v] ELSE [err |-> "C9Epkt", v |-> <<>>]

(* T and R, but for newtag and begin.                                      *)
Begun(msize, type, size, f) ==
  IF size > msize - 4 - 1 - 2 THEN Refused("C9Esize")
  ELSE [err |-> "ok", type |-> type, size |-> size + 4 + 1 + 2, f |-> f]

-----------------------------------------------------------------------------
(* The client's requests, with the msize of its context.                   *)
C9version(msize) ==
  IF msize < C9minmsize THEN Refused("C9Einit")
  ELSE Begun(msize, "Tversion", 4 + 2 + 6, <<F(4, msize)>> \o Wcs(6, V.known))

C9auth(msize, lens) ==
  IF TooLong(lens) THEN Refused("C9Estr")
  ELSE Begun(msize, "Tauth", 4 + Total(lens), <<F(4, V.afid)>> \o Strings(lens, 1))

C9attach(msize, lens) ==
  IF TooLong(lens) THEN Refused("C9Estr")
  ELSE Begun(msize, "Tattach", 4 + 4 + Total(lens),
             <<F(4, V.fid), F(4, V.afid)>> \o Strings(lens, 1))

(* The free slot of c->flush that it asks for is there: none is ever taken. *)
C9flush(msize) == Begun(msize, "Tflush", 2, <<W16(V.oldtag)>>)

C9walk(msize, path) ==
  IF \/ \E k \in DOMAIN path : k <= C9maxpathel /\ (path[k] = 0 \/ path[k] > C9maxstr)
     \/ Len(path) > C9maxpathel
  THEN Refused("C9Epath")
  ELSE Begun(msize, "Twalk", 4 + 4 + 2 + Total(path),
             <<F(4, V.fid), F(4, V.newfid), W16(Len(path))>> \o Strings(path, 1))

C9open(msize) == Begun(msize, "Topen", 4 + 1, <<F(4, V.fid), F(1, V.mode)>>)

C9create(msize, len) ==
  IF len = 0 \/ len > C9maxstr THEN Refused("C9Epath")
  ELSE Begun(msize, "Tcreate", 4 + 2 + len + 4 + 1,
             <<F(4, V.fid)>> \o Wcs(len, 1) \o <<F(4, V.perm), F(1, V.mode)>>)

C9read(msize, count) ==
  Begun(msize, "Tread", 4 + 8 + 4, <<F(4, V.fid), F(8, V.offset), F(4, count)>>)

C9write(msize, count) ==
  Begun(msize, "Twrite", 4 + 8 + 4 + count,
        <<F(4, V.fid), F(8, V.offset), F(4, count), F(count, V.data)>>)

C9clunk(msize) == Begun(msize, "Tclunk", 4, <<F(4, V.fid)>>)

C9remove(msize) == Begun(msize, "Tremove", 4, <<F(4, V.fid)>>)

C9stat(msize) == Begun(msize, "Tstat", 4, <<F(4, V.fid)>>)

(* The numbers of a stat, and its size with the strings.                   *)
Statsz(lens) == 2 + 4 + 13 + 4 + 4 + 4 + 8 + Total(lens)

(* lens are those of name, uid and gid; muid stays as it is.               *)
C9wstat(msize, lens) ==
  LET statsz == Statsz(lens) + 2
  IN
  IF lens[1] = 0 \/ lens[1] > C9maxstr THEN Refused("C9Epath")
  ELSE IF TooLong(lens) THEN Refused("C9Estr")
  ELSE Begun(msize, "Twstat", 4 + 2 + 2 + statsz,
             <<F(4, V.fid), W16(statsz + 2), W16(statsz), F(6, V.nochange),
               F(13, V.nochange), F(20, V.stat)>> \o Strings(lens \o <<0>>, 1))

-----------------------------------------------------------------------------
(* c9parsedir, of an entry that starts at the i-th field.  The size it has *)
(* is taken off that of the data.                                          *)
C9parsedir(size, f, i) ==
  LET sz == Val(f, i, 2)
  IN  Got(size >= 49 /\ sz >= 47 /\ size >= 2 + sz /\ Fit(Lens(f, i + 4, 4), sz - 39),
          <<Val(f, i + 2, 13), Val(f, i + 3, 20)>> \o StringsAt(f, i + 4, 4))

(* What the cases of s9proc make of a message with sz bytes of body.       *)
GotTread(sz, f, msize) ==
  Got(sz >= 4 + 8 + 4,
      <<Val(f, 1, 4), Val(f, 2, 8), Least(Val(f, 3, 4), msize - 4 - 4 - 1 - 2)>>)

GotTwrite(sz, f, msize) ==
  LET count == Val(f, 3, 4)
  IN  Got(sz >= 4 + 8 + 4 /\ count >= sz - 4 - 8 - 4,
          <<Val(f, 1, 4), Val(f, 2, 8), Least(count, msize - 4 - 4 - 1 - 2),
            Val(f, 4, count)>>)

GotFid(sz, f) == Got(sz >= 4, <<Val(f, 1, 4)>>)

(* An element of no bytes would be C9Epath; the client never sends one.    *)
GotTwalk(sz, f) ==
  LET n == Val(f, 3, 2)
      lens == Lens(f, 4, n)
  IN
  IF sz >= 4 + 4 + 2 /\ (n > 16 \/ \E k \in DOMAIN lens : lens[k] < 1)
  THEN [err |-> "C9Epath", v |-> <<>>]
  ELSE Got(sz >= 4 + 4 + 2 /\ Fit(lens, sz - 4 - 4 - 2),
           <<Val(f, 1, 4), Val(f, 2, 4)>> \o StringsAt(f, 4, n))

GotTopen(sz, f) == Got(sz >= 4 + 1, <<Val(f, 1, 4), Val(f, 2, 1)>>)

GotTwstat(sz, f) ==
  LET cnt == Val(f, 2, 2)
      stat == C9parsedir(cnt, f, 3)
  IN
  IF sz >= 4 + 2 /\ cnt <= sz - 4 /\ stat.err = "ok"
  THEN Got(TRUE, <<Val(f, 1, 4)>> \o stat.v)
  ELSE Got(FALSE, <<>>)

GotTcreate(sz, f) ==
  LET cnt == Val(f, 2, 2)
  IN  Got(sz >= 4 + 2 + 4 + 1 /\ cnt >= 1 /\ cnt <= sz - 4 - 2 - 4 - 1,
          <<Val(f, 1, 4), cnt, Val(f, 3, cnt), Val(f, 4, 4), Val(f, 5, 1)>>)

GotTflush(sz, f) == Got(sz >= 2, <<Val(f, 1, 2)>>)

(* uname and aname of Tattach and Tauth, with sz bytes behind the length   *)
(* of uname.  That of aname is taken off sz before it is compared with     *)
(* what is left, and a sz below 0 wraps around to a large one.             *)
NamesFit(lens, sz) ==
  LET left == sz - (lens[2] + 2)
  IN  lens[1] + 2 <= sz /\ (left < 0 \/ lens[2] <= left)

GotTattach(sz, f) ==
  Got(sz >= 4 + 4 + 2 + 2 /\ NamesFit(Lens(f, 3, 2), sz - (4 + 4 + 2)),
      <<Val(f, 1, 4), Val(f, 2, 4)>> \o StringsAt(f, 3, 2))

GotTauth(sz, f) ==
  Got(sz >= 4 + 2 + 2 /\ NamesFit(Lens(f, 2, 2), sz - (4 + 2)),
      <<Val(f, 1, 4)>> \o StringsAt(f, 2, 2))

GotT(p, msize) ==
  LET sz == p.size - 4 - 3
      f == p.f
      ty == p.type
  IN
  CASE ty = "Tread" -> GotTread(sz, f, msize)
    [] ty = "Twrite" -> GotTwrite(sz, f, msize)
    [] ty \in {"Tclunk", "Tstat", "Tremove"} -> GotFid(sz, f)
    [] ty = "Twalk" -> GotTwalk(sz, f)
    [] ty = "Topen" -> GotTopen(sz, f)
    [] ty = "Twstat" -> GotTwstat(sz, f)
    [] ty = "Tcreate" -> GotTcreate(sz, f)
    [] ty = "Tflush" -> GotTflush(sz, f)
    [] ty = "Tattach" -> GotTattach(sz, f)
    [] ty = "Tauth" -> GotTauth(sz, f)

-----------------------------------------------------------------------------
(* The server's answers, with the msize of its context.                    *)
S9version(msize) ==
  Begun(msize, "Rversion", 4 + 2 + 6, <<F(4, msize)>> \o Wcs(6, V.known))

(* s9proc itself, to a version it does not know.                           *)
UnknownVersion(msize) ==
  Begun(msize, "Rversion", 4 + 2 + 7, <<F(4, 0)>> \o Wcs(7, V.unknown))

S9auth(msize) == Begun(msize, "Rauth", 13, <<F(13, V.qid)>>)

S9attach(msize) == Begun(msize, "Rattach", 13, <<F(13, V.qid)>>)

S9error(msize, len) ==
  IF len > C9maxstr THEN Refused("C9Estr")
  ELSE Begun(msize, "Rerror", 2 + len, Wcs(len, 1))

(* s9flush, s9clunk, s9remove and s9wstat.                                 *)
S9done(msize, type) == Begun(msize, type, 0, <<>>)

S9walk(msize, n) ==
  Begun(msize, "Rwalk", 2 + n * 13, <<W16(n)>> \o [k \in 1 .. n |-> F(13, V.qid)])

(* s9open and s9create.                                                    *)
S9opened(msize, type) ==
  Begun(msize, type, 13 + 4, <<F(13, V.qid), F(4, V.iounit)>>)

S9read(msize, size) == Begun(msize, "Rread", 4 + size, <<F(4, size), F(size, V.data)>>)

S9write(msize, size) == Begun(msize, "Rwrite", 4, <<F(4, size)>>)

(* An entry and what c9parsedir gives of it.  lens are of name, uid, gid   *)
(* and muid.                                                               *)
Entry(lens) ==
  <<W16(Statsz(lens)), F(6, V.nochange), F(13, V.qid), F(20, V.stat)>> \o Strings(lens, 1)

SameEntry(lens) == <<V.qid, V.stat>> \o Same(lens, 1)

EntryError(lens) ==
  CASE lens[1] = 0 \/ lens[1] > C9maxstr -> "C9Epath"
    [] lens[1] \in 1 .. C9maxstr /\ TooLong(lens) -> "C9Estr"
    [] OTHER -> "ok"

(* The bytes of the first n entries.                                       *)
Bytes(entries, n) == Added([k \in 1 .. n |-> 2 + Statsz(entries[k])])

(* How many entries may be sent, of size bytes with the count.             *)
Fitting(entries, size) ==
  {n \in 0 .. Len(entries) : n = 0 \/ 4 + Bytes(entries, n) <= size}

Most(entries, size) == CHOOSE n \in Fitting(entries, size) : n + 1 \notin Fitting(entries, size)

S9readdir(msize, entries, size) ==
  LET n == Most(entries, Least(size, msize - 4 - 1 - 2))
      bad == {k \in DOMAIN entries : k <= n + 1 /\ EntryError(entries[k]) # "ok"}
  IN
  IF bad # {} THEN Refused(EntryError(entries[CHOOSE k \in bad : \A j \in bad : k <= j]))
  ELSE Begun(msize, "Rread", 4 + Bytes(entries, n),
             <<F(4, Bytes(entries, n))>>
               \o [i \in 1 .. 12 * n |->
                     Entry(entries[(i - 1) \div 12 + 1])[((i - 1) % 12) + 1]])

(* The length of muid is that of name, and so many bytes of it are sent.   *)
S9stat(msize, lens) ==
  LET sent == [lens EXCEPT ![4] = lens[1]]
  IN
  IF EntryError(sent) # "ok" THEN Refused(EntryError(sent))
  ELSE Begun(msize, "Rstat", 2 + 2 + Statsz(sent),
             <<W16(Statsz(sent) + 2)>> \o Entry(sent))

-----------------------------------------------------------------------------
(* What c9proc makes of the replies.                                       *)
(* The reader of a directory calls c9parsedir while there is data.         *)
Parsed(f) ==
  LET n == (Len(f) - 1) \div 12
      at(k) == 2 + 12 * (k - 1)
      rest(k) == Val(f, 1, 4) - Added([j \in 1 .. k - 1 |-> 2 + Val(f, at(j), 2)])
      entry(k) == C9parsedir(rest(k), f, at(k))
  IN  IF \A k \in 1 .. n : entry(k).err = "ok" THEN [k \in 1 .. n |-> entry(k).v] ELSE <<>>

GotRread(sz, f) ==
  LET cnt == Val(f, 1, 4)
  IN  Got(sz >= 4 /\ cnt <= sz - 4,
          <<cnt, IF Len(f) = 2 THEN Val(f, 2, cnt) ELSE Parsed(f)>>)

GotRwrite(sz, f, msize) == Got(sz >= 4 /\ Val(f, 1, 4) <= msize, <<Val(f, 1, 4)>>)

GotRwalkStrict(sz, f) ==
  LET cnt == Val(f, 1, 2)
  IN  Got(sz >= 2 /\ cnt * 13 < sz - 2, [k \in 1 .. cnt |-> Val(f, k + 1, 13)])

GotRwalk(sz, f) ==
  LET cnt == Val(f, 1, 2)
  IN
  IF sz >= 2 /\ cnt * 13 <= sz - 2 /\ cnt > C9maxpathel
  THEN [err |-> "C9Epath", v |-> <<>>]
  ELSE Got(sz >= 2 /\ cnt * 13 <= sz - 2, [k \in 1 .. cnt |-> Val(f, k + 1, 13)])

GotRopen(sz, f) == Got(sz >= 17, <<Val(f, 1, 13), Val(f, 2, 4)>>)

GotRerror(sz, f) ==
  Got(sz >= 2 /\ Val(f, 1, 2) <= sz - 2, StringsAt(f, 1, 1))

GotQid(sz, f) == Got(sz >= 13, <<Val(f, 1, 13)>>)

GotR(p, msize) ==
  LET sz == p.size - 4 - 3
      f == p.f
      ty == p.type
  IN
  CASE ty = "Rread" -> GotRread(sz, f)
    [] ty = "Rwrite" -> GotRwrite(sz, f, msize)
    [] ty = "Rwalk" -> GotRwalk(sz, f)
    [] ty = "Rstat" -> C9parsedir(sz - 2, f, 2)
    [] ty \in {"Rflush", "Rclunk", "Rremove", "Rwstat"} -> Got(TRUE, <<>>)
    [] ty \in {"Ropen", "Rcreate"} -> GotRopen(sz, f)
    [] ty = "Rerror" -> GotRerror(sz, f)
    [] ty \in {"Rauth", "Rattach"} -> GotQid(sz, f)

-----------------------------------------------------------------------------
C9Init ==
  /\ cmsize = 0 /\ smsize \in ServerMsizes /\ svver = FALSE /\ held = FALSE
  /\ packet = NoPacket /\ called = Nothing /\ t = Nothing /\ r = Nothing
  /\ told = Nothing /\ err = "ok" /\ phase = "new"

(* T, with the message m that means v: it may be too large, newtag may     *)
(* have no tag, and begin no room, when the tag is given back.             *)
Sent(m, v) ==
  /\ packet' = m /\ called' = [type |-> m.type, v |-> v]
  /\ held' = TRUE /\ err' = "ok" /\ phase' = "sent"

NotSent(m) ==
  /\ err' \in IF m.err # "ok" THEN {m.err} ELSE {"C9Etag", "C9Ebuf"}
  /\ UNCHANGED <<packet, called, held>>

Calls(m, v) ==
  /\ phase = "idle" /\ err = "ok"
  /\ \/ m.err = "ok" /\ Sent(m, v)
     \/ NotSent(m) /\ phase' = "replied"
  /\ UNCHANGED <<cmsize, smsize, svver, t, r, told>>

(* It sets c->msize before it knows whether the message is sent.           *)
CallVersion(msize) ==
  /\ phase \in {"new", "idle"} /\ err = "ok"
  /\ \/ C9version(msize).err = "ok" /\ Sent(C9version(msize), <<>>)
     \/ NotSent(C9version(msize)) /\ phase' = "new"
  /\ cmsize' = IF msize < C9minmsize THEN cmsize ELSE msize
  /\ UNCHANGED <<smsize, svver, t, r, told>>

(* A client that is not of this library: it wants another version, or none. *)
Foreign(msize) ==
  {[err |-> "ok", type |-> "Tversion", size |-> 4 + 3 + 4 + 2 + 8,
    f |-> <<F(4, msize)>> \o Wcs(8, V.longer)],
   [err |-> "ok", type |-> "Tversion", size |-> 4 + 3 + 4 + 2 + 7,
    f |-> <<F(4, msize)>> \o Wcs(7, V.unknown)],
   C9clunk(C9minmsize)}

CallForeign(msize) ==
  /\ phase = "new" /\ ~ svver /\ err = "ok"
  /\ \E m \in Foreign(msize) : packet' = m
  /\ called' = [type |-> "foreign", v |-> <<>>]
  /\ held' = TRUE /\ phase' = "sent" /\ cmsize' = msize
  /\ UNCHANGED <<smsize, svver, t, r, told, err>>

Amounts == Counts \cup {cmsize - k : k \in Margins}

Triples == [1 .. 3 -> Lengths]

Client ==
  \/ \E lens \in [1 .. 2 -> Lengths] :
       \/ Calls(C9auth(cmsize, lens), <<V.afid>> \o Same(lens, 1))
       \/ Calls(C9attach(cmsize, lens), <<V.fid, V.afid>> \o Same(lens, 1))
  \/ Calls(C9flush(cmsize), <<V.oldtag>>)
  \/ \E path \in Paths :
       Calls(C9walk(cmsize, path), <<V.fid, V.newfid>> \o Same(path, 1))
  \/ Calls(C9open(cmsize), <<V.fid, V.mode>>)
  \/ \E len \in Lengths :
       Calls(C9create(cmsize, len), <<V.fid, len, 1, V.perm, V.mode>>)
  \/ \E count \in Amounts :
       \/ Calls(C9read(cmsize, count),
                <<V.fid, V.offset, Least(count, cmsize - 4 - 4 - 1 - 2)>>)
       \/ Calls(C9write(cmsize, count), <<V.fid, V.offset, count, V.data>>)
  \/ Calls(C9clunk(cmsize), <<V.fid>>)
  \/ Calls(C9remove(cmsize), <<V.fid>>)
  \/ Calls(C9stat(cmsize), <<V.fid>>)
  \/ \E lens \in Triples :
       Calls(C9wstat(cmsize, lens),
             <<V.fid, V.nochange, V.stat>> \o Same(lens \o <<0>>, 1))

-----------------------------------------------------------------------------
(* s9proc: a message that is too large, or comes before the version.       *)
Unfit == packet.size < 7 \/ packet.size > smsize \/ (~ svver /\ packet.type # "Tversion")

(* A version that only begins with "9P2000" will do.                       *)
KnownTo(f) == Val(f, 2, 2) >= 6 /\ f[3][2] \in {V.known, V.longer}

VersionSize(p) ==
  /\ p.size - 7 >= 4 + 2 /\ Val(p.f, 1, 4) >= C9minmsize
  /\ Val(p.f, 2, 2) <= p.size - 7 - 4 - 2

S9procRefuses ==
  /\ phase = "sent"
  /\ \/ Unfit \/ (packet.type = "Tversion" /\ ~ VersionSize(packet))
     \/ packet.type # "Tversion" /\ GotT(packet, smsize).err # "ok"
  /\ err' = IF Unfit \/ packet.type = "Tversion" THEN "C9Epkt"
            ELSE GotT(packet, smsize).err
  /\ phase' = "refused"
  /\ UNCHANGED <<cmsize, smsize, svver, held, packet, called, t, r, told>>

S9procRequest ==
  /\ phase = "sent" /\ ~ Unfit /\ packet.type # "Tversion"
  /\ GotT(packet, smsize).err = "ok"
  /\ t' = [type |-> packet.type, v |-> GotT(packet, smsize).v]
  /\ packet' = NoPacket /\ phase' = "served"
  /\ UNCHANGED <<cmsize, smsize, svver, held, called, r, told, err>>

S9procVersion ==
  /\ phase = "sent" /\ ~ Unfit /\ packet.type = "Tversion"
  /\ VersionSize(packet) /\ KnownTo(packet.f)
  /\ smsize' = Least(Val(packet.f, 1, 4), smsize)
  /\ svver' = TRUE
  /\ t' = [type |-> "Tversion", v |-> <<>>]
  /\ packet' = NoPacket /\ phase' = "served"
  /\ UNCHANGED <<cmsize, held, called, r, told, err>>

S9procUnknown ==
  /\ phase = "sent" /\ ~ Unfit /\ packet.type = "Tversion"
  /\ VersionSize(packet) /\ ~ KnownTo(packet.f)
  /\ packet' = UnknownVersion(smsize) /\ told' = [type |-> "Rversion", v |-> <<V.unknown>>]
  /\ called' = Nothing /\ phase' = "answered"
  /\ UNCHANGED <<cmsize, smsize, svver, held, t, r, err>>

(* R, with the answer m that means v.  The server tries again if it fails. *)
Answers(types, type, m, v) ==
  /\ phase = "served" /\ t.type \in types
  /\ \/ /\ m.err = "ok"
        /\ packet' = m /\ err' = "ok" /\ phase' = "answered"
        /\ told' = [type |-> type, v |-> v]
        /\ called' = Nothing /\ t' = Nothing
     \/ /\ err' = IF m.err # "ok" THEN m.err ELSE "C9Ebuf"
        /\ told' = [type |-> type, v |-> <<>>]
        /\ UNCHANGED <<packet, called, t, phase>>
  /\ UNCHANGED <<cmsize, smsize, svver, held, r>>

Requests == {"Tauth", "Tattach", "Tflush", "Twalk", "Topen", "Tcreate", "Tread",
             "Twrite", "Tclunk", "Tremove", "Tstat", "Twstat"}

Server ==
  \/ Answers({"Tversion"}, "Rversion", S9version(smsize), <<>>)
  \/ Answers({"Tauth"}, "Rauth", S9auth(smsize), <<V.qid>>)
  \/ Answers({"Tattach"}, "Rattach", S9attach(smsize), <<V.qid>>)
  \/ Answers({"Tflush"}, "Rflush", S9done(smsize, "Rflush"), <<>>)
  \/ Answers({"Tclunk"}, "Rclunk", S9done(smsize, "Rclunk"), <<>>)
  \/ Answers({"Tremove"}, "Rremove", S9done(smsize, "Rremove"), <<>>)
  \/ Answers({"Twstat"}, "Rwstat", S9done(smsize, "Rwstat"), <<>>)
  \/ \E n \in IF t.type = "Twalk" THEN 0 .. (Len(t.v) - 2) \div 2 ELSE {} :
       Answers({"Twalk"}, "Rwalk", S9walk(smsize, n), [k \in 1 .. n |-> V.qid])
  \/ Answers({"Topen"}, "Ropen", S9opened(smsize, "Ropen"), <<V.qid, V.iounit>>)
  \/ Answers({"Tcreate"}, "Rcreate", S9opened(smsize, "Rcreate"), <<V.qid, V.iounit>>)
  \/ \E size \in IF t.type = "Tread" THEN {0, t.v[3]} ELSE {} :
       Answers({"Tread"}, "Rread", S9read(smsize, size), <<size, V.data>>)
  \/ \E entries \in IF t.type = "Tread" THEN Dirs ELSE {} :
       LET n == Most(entries, t.v[3])
       IN  Answers({"Tread"}, "directory", S9readdir(smsize, entries, t.v[3]),
                   <<Bytes(entries, n), [k \in 1 .. n |-> SameEntry(entries[k])]>>)
  \/ \E size \in IF t.type = "Twrite" THEN {0, t.v[3]} ELSE {} :
       Answers({"Twrite"}, "Rwrite", S9write(smsize, size), <<size>>)
  \/ \E lens \in [1 .. 4 -> Lengths] :
       Answers({"Tstat"}, "Rstat", S9stat(smsize, lens), SameEntry(lens))
  \/ \E len \in Lengths :
       Answers(Requests, "Rerror", S9error(smsize, len), Same(<<len>>, 1))

-----------------------------------------------------------------------------
(* c9proc, and the callback that gets the reply.                           *)
UnfitReply == packet.size < 7 \/ packet.size > cmsize

KnownHere(p) == VersionSize(p) /\ Val(p.f, 2, 2) = 6 /\ p.f[3][2] = V.known

C9procFails ==
  /\ phase = "answered"
  /\ \/ UnfitReply
     \/ packet.type = "Rversion" /\ ~ KnownHere(packet)
     \/ packet.type # "Rversion" /\ GotR(packet, cmsize).err # "ok"
  /\ err' = IF ~ UnfitReply /\ packet.type = "Rversion" /\ VersionSize(packet)
            THEN "C9Ever" ELSE "C9Epkt"
  /\ phase' = "broken"
  /\ UNCHANGED <<cmsize, smsize, svver, held, packet, called, t, r, told>>

C9procReply ==
  /\ phase = "answered" /\ ~ UnfitReply /\ packet.type # "Rversion"
  /\ GotR(packet, cmsize).err = "ok"
  /\ r' = [type |-> packet.type, v |-> GotR(packet, cmsize).v]
  /\ packet' = NoPacket /\ phase' = "replied"
  /\ UNCHANGED <<cmsize, smsize, svver, held, called, t, told, err>>

C9procVersion ==
  /\ phase = "answered" /\ ~ UnfitReply /\ packet.type = "Rversion" /\ KnownHere(packet)
  /\ cmsize' = Least(Val(packet.f, 1, 4), cmsize)
  /\ r' = [type |-> "Rversion", v |-> <<>>]
  /\ packet' = NoPacket /\ phase' = "replied"
  /\ UNCHANGED <<smsize, svver, held, called, t, told, err>>

(* The caller looks at the error or the reply and gives the tag back.      *)
Returns ==
  /\ phase = "replied" \/ (phase = "new" /\ err # "ok")
  /\ held' = FALSE /\ err' = "ok" /\ told' = Nothing /\ r' = Nothing
  /\ phase' = IF phase = "replied" THEN "idle" ELSE "new"
  /\ UNCHANGED <<cmsize, smsize, svver, packet, called, t>>

(* A broken context is of no more use: both sides start afresh.            *)
Reconnect ==
  /\ phase \in {"refused", "broken"}
  /\ cmsize' = 0 /\ smsize' \in ServerMsizes /\ svver' = FALSE /\ held' = FALSE
  /\ packet' = NoPacket /\ called' = Nothing /\ t' = Nothing /\ r' = Nothing
  /\ told' = Nothing /\ err' = "ok" /\ phase' = "new"

C9Next ==
  \/ \E msize \in ClientMsizes : CallVersion(msize) \/ CallForeign(msize)
  \/ Client
  \/ S9procRefuses \/ S9procRequest \/ S9procVersion \/ S9procUnknown
  \/ Server
  \/ C9procFails \/ C9procReply \/ C9procVersion
  \/ Returns \/ Reconnect

C9Spec == C9Init /\ [][C9Next]_c9vars

-----------------------------------------------------------------------------
(* The server rejects what the client may send in two cases: an aname that *)
(* is longer than uname, because its length is taken off twice (c9.c:1082, *)
(* 1103), and a stat whose size does not fit 16 bits.                      *)
Rejected(a) ==
  \/ a.type = "Tattach" /\ a.v[4] > a.v[3]
  \/ a.type = "Tauth" /\ a.v[3] > a.v[2]
  \/ a.type = "Twstat" /\ Statsz(SubSeq(a.v, 4, 7)) + 2 > 65535

(* A request that the client library accepts is understood by the server   *)
(* library as it was meant, in each field and each string, whatever the    *)
(* sizes both sides began with; one that it does not accept leaves no tag  *)
(* behind.  This is about the size checks of c9.c:134-392 and of s9proc.   *)
RequestsArrive ==
  /\ phase = "served" /\ called.type # "foreign" => t = called
  /\ phase = "refused" => called.type = "foreign" \/ Rejected(called)
  /\ phase \in {"new", "idle"} => ~ held
  /\ phase = "replied" => (held <=> err = "ok")

(* c9proc rejects a stat, and c9parsedir an entry of a directory, that is  *)
(* too large for its 16 bits; and muid has the length of name (c9.c:853).  *)
Oversized(v) == Statsz(<<v[3], v[4], v[5], v[3]>>) + 2 > 65535

(* A reply arrives as the server meant it, and afterwards both have the    *)
(* same msize.  This is about s9walk to s9stat, c9proc and c9parsedir.     *)
RepliesArrive ==
  /\ phase = "replied" /\ err = "ok" =>
       /\ r.v = told.v \/ (told.type = "Rstat" /\ told.v[6] # told.v[3])
                       \/ (told.type = "directory" /\ told.v[1] > 65535 /\ r.v[2] = <<>>)
       /\ cmsize = smsize
  /\ phase = "broken" =>
       \/ told.type = "Rversion" /\ told.v # <<>>
       \/ told.type = "Rstat" /\ Oversized(told.v)

(* Each message is as long as it says, and no longer than its receiver     *)
(* takes; and a read of any count can be answered with all the server may  *)
(* give, or with a directory, and an open, walk or write always: only a    *)
(* stat or an error can be too large for a message.                        *)
SizesAgree ==
  /\ packet # NoPacket =>
       /\ packet.size = 7 + WireSize(packet.f)
       /\ phase = "sent" /\ called.type # "foreign" => packet.size <= smsize
       /\ phase = "answered" => packet.size <= cmsize
  /\ phase = "served" /\ err = "C9Esize" => told.type \in {"Rstat", "Rerror"}
=============================================================================
