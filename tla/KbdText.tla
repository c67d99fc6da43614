------------------------------ MODULE KbdText ------------------------------
(* The text of /dev/kbd: kbdread of wl9.c, what kbdevent makes of a        *)
(* message, and utf8dec of util.c.  What is done with an event is Kbd.     *)
EXTENDS Integers, Sequences, SequencesExt

CONSTANTS
  Runes,         \* runes of keys
  Bad,           \* strings of bytes that utf8dec cannot read
  MaxKeys,       \* keys of a message
  MaxMessages,   \* messages of a reply
  COUNT          \* bytes that are read at once; 256 in the code

VARIABLES
  sent,      \* rio: the messages of the reply, a kind and its keys
  reply,     \* reply->read.data
  pos,       \* pos in kbdread; when it is NULL, 0, or -1 if memory is out
  events     \* what kbdevent went on with

textv == <<sent, reply, pos, events>>

Pressing == 107
Releasing == 75

(* The UTF-8 of a rune.                                                    *)
Encoded(r) ==
  IF r < 128 THEN <<r>>
  ELSE IF r < 2048 THEN <<192 + (r \div 64), 128 + (r % 64)>>
  ELSE IF r < 65536 THEN <<224 + (r \div 4096), 128 + ((r \div 64) % 64), 128 + (r % 64)>>
  ELSE <<240 + (r \div 262144), 128 + ((r \div 4096) % 64),
         128 + ((r \div 64) % 64), 128 + (r % 64)>>

Key(r) == [rune |-> r, text |-> Encoded(r)]

NoKey(text) == [rune |-> -1, text |-> text]

Text(m) == <<m.kind>> \o FlattenSeq([i \in DOMAIN m.keys |-> m.keys[i].text]) \o <<0>>

(* No byte of a key is 0.                                                 *)
Bytes == 1 .. 255

(* 99 stands for every other kind.                                         *)
Messages ==
  [kind : {Pressing, Releasing, 99},
   keys : UNION {[1 .. n -> {Key(r) : r \in Runes} \cup {NoKey(b) : b \in Bad}]
                  : n \in 0 .. MaxKeys}]

Whole(ms) == FlattenSeq([i \in DOMAIN ms |-> Text(ms[i])])

(* A reply may be cut short, anywhere.                                     *)
TextInit ==
  /\ sent \in UNION {[1 .. n -> Messages] : n \in 1 .. MaxMessages}
  /\ reply = IF Len(Whole(sent)) <= COUNT THEN Whole(sent) ELSE SubSeq(Whole(sent), 1, COUNT)
  /\ pos = 1 /\ events = <<>>

-----------------------------------------------------------------------------
(* Length and first bits by the first byte; the length is 0 if there is no *)
(* such rune.                                                              *)
Lead(b) ==
  CASE b < 128 -> [l |-> 1, x |-> b]
    [] 192 <= b /\ b < 224 -> [l |-> 2, x |-> b % 32]
    [] 224 <= b /\ b < 240 -> [l |-> 3, x |-> b % 16]
    [] 240 <= b /\ b < 248 -> [l |-> 4, x |-> b % 8]
    [] OTHER -> [l |-> 0, x |-> 0]

Continuation == {b \in Nat : 128 <= b /\ b < 192}

Joined(lead, s) ==
  LET bits[i \in 1 .. lead.l] == IF i = 1 THEN lead.x ELSE 64 * bits[i - 1] + (s[i] % 64)
  IN  bits[lead.l]

SurrogateSigned(x) == x - 55296 < 512

(* The difference has no sign.                                             *)
Surrogate(x) == x >= 55296 /\ x < 55808

Unread == [l |-> 0, x |-> 0]

Utf8dec(s) ==
  LET lead == Lead(s[1])
  IN  IF \/ lead.l \notin 1 .. Len(s)
         \/ \E i \in 2 .. lead.l : s[i] \notin Continuation
         \/ lead.l > 1 /\ (Joined(lead, s) >= 1114112 \/ Surrogate(Joined(lead, s)))
      THEN Unread
      ELSE [l |-> lead.l, x |-> Joined(lead, s)]

(* A turn of the loop of kbdevent over the keys, and all of them; at is 0  *)
(* when there is one that it cannot read.                                  *)
Turn(s, a) ==
  IF a.at \notin 1 .. Len(s) THEN a
  ELSE LET d == Utf8dec(SubSeq(s, a.at, Len(s)))
       IN  IF d.l = 0 THEN [a EXCEPT !.at = 0]
           ELSE [at |-> a.at + d.l, keys |-> Append(a.keys, d.x)]

Decoded(s) ==
  LET after[n \in 0 .. Len(s)] ==
        IF n = 0 THEN [at |-> 1, keys |-> <<>>] ELSE Turn(s, after[n - 1])
  IN  after[Len(s)]

(* A press has its key last, a release none.                               *)
EventOf(kind, ks) ==
  IF kind = Pressing THEN [kind |-> kind, keys |-> Front(ks), key |-> Last(ks)]
  ELSE [kind |-> kind, keys |-> ks, key |-> -1]

End == {i \in pos .. Len(reply) : reply[i] = 0 /\ \A j \in pos .. i - 1 : reply[j] # 0}

Refused(kind, d) == d.at = 0 \/ (kind = Pressing /\ d.keys = <<>>)

(* What kbdevent returns when it is done: NULL if wl_array_copy fails.     *)
Returned(end, ks) == {end + 1} \cup (IF ks = <<>> THEN {} ELSE {-1})

(* One turn of the loop in kbdread.                                        *)
Kbdevent ==
  /\ pos \in 1 .. Len(reply)
  /\ \/ End = {} /\ pos' = 0 /\ UNCHANGED events
     \/ \E end \in End :
          LET kind == reply[pos]
              d == Decoded(SubSeq(reply, pos + 1, end - 1))
          IN  \/ kind \notin {Pressing, Releasing} /\ pos' = end + 1 /\ UNCHANGED events
              \/ /\ kind \in {Pressing, Releasing} /\ Refused(kind, d)
                 /\ pos' = 0 /\ UNCHANGED events
              \/ /\ kind \in {Pressing, Releasing} /\ ~ Refused(kind, d)
                 /\ pos' \in Returned(end, d.keys)
                 /\ events' = Append(events, EventOf(kind, d.keys))
  /\ UNCHANGED <<sent, reply>>

(* wl_array_add fails.                                                     *)
KeysFail ==
  /\ pos \in 1 .. Len(reply) /\ reply[pos] \in {Pressing, Releasing}
  /\ \E end \in End : end > pos + 1
  /\ pos' = -1
  /\ UNCHANGED <<sent, reply, events>>

KbdreadEnds ==
  /\ pos \notin 1 .. Len(reply)
  /\ UNCHANGED textv

TextNext == Kbdevent \/ KeysFail \/ KbdreadEnds

TextSpec == TextInit /\ [][TextNext]_textv

-----------------------------------------------------------------------------
(* A string of Bad stays bad whatever follows it: none that is cut short   *)
(* is followed by one that may be its rest.                                *)
Cut(b) == Len(b) < Lead(b[1]).l

KbdTextAssumption ==
  /\ Runes \subseteq Nat
  /\ \A r \in Runes : r > 0 /\ r < 1114112 /\ (r < 55296 \/ r >= 57344)
  /\ Bad \subseteq Seq(Bytes) \ {<<>>}
  /\ \A b \in Bad : /\ Utf8dec(b).l = 0
                    /\ Cut(b) => \A c \in Bad : c[1] \notin Continuation
  /\ MaxKeys \in Nat /\ MaxMessages \in Nat /\ COUNT \in Nat

-----------------------------------------------------------------------------
(* What the messages mean, if they are in order.                           *)
Meaning(m) ==
  IF m.kind \in {Pressing, Releasing}
  THEN <<EventOf(m.kind, [i \in DOMAIN m.keys |-> m.keys[i].rune])>> ELSE <<>>

Meant(ms) == FlattenSeq([i \in DOMAIN ms |-> Meaning(ms[i])])

InOrder(m) ==
  m.kind \in {Pressing, Releasing} =>
    (\A i \in DOMAIN m.keys : m.keys[i].rune # -1) /\ (m.kind = Pressing => m.keys # <<>>)

Starts(i) == Len(Whole(SubSeq(sent, 1, i)))

(* Messages that wl9 gets: all that are whole, up to one it cannot read.   *)
Arrive ==
  {n \in 0 .. Len(sent) : Starts(n) <= COUNT /\ \A i \in 1 .. n : InOrder(sent[i])}

(* The events of a reply are those that rio sent, key for key: none is     *)
(* made up of a message that is cut short or is not UTF-8, and none is     *)
(* lost but with such a message, or for want of memory (wl9.c:583-613,     *)
(* 685-689, util.c:52-86).  Beyond UTF-8, utf8dec takes forms that are too *)
(* long and the surrogates from 0xda00.                                    *)
TextAgrees ==
  \E n \in Arrive :
    /\ events = Meant(SubSeq(sent, 1, n))
    /\ pos = 0 => n < Len(sent) /\ n + 1 \notin Arrive
    /\ pos > Len(reply) => Starts(n) = Len(reply)
=============================================================================
