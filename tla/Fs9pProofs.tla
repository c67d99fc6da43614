----------------------------- MODULE Fs9pProofs -----------------------------
(***************************************************************************)
(* Proofs about Fs9p for any number of tags, readers and operations.       *)
(***************************************************************************)
EXTENDS Fs9p, SequenceTheorems, TLAPS

-----------------------------------------------------------------------------
(* Sequences without duplicates, seen as sets: what the operations on the  *)
(* request stream, the reply stream and the reply queue of Fs9p do to the  *)
(* set of their messages.                                                  *)

(* A message put at the end of tx or rx.                                   *)
LEMMA AppendSet ==
  ASSUME NEW S, NEW s \in Seq(S), NEW e \in S
  PROVE  /\ Append(s, e) \in Seq(S)
         /\ Append(s, e) # <<>>
         /\ Len(Append(s, e)) = Len(s) + 1
         /\ ToSet(Append(s, e)) = ToSet(s) \cup {e}
         /\ IsInjective(s) /\ e \notin ToSet(s) => IsInjective(Append(s, e))
<1>1. /\ Append(s, e) \in Seq(S)
      /\ Append(s, e) # <<>>
      /\ Len(Append(s, e)) = Len(s) + 1
  BY AppendProperties
<1>2. /\ \A i \in 1 .. Len(s) : Append(s, e)[i] = s[i]
      /\ Append(s, e)[Len(s) + 1] = e
      /\ DOMAIN s = 1 .. Len(s)
      /\ DOMAIN Append(s, e) = 1 .. Len(s) + 1
      /\ Len(s) \in Nat
  BY AppendProperties
<1>3. ToSet(Append(s, e)) = ToSet(s) \cup {e}
  BY <1>2 DEF ToSet
<1>4. ASSUME IsInjective(s), e \notin ToSet(s)
      PROVE  IsInjective(Append(s, e))
  BY <1>2, <1>4 DEF IsInjective, ToSet
<1> QED  BY <1>1, <1>3, <1>4

(* A message taken from the front of tx, rx or the queue.                  *)
LEMMA TailSet ==
  ASSUME NEW S, NEW s \in Seq(S), s # <<>>
  PROVE  /\ Tail(s) \in Seq(S)
         /\ Len(Tail(s)) = Len(s) - 1
         /\ Head(s) \in S
         /\ Head(s) \in ToSet(s)
         /\ ToSet(Tail(s)) \subseteq ToSet(s)
         /\ ToSet(s) = ToSet(Tail(s)) \cup {Head(s)}
         /\ IsInjective(s) => /\ IsInjective(Tail(s))
                              /\ ToSet(Tail(s)) = ToSet(s) \ {Head(s)}
<1>1. /\ Tail(s) \in Seq(S)
      /\ Len(Tail(s)) = Len(s) - 1
      /\ Head(s) \in S
  BY HeadTailProperties
<1>2. /\ \A i \in 1 .. Len(s) - 1 : Tail(s)[i] = s[i + 1]
      /\ Head(s) = s[1]
      /\ DOMAIN s = 1 .. Len(s)
      /\ DOMAIN Tail(s) = 1 .. Len(s) - 1
      /\ Len(s) \in Nat \ {0}
  BY <1>1, HeadTailProperties, EmptySeq, LenProperties
<1>3. Head(s) \in ToSet(s)
  BY <1>2 DEF ToSet
<1>4. \A i \in DOMAIN s : i # 1 => i - 1 \in DOMAIN Tail(s) /\ Tail(s)[i - 1] = s[i]
  BY <1>2
<1>5. \A i \in DOMAIN Tail(s) : i + 1 \in DOMAIN s /\ Tail(s)[i] = s[i + 1] /\ i + 1 # 1
  BY <1>2
<1>6. /\ ToSet(Tail(s)) \subseteq ToSet(s)
      /\ ToSet(s) = ToSet(Tail(s)) \cup {Head(s)}
  BY <1>2, <1>4, <1>5 DEF ToSet
<1>7. ASSUME IsInjective(s)
      PROVE  IsInjective(Tail(s)) /\ Head(s) \notin ToSet(Tail(s))
  BY <1>2, <1>5, <1>7 DEF ToSet, IsInjective
<1> QED  BY <1>1, <1>3, <1>6, <1>7

(* A reply put in front of the queue.                                      *)
LEMMA ConsSet ==
  ASSUME NEW S, NEW s \in Seq(S), NEW e \in S
  PROVE  /\ Cons(e, s) \in Seq(S)
         /\ ToSet(Cons(e, s)) = ToSet(s) \cup {e}
         /\ IsInjective(s) /\ e \notin ToSet(s) => IsInjective(Cons(e, s))
<1> DEFINE c == Cons(e, s)
<1>1. /\ c \in Seq(S)
      /\ Len(c) = Len(s) + 1
      /\ c[1] = e
      /\ \A i \in 1 .. Len(s) + 1 : i # 1 => c[i] = s[i - 1]
  BY DEF Cons
<1>2. DOMAIN s = 1 .. Len(s) /\ DOMAIN c = 1 .. Len(s) + 1 /\ Len(s) \in Nat
  BY <1>1
<1>3. \A i \in DOMAIN s : i + 1 \in DOMAIN c /\ c[i + 1] = s[i]
  BY <1>1, <1>2
<1>4. \A i \in DOMAIN c : i # 1 => i - 1 \in DOMAIN s /\ c[i] = s[i - 1]
  BY <1>1, <1>2
<1>5. ToSet(c) = ToSet(s) \cup {e}
  BY <1>1, <1>2, <1>3, <1>4 DEF ToSet
<1>6. ASSUME IsInjective(s), e \notin ToSet(s)
      PROVE  IsInjective(c)
  BY <1>1, <1>2, <1>4, <1>6 DEF IsInjective, ToSet
<1> QED  BY <1>1, <1>5, <1>6

(* A reply unlinked from the middle of the queue.                          *)
LEMMA RemoveAtSet ==
  ASSUME NEW S, NEW s \in Seq(S), NEW k \in 1 .. Len(s), IsInjective(s),
         NEW v, v = RemoveAt(s, k)
  PROVE  /\ v \in Seq(S)
         /\ ToSet(v) = ToSet(s) \ {s[k]}
         /\ IsInjective(v)
<1> DEFINE a == SubSeq(s, 1, k - 1)
           b == SubSeq(s, k + 1, Len(s))
<1>0. /\ DOMAIN s = 1 .. Len(s) /\ Len(s) \in Nat
      /\ \A i \in 1 .. Len(s) : s[i] \in S
  BY LenProperties, ElementOfSeq
<1>1. /\ a \in Seq(S) /\ Len(a) = k - 1
      /\ \A i \in 1 .. k - 1 : a[i] = s[i]
  <2>1. \A i \in 1 .. k - 1 : s[i] \in S
    BY <1>0
  <2>2. 1 \in Int /\ k - 1 \in Int
    BY <1>0
  <2>3. /\ a \in Seq(S)
        /\ Len(a) = IF 1 <= k - 1 THEN (k - 1) - 1 + 1 ELSE 0
        /\ \A i \in 1 .. (k - 1) - 1 + 1 : a[i] = s[1 + i - 1]
    BY <2>1, <2>2, SubSeqProperties
  <2> QED  BY <2>3, <1>0
<1>2. /\ b \in Seq(S) /\ Len(b) = Len(s) - k
      /\ \A i \in 1 .. Len(s) - k : b[i] = s[k + i]
  <2>1. \A i \in k + 1 .. Len(s) : s[i] \in S
    BY <1>0
  <2>2. k + 1 \in Int /\ Len(s) \in Int
    BY <1>0
  <2>3. /\ b \in Seq(S)
        /\ Len(b) = IF k + 1 <= Len(s) THEN Len(s) - (k + 1) + 1 ELSE 0
        /\ \A i \in 1 .. Len(s) - (k + 1) + 1 : b[i] = s[(k + 1) + i - 1]
    BY <2>1, <2>2, SubSeqProperties
  <2>4. Len(s) - (k + 1) + 1 = Len(s) - k
    BY <1>0
  <2>5. Len(b) = Len(s) - k
    <3>1. Len(b) = IF k + 1 <= Len(s) THEN Len(s) - (k + 1) + 1 ELSE 0
      BY <2>3
    <3> HIDE DEF b
    <3>2. k \in Int /\ k <= Len(s) /\ Len(s) \in Int
      BY <1>0
    <3>3. CASE k + 1 <= Len(s)
      BY <3>1, <3>3, <2>4
    <3>4. CASE ~ (k + 1 <= Len(s))
      BY <3>1, <3>2, <3>4
    <3> QED  BY <3>3, <3>4
  <2>6. ASSUME NEW i \in 1 .. Len(s) - k PROVE b[i] = s[k + i]
    <3>1. (k + 1) + i - 1 = k + i
      BY <1>0
    <3> HIDE DEF b
    <3> QED  BY <2>3, <2>4, <3>1
  <2> QED  BY <2>3, <2>5, <2>6
<1>3. v = a \o b
  BY DEF RemoveAt
<1> HIDE DEF a, b
<1>4. /\ v \in Seq(S)
      /\ DOMAIN v = 1 .. Len(s) - 1
      /\ \A i \in 1 .. Len(s) - 1 : v[i] = IF i < k THEN s[i] ELSE s[i + 1]
  <2>0. a \in Seq(S) /\ b \in Seq(S)
    BY <1>1, <1>2
  <2>1. /\ v \in Seq(S)
        /\ Len(v) = Len(a) + Len(b)
        /\ \A i \in 1 .. Len(a) + Len(b) :
             v[i] = IF i <= Len(a) THEN a[i] ELSE b[i - Len(a)]
    BY <2>0, <1>3, ConcatProperties, ZenonT(30)
  <2>2. Len(v) = Len(s) - 1 /\ DOMAIN v = 1 .. Len(s) - 1
    <3>1. Len(v) = Len(s) - 1
      BY <2>1, <1>0, <1>1, <1>2
    <3>2. DOMAIN v = 1 .. Len(v)
      BY <2>1
    <3> QED  BY <3>1, <3>2
  <2>3. ASSUME NEW i \in 1 .. Len(s) - 1
        PROVE  v[i] = IF i < k THEN s[i] ELSE s[i + 1]
    <3>1. i \in 1 .. Len(a) + Len(b) /\ i \in Int /\ k \in Int
      BY <1>0, <1>1, <1>2
    <3>2. CASE i < k
      <4>1. i <= Len(a) /\ i \in 1 .. k - 1
        BY <3>1, <3>2, <1>1
      <4> QED  BY <4>1, <3>1, <3>2, <2>1, <1>1
    <3>3. CASE ~ (i < k)
      <4>1. /\ ~ (i <= Len(a))
            /\ i - Len(a) \in 1 .. Len(s) - k
            /\ k + (i - Len(a)) = i + 1
        BY <3>1, <3>3, <1>0, <1>1
      <4>2. v[i] = b[i - Len(a)]
        BY <4>1, <3>1, <2>1
      <4> QED  BY <4>1, <4>2, <3>3, <1>2
    <3> QED  BY <3>2, <3>3
  <2> QED  BY <2>1, <2>2, <2>3
<1> DEFINE from(j) == IF j < k THEN j ELSE j + 1
<1>5. \A j \in DOMAIN v : from(j) \in DOMAIN s /\ from(j) # k /\ v[j] = s[from(j)]
  BY <1>0, <1>4
<1>6. \A i \in DOMAIN s : i # k => \E j \in DOMAIN v : v[j] = s[i]
  <2> SUFFICES ASSUME NEW i \in DOMAIN s, i # k
               PROVE  \E j \in DOMAIN v : v[j] = s[i]
    OBVIOUS
  <2>1. CASE i < k
    BY <2>1, <1>0, <1>4
  <2>2. CASE i > k
    <3>1. i - 1 \in DOMAIN v /\ v[i - 1] = s[i]
      BY <2>2, <1>0, <1>4
    <3> QED  BY <3>1
  <2> QED  BY <2>1, <2>2, <1>0
<1>7. \A i \in DOMAIN s : s[i] = s[k] <=> i = k
  BY <1>0 DEF IsInjective
<1>8. ToSet(v) = ToSet(s) \ {s[k]}
  BY <1>5, <1>6, <1>7 DEF ToSet
<1>9. \A i, j \in DOMAIN v : from(i) = from(j) => i = j
  BY <1>0, <1>4
<1>10. IsInjective(v)
  BY <1>5, <1>9 DEF IsInjective
<1> QED  BY <1>4, <1>8, <1>10

-----------------------------------------------------------------------------

(***************************************************************************)
(* The inductive invariant.  TagsUnique and CallbackMatches are not        *)
(* inductive alone: that a tag may be freed depends on who knows it, the   *)
(* handler that posted a request, the fswait and the fsflush that run, the *)
(* dispatch of a reply, and that a flushed tag may be freed on where the   *)
(* flush and the old request are.                                          *)
(***************************************************************************)
Running == {"run", "search", "fswait"}

CurOK ==
  /\ cur = NOTAG <=> fn = None
  /\ cur # NOTAG => /\ pc \in Running
                    /\ cur \in inuse
                    /\ cb[cur] = None

PostedOK ==
  /\ posted # {} => pc \in Running
  /\ \A t \in posted : t \in inuse /\ cb[t] = None /\ t # cur

WaitOK ==
  /\ wtag # NOTAG <=> pc \in {"search", "fswait"}
  /\ wtag # NOTAG => /\ wtag \in inuse
                     /\ cb[wtag] = None
                     /\ wtag # cur
                     /\ wtag \notin posted

(* The only flush on its way is the one that fsflush waits for.            *)
FlushOK ==
  /\ flushing => wtag # NOTAG /\ cur = NOTAG
  /\ ~ flushing => wold = NOTAG
  /\ wold # NOTAG => wold \in inuse /\ cb[wold] # None
  /\ \A m \in InFlight : m.op = "flush" <=> flushing /\ m.tag = wtag
  /\ \A m \in InFlight : m.op = "flush" => m.old = wold
  /\ \A m \in ToSet(queue) : m.op = "io"

FlushIn(s) == \E m \in s : m.op = "flush"

(* The Tflush is the last request, and the Rflush comes after the reply to *)
(* the old request, if there is one.                                       *)
FlushLast ==
  /\ \A i \in DOMAIN tx : tx[i].op = "flush" => i = Len(tx)
  /\ FlushIn(srv) \/ FlushIn(ToSet(rx)) => tx = <<>>
  /\ FlushIn(ToSet(rx)) => \A m \in srv : m.tag # wold
  /\ \A i, j \in DOMAIN rx : rx[i].op = "flush" /\ i < j => rx[j].tag # wold

(* A reader has at most one read outstanding.                              *)
OneReadPerReader ==
  \A t, u \in Tag : cb[t] = cb[u] /\ cb[t] # None => t = u

IInv ==
  /\ TypeOK
  /\ OneMessagePerTag
  /\ OnePlacePerMessage
  /\ TagsInUse
  /\ CallbackMatches
  /\ NoTagLost
  /\ WaitNotBuried
  /\ CurOK
  /\ PostedOK
  /\ WaitOK
  /\ FlushOK
  /\ FlushLast
  /\ OneReadPerReader

-----------------------------------------------------------------------------
(* 0xffff is not a tag that numget hands out.                              *)
LEMMA NotagIsFree == NOTAG \notin Tag
  BY MaxTagAssumption DEF NOTAG, Tag

LEMMA InitInv == Init => IInv
<1> SUFFICES ASSUME Init PROVE IInv
  OBVIOUS
<1> USE DEF Init
<1>1. ToSet(tx) = {} /\ ToSet(rx) = {} /\ ToSet(queue) = {} /\ InFlight = {}
  BY DEF ToSet, InFlight
<1>2. IsInjective(tx) /\ IsInjective(rx) /\ IsInjective(queue)
  BY DEF IsInjective
<1>3. TypeOK
  <2>1. /\ queue \in Seq(Message) /\ tx \in Seq(Message) /\ rx \in Seq(Message)
        /\ nsent \in 0 .. Len(tx) /\ nread \in 0 .. Len(rx)
    OBVIOUS
  <2>2. ops \in 0 .. MaxOps
    BY MaxOpsAssumption
  <2>3. cb \in [Tag -> Reader \cup {None}]
    OBVIOUS
  <2> QED  BY <2>1, <2>2, <2>3 DEF TypeOK, PC, EventSource
<1>4. OneMessagePerTag /\ OnePlacePerMessage /\ TagsInUse /\ NoTagLost
  BY <1>1, <1>2 DEF OneMessagePerTag, OnePlacePerMessage, TagsInUse, NoTagLost
<1>5. CallbackMatches /\ OneReadPerReader
  BY <1>1 DEF CallbackMatches, OneReadPerReader
<1>6. WaitNotBuried /\ CurOK /\ PostedOK /\ WaitOK
  BY DEF WaitNotBuried, CurOK, PostedOK, WaitOK
<1>7. FlushOK /\ FlushLast
  BY <1>1 DEF FlushOK, FlushLast, FlushIn
<1> QED  BY <1>3, <1>4, <1>5, <1>6, <1>7 DEF IInv

LEMMA DispatchUnclaimedInv == IInv /\ DispatchUnclaimed => IInv'
<1> SUFFICES ASSUME IInv, DispatchUnclaimed PROVE IInv'
  OBVIOUS
<1> USE DEF client, wbufv, rbufv, waitv, loopv, callv
<1> DEFINE h == Head(queue)
<1>0. /\ UNCHANGED <<cb, tx, nsent, rx, nread, srv, pc, cur, fn, posted, wtag, wold, flushing, ops, ev, mask, leaving>>
      /\ inuse' = inuse \ {h.tag}
      /\ queue' = Tail(queue)
      /\ pc = "fsdispatch"
      /\ cb[h.tag] = None
      /\ queue # <<>>
  BY DEF DispatchUnclaimed
<1>1. /\ queue' \in Seq(Message)
      /\ IsInjective(queue')
      /\ h \in Message
      /\ h \in ToSet(queue)
      /\ ToSet(queue') = ToSet(queue) \ {h}
  BY <1>0, TailSet DEF IInv, TypeOK, OnePlacePerMessage
<1> HIDE DEF h
<1>2. InFlight' = InFlight \ {h}
  BY <1>0, <1>1 DEF InFlight, IInv, OnePlacePerMessage
<1>3. TypeOK'
  BY <1>0, <1>1 DEF IInv, TypeOK
<1>4. h \in InFlight
  BY <1>1 DEF InFlight
<1>5. OneMessagePerTag'
  BY <1>2 DEF IInv, OneMessagePerTag
<1>6. OnePlacePerMessage'
  BY <1>0, <1>1 DEF IInv, OnePlacePerMessage
<1>7. TagsInUse'
  BY <1>0, <1>2, <1>4 DEF IInv, TagsInUse, OneMessagePerTag
<1>8. CallbackMatches'
  BY <1>0, <1>2 DEF IInv, CallbackMatches
<1>9. NoTagLost'
  BY <1>0, <1>2 DEF IInv, NoTagLost
<1>10. WaitNotBuried' /\ CurOK' /\ PostedOK' /\ WaitOK'
  BY <1>0 DEF IInv, WaitNotBuried, CurOK, PostedOK, WaitOK, Running
<1>11. FlushOK'
  BY <1>0, <1>1, <1>2 DEF IInv, FlushOK, WaitOK
<1>12. FlushLast'
  BY <1>0 DEF IInv, FlushLast, FlushIn
<1>13. OneReadPerReader'
  BY <1>0 DEF IInv, OneReadPerReader
<1> QED  BY <1>3, <1>5, <1>6, <1>7, <1>8, <1>9, <1>10, <1>11, <1>12, <1>13 DEF IInv

LEMMA DispatchCallbackInv == IInv /\ DispatchCallback => IInv'
<1> SUFFICES ASSUME IInv, DispatchCallback PROVE IInv'
  OBVIOUS
<1> USE DEF client, wbufv, rbufv, waitv, loopv, callv, Unregister
<1> DEFINE h == Head(queue)
<1>0. /\ UNCHANGED <<inuse, tx, nsent, rx, nread, srv, posted, wtag, wold, flushing, ops, ev, mask, leaving>>
      /\ cb' = Unregister(h.tag)
      /\ cb[h.tag] # None
      /\ fn' = cb[h.tag]
      /\ cur' = h.tag
      /\ queue' = Tail(queue)
      /\ pc = "fsdispatch" /\ pc' = "run"
      /\ queue # <<>>
  BY DEF DispatchCallback
<1>1. /\ queue' \in Seq(Message)
      /\ IsInjective(queue')
      /\ h \in Message
      /\ h \in ToSet(queue)
      /\ ToSet(queue') = ToSet(queue) \ {h}
  BY <1>0, TailSet DEF IInv, TypeOK, OnePlacePerMessage
<1> HIDE DEF h
<1>2. InFlight' = InFlight \ {h} /\ h \in InFlight
  BY <1>0, <1>1 DEF InFlight, IInv, OnePlacePerMessage
<1>3. h.tag \in Tag /\ h.tag # NOTAG
  BY <1>1 DEF Message, Tag, NOTAG
<1>4. cur = NOTAG /\ wtag = NOTAG /\ ~ flushing /\ wold = NOTAG /\ posted = {}
  BY <1>0 DEF IInv, CurOK, WaitOK, FlushOK, PostedOK, Running
<1>5. \A m \in InFlight' : m.tag # h.tag
  BY <1>2 DEF IInv, OneMessagePerTag
<1>6. TypeOK'
  BY <1>0, <1>1, <1>3 DEF IInv, TypeOK, PC
<1>7. OneMessagePerTag' /\ OnePlacePerMessage'
  BY <1>0, <1>1, <1>2 DEF IInv, OneMessagePerTag, OnePlacePerMessage
<1>8. TagsInUse'
  BY <1>0, <1>2, <1>4, <1>5 DEF IInv, TagsInUse
<1>9. CallbackMatches'
  <2>1. \A t \in Tag : cb'[t] = IF t = h.tag THEN None ELSE cb[t]
    BY <1>0
  <2>2. \A m \in InFlight' : m.tag \in Tag
    BY <1>2 DEF IInv, TagsInUse, TypeOK
  <2> QED  BY <2>1, <2>2, <1>0, <1>2, <1>5 DEF IInv, CallbackMatches
<1>10. NoTagLost'
  BY <1>0, <1>2, <1>4, NotagIsFree DEF IInv, NoTagLost, TypeOK
<1>11. WaitNotBuried' /\ WaitOK' /\ PostedOK'
  BY <1>0, <1>4 DEF IInv, WaitNotBuried, PostedOK, WaitOK
<1>12. CurOK'
  BY <1>0, <1>2, <1>3 DEF IInv, CurOK, TagsInUse, Running, TypeOK
<1>13. FlushOK'
  BY <1>0, <1>1, <1>2, <1>4 DEF IInv, FlushOK
<1>14. FlushLast'
  BY <1>0 DEF IInv, FlushLast, FlushIn
<1>15. OneReadPerReader'
  BY <1>0, <1>3 DEF IInv, OneReadPerReader, TypeOK
<1> QED  BY <1>6, <1>7, <1>8, <1>9, <1>10, <1>11, <1>12, <1>13, <1>14, <1>15
            DEF IInv

LEMMA CallbackReturnsInv == IInv /\ CallbackReturns => IInv'
<1> SUFFICES ASSUME IInv, CallbackReturns PROVE IInv'
  OBVIOUS
<1> USE DEF client, wbufv, rbufv, waitv, loopv, callv
<1>0. /\ UNCHANGED <<cb, queue, tx, nsent, rx, nread, srv, wtag, wold, flushing, ops, ev, mask, leaving>>
      /\ pc = "run" /\ pc' = "fsdispatch"
      /\ cur # NOTAG /\ cur' = NOTAG
      /\ inuse' = inuse \ {cur}
      /\ fn' = None
      /\ posted' = {}
  BY DEF CallbackReturns
<1>1. InFlight' = InFlight
  BY <1>0 DEF InFlight
<1>2. wtag = NOTAG /\ ~ flushing /\ wold = NOTAG
  BY <1>0 DEF IInv, WaitOK, FlushOK
<1>3. TypeOK'
  BY <1>0 DEF IInv, TypeOK, PC
<1>4. OneMessagePerTag' /\ OnePlacePerMessage'
  BY <1>0, <1>1 DEF IInv, OneMessagePerTag, OnePlacePerMessage
<1>5. TagsInUse'
  <2>1. \A m \in InFlight : m.tag \in Tag
    BY DEF IInv, TagsInUse, TypeOK
  <2> QED  BY <2>1, <1>0, <1>1 DEF IInv, TagsInUse, Tag, NOTAG
<1>6. CallbackMatches'
  BY <1>0, <1>1 DEF IInv, CallbackMatches, CurOK
<1>7. NoTagLost'
  BY <1>0, <1>1, <1>2 DEF IInv, NoTagLost
<1>8. WaitNotBuried' /\ CurOK' /\ PostedOK' /\ WaitOK'
  BY <1>0, <1>2 DEF WaitNotBuried, CurOK, PostedOK, WaitOK
<1>9. FlushOK' /\ FlushLast' /\ OneReadPerReader'
  BY <1>0, <1>1, <1>2 DEF IInv, FlushOK, FlushLast, FlushIn, OneReadPerReader
<1> QED  BY <1>3, <1>4, <1>5, <1>6, <1>7, <1>8, <1>9 DEF IInv

(* The steps that move no message and wait for none.                       *)
LEMMA QuietInv ==
  ASSUME IInv, TypeOK',
         UNCHANGED <<inuse, cb, queue, tx, rx, srv, cur, fn, wtag, wold, flushing>>,
         posted' = posted \/ posted' = {},
         posted' # {} \/ cur # NOTAG => pc' \in Running,
         wtag # NOTAG <=> pc' \in {"search", "fswait"},
         pc' = "fswait" => pc = "fswait" \/ wtag \notin TagsIn(queue)
  PROVE  IInv'
<1>1. InFlight' = InFlight
  BY DEF InFlight
<1>2. /\ OneMessagePerTag' /\ OnePlacePerMessage' /\ TagsInUse'
      /\ CallbackMatches' /\ NoTagLost'
  BY <1>1 DEF IInv, OneMessagePerTag, OnePlacePerMessage, TagsInUse,
              CallbackMatches, NoTagLost
<1>3. WaitNotBuried' /\ CurOK' /\ PostedOK' /\ WaitOK'
  BY DEF IInv, WaitNotBuried, CurOK, PostedOK, WaitOK, TagsIn
<1>4. FlushOK' /\ FlushLast' /\ OneReadPerReader'
  BY <1>1 DEF IInv, FlushOK, FlushLast, FlushIn, OneReadPerReader
<1> QED  BY <1>2, <1>3, <1>4 DEF IInv

LEMMA LoopInv ==
  ASSUME IInv,
         \/ \E events \in SUBSET EventSource : Poll(events)
         \/ DestructorsStart \/ ClientsFlushed
         \/ HandlerStarts \/ FsReady \/ EventsEnd \/ FsReadAgain
         \/ Read9p \/ DispatchEnds \/ HandlerReturns \/ FswaitNotQueued
         \/ UNCHANGED vars
  PROVE  IInv'
<1> USE DEF client, wbufv, rbufv, waitv, loopv, callv
<1>0. /\ posted # {} => pc \in Running
      /\ cur # NOTAG => pc \in Running
      /\ wtag # NOTAG <=> pc \in {"search", "fswait"}
  BY DEF IInv, PostedOK, CurOK, WaitOK
<1>1. ASSUME NEW events \in SUBSET EventSource, Poll(events) PROVE IInv'
  <2>1. TypeOK'
    BY <1>1 DEF IInv, TypeOK, Poll, PC
  <2> QED  BY <2>1, <1>0, <1>1, QuietInv DEF Poll, Running
<1>2. CASE HandlerStarts
  <2>1. TypeOK'
    BY <1>2 DEF IInv, TypeOK, HandlerStarts, PC
  <2> QED  BY <2>1, <1>0, <1>2, QuietInv DEF HandlerStarts, Running
<1>3. CASE FsReady
  <2>1. TypeOK'
    <3>1. nsent' \in 0 .. Len(tx)
      BY <1>3 DEF IInv, TypeOK, FsReady, WriteSome
    <3> QED  BY <3>1, <1>3 DEF IInv, TypeOK, FsReady, PC
  <2> QED  BY <2>1, <1>0, <1>3, QuietInv DEF FsReady, Running
<1>4. CASE EventsEnd
  <2>1. TypeOK'
    BY <1>4 DEF IInv, TypeOK, EventsEnd, PC
  <2> QED  BY <2>1, <1>0, <1>4, QuietInv DEF EventsEnd, Running
<1>5. CASE FsReadAgain
  <2>1. TypeOK'
    BY <1>5 DEF IInv, TypeOK, FsReadAgain, PC
  <2> QED  BY <2>1, <1>0, <1>5, QuietInv DEF FsReadAgain, Running
<1>6. CASE Read9p
  <2>1. TypeOK'
    BY <1>6 DEF IInv, TypeOK, Read9p
  <2> QED  BY <2>1, <1>0, <1>6, QuietInv DEF Read9p, Running
<1>7. CASE DispatchEnds
  <2>1. TypeOK'
    <3>1. nsent' \in 0 .. Len(tx) /\ ops' \in 0 .. MaxOps
      BY <1>7, MaxOpsAssumption DEF IInv, TypeOK, DispatchEnds, WriteSome
    <3> QED  BY <3>1, <1>7 DEF IInv, TypeOK, DispatchEnds, EventMask, PC
  <2> QED  BY <2>1, <1>0, <1>7, QuietInv DEF DispatchEnds, Running
<1>8. CASE HandlerReturns
  <2>1. TypeOK'
    BY <1>8 DEF IInv, TypeOK, HandlerReturns, PC
  <2> QED  BY <2>1, <1>0, <1>8, QuietInv DEF HandlerReturns, Running
<1>9. CASE FswaitNotQueued
  <2>1. TypeOK'
    BY <1>9 DEF IInv, TypeOK, FswaitNotQueued, PC
  <2> QED  BY <2>1, <1>0, <1>9, QuietInv DEF FswaitNotQueued, Running
<1>11. CASE DestructorsStart
  <2>1. TypeOK'
    BY <1>11 DEF IInv, TypeOK, DestructorsStart, PC
  <2> QED  BY <2>1, <1>0, <1>11, QuietInv DEF DestructorsStart, Running
<1>12. CASE ClientsFlushed
  <2>1. TypeOK'
    BY <1>12 DEF IInv, TypeOK, ClientsFlushed, PC
  <2> QED  BY <2>1, <1>0, <1>12, QuietInv DEF ClientsFlushed, Running
<1>10. CASE UNCHANGED vars
  <2>1. TypeOK'
    BY <1>10 DEF IInv, TypeOK, vars
  <2> QED  BY <2>1, <1>0, <1>10, QuietInv DEF vars, Running
<1> QED  BY <1>1, <1>2, <1>3, <1>4, <1>5, <1>6, <1>7, <1>8, <1>9, <1>10, <1>11, <1>12

-----------------------------------------------------------------------------
(* Sending.                                                                *)

(* What a message with a new tag does to the messages on their way, when   *)
(* no fswait is running.                                                   *)
LEMMA SendInv ==
  ASSUME IInv, pc = "run", NEW m \in Message, NewTag(m.tag),
         tx' = Append(tx, m), UNCHANGED <<queue, rx, srv, cur>>,
         cb'[m.tag] = m.for, \A t \in Tag : t # m.tag => cb'[t] = cb[t]
  PROVE  /\ tx' \in Seq(Message) /\ Len(tx') = Len(tx) + 1
         /\ m.tag \notin inuse /\ m.tag \in Tag
         /\ InFlight' = InFlight \cup {m} /\ m \notin InFlight
         /\ \A n \in InFlight : n.op = "io" /\ n.tag # m.tag /\ n.tag \in Tag
         /\ wtag = NOTAG /\ wold = NOTAG /\ ~ flushing
         /\ OneMessagePerTag' /\ OnePlacePerMessage' /\ TagsInUse'
         /\ CallbackMatches' /\ NoTagLost' /\ FlushLast'
<1>1. /\ tx' \in Seq(Message) /\ Len(tx') = Len(tx) + 1
      /\ ToSet(tx') = ToSet(tx) \cup {m}
      /\ IsInjective(tx) /\ m \notin ToSet(tx) => IsInjective(tx')
  BY AppendSet DEF IInv, TypeOK
<1>2. /\ m.tag \notin inuse /\ m.tag \in Tag
      /\ inuse' = inuse \cup {m.tag}
  BY DEF NewTag
<1>3. wtag = NOTAG /\ wold = NOTAG /\ ~ flushing
  BY DEF IInv, WaitOK, FlushOK
<1>4. \A n \in InFlight : n.tag # m.tag /\ n.tag \in inuse /\ n.tag \in Tag
  BY <1>2 DEF IInv, TagsInUse, TypeOK
<1>5. m \notin InFlight
  BY <1>4
<1>6. InFlight' = InFlight \cup {m}
  BY <1>1 DEF InFlight
<1>7. \A n \in InFlight : n \in Message
  BY DEF InFlight, IInv, TypeOK, ToSet
<1>8. \A n \in InFlight : n.op = "io"
  BY <1>3, <1>7 DEF IInv, FlushOK, Message
<1>9. OneMessagePerTag'
  BY <1>4, <1>6 DEF IInv, OneMessagePerTag
<1>10. OnePlacePerMessage'
  BY <1>1, <1>5 DEF IInv, OnePlacePerMessage, InFlight
<1>11. TagsInUse'
  <2>1. m.tag # cur
    BY <1>2, NotagIsFree DEF IInv, CurOK
  <2> QED  BY <2>1, <1>2, <1>6 DEF IInv, TagsInUse
<1>12. CallbackMatches'
  BY <1>2, <1>4, <1>6 DEF IInv, CallbackMatches
<1>13. NoTagLost'
  <2> SUFFICES ASSUME NEW t \in inuse'
               PROVE  (\E n \in InFlight' : n.tag = t) \/ t = cur
    BY DEF NoTagLost
  <2>1. CASE t = m.tag
    BY <2>1, <1>6
  <2>2. CASE t \in inuse
    BY <2>2, <1>3, <1>6 DEF IInv, NoTagLost
  <2> QED  BY <2>1, <2>2, <1>2
<1>14. FlushLast'
  <2>1. /\ ~ FlushIn(srv) /\ ~ FlushIn(ToSet(rx))
        /\ \A i \in DOMAIN rx : rx[i].op # "flush"
    BY <1>8 DEF InFlight, FlushIn, ToSet
  <2>2. \A i \in DOMAIN tx' : tx'[i].op = "flush" => i = Len(tx')
    <3>1. \A i \in 1 .. Len(tx) : tx'[i] = tx[i] /\ tx[i].op = "io"
      <4>1. tx \in Seq(Message)
        BY DEF IInv, TypeOK
      <4>2. \A i \in 1 .. Len(tx) : tx'[i] = tx[i] /\ tx[i] \in ToSet(tx)
        BY <4>1 DEF ToSet
      <4> QED  BY <4>2, <1>8 DEF InFlight
    <3>2. DOMAIN tx' = 1 .. Len(tx) + 1 /\ Len(tx) \in Nat
      BY <1>1 DEF IInv, TypeOK
    <3> QED  BY <3>1, <3>2, <1>1
  <2> QED  BY <2>1, <2>2 DEF FlushLast, FlushIn
<1> QED  BY <1>1, <1>2, <1>3, <1>4, <1>5, <1>6, <1>8, <1>9, <1>10, <1>11,
            <1>12, <1>13, <1>14

LEMMA PostInv == ASSUME IInv, NEW t \in Tag, Post(t) PROVE IInv'
<1> USE DEF client, wbufv, rbufv, waitv, loopv, callv
<1> DEFINE m == Request(t, None)
<1>0. /\ UNCHANGED <<cb, queue, srv, rx, nread, pc, cur, fn, wtag, wold, flushing, ev, mask, leaving>>
      /\ pc = "run" /\ ops < MaxOps /\ ops' = ops + 1
      /\ posted' = posted \cup {t}
      /\ NewTag(t)
      /\ nsent' \in {nsent, Len(tx)}
      /\ tx' = Append(tx, m)
  BY DEF Post, Op, Send, Request
<1>1. m \in Message /\ m.tag = t /\ m.for = None /\ m.op = "io"
  BY DEF Request, Message
<1>2. cb'[t] = None
  BY <1>0 DEF IInv, CallbackMatches, NewTag
<1> HIDE DEF m
<1>3. /\ tx' \in Seq(Message) /\ Len(tx') = Len(tx) + 1
      /\ t \notin inuse /\ InFlight' = InFlight \cup {m}
      /\ wtag = NOTAG /\ wold = NOTAG /\ ~ flushing
      /\ OneMessagePerTag' /\ OnePlacePerMessage' /\ TagsInUse'
      /\ CallbackMatches' /\ NoTagLost' /\ FlushLast'
  BY <1>0, <1>1, <1>2, SendInv
<1>4. inuse' = inuse \cup {t}
  BY <1>0 DEF NewTag
<1>5. TypeOK'
  <2>1. nsent' \in 0 .. Len(tx') /\ ops' \in 0 .. MaxOps
    BY <1>0, <1>3, MaxOpsAssumption DEF IInv, TypeOK
  <2> QED  BY <2>1, <1>0, <1>3, <1>4 DEF IInv, TypeOK
<1>6. PostedOK'
  BY <1>0, <1>2, <1>3, <1>4, NotagIsFree DEF IInv, PostedOK, CurOK, Running
<1>7. CurOK' /\ WaitOK' /\ WaitNotBuried' /\ OneReadPerReader'
  BY <1>0, <1>3, <1>4 DEF IInv, CurOK, WaitOK, WaitNotBuried, OneReadPerReader
<1>8. FlushOK'
  BY <1>0, <1>1, <1>3 DEF IInv, FlushOK
<1> QED  BY <1>3, <1>5, <1>6, <1>7, <1>8 DEF IInv

LEMMA ArmInv ==
  ASSUME IInv, NEW t \in Tag, NEW r \in Reader, Arm(t, r) PROVE IInv'
<1> USE DEF client, wbufv, rbufv, waitv, loopv, callv
<1> DEFINE m == Request(t, r)
<1>0. /\ UNCHANGED <<queue, srv, rx, nread, pc, cur, fn, posted, wtag, wold, flushing, ev, mask, leaving>>
      /\ pc = "run" /\ ops < MaxOps /\ ops' = ops + 1
      /\ \A u \in Tag : cb[u] # r
      /\ cb' = [cb EXCEPT ![t] = r]
      /\ NewTag(t)
      /\ nsent' \in {nsent, Len(tx)}
      /\ tx' = Append(tx, m)
  BY DEF Arm, Op, Send, Request
<1>1. m \in Message /\ m.tag = t /\ m.for = r /\ m.op = "io"
  BY DEF Request, Message
<1>2. cb'[t] = r /\ \A u \in Tag : u # t => cb'[u] = cb[u]
  BY <1>0 DEF IInv, TypeOK
<1> HIDE DEF m
<1>3. /\ tx' \in Seq(Message) /\ Len(tx') = Len(tx) + 1
      /\ t \notin inuse /\ InFlight' = InFlight \cup {m}
      /\ wtag = NOTAG /\ wold = NOTAG /\ ~ flushing
      /\ OneMessagePerTag' /\ OnePlacePerMessage' /\ TagsInUse'
      /\ CallbackMatches' /\ NoTagLost' /\ FlushLast'
  BY <1>0, <1>1, <1>2, SendInv
<1>4. inuse' = inuse \cup {t}
  BY <1>0 DEF NewTag
<1>5. TypeOK'
  <2>1. nsent' \in 0 .. Len(tx') /\ ops' \in 0 .. MaxOps
    BY <1>0, <1>3, MaxOpsAssumption DEF IInv, TypeOK
  <2> QED  BY <2>1, <1>0, <1>3, <1>4 DEF IInv, TypeOK
<1>6. PostedOK'
  BY <1>0, <1>2, <1>3, <1>4 DEF IInv, TypeOK, PostedOK
<1>7. CurOK'
  BY <1>0, <1>2, <1>3, <1>4 DEF IInv, TypeOK, CurOK
<1>8. WaitOK' /\ WaitNotBuried'
  BY <1>0, <1>3 DEF IInv, WaitOK, WaitNotBuried
<1>9. OneReadPerReader'
  BY <1>0, <1>2 DEF IInv, OneReadPerReader
<1>10. FlushOK'
  BY <1>0, <1>1, <1>3 DEF IInv, FlushOK
<1> QED  BY <1>3, <1>5, <1>6, <1>7, <1>8, <1>9, <1>10 DEF IInv

LEMMA CallInv == ASSUME IInv, NEW t \in Tag, Call(t) PROVE IInv'
<1> USE DEF client, wbufv, rbufv, waitv, loopv, callv
<1> DEFINE m == Request(t, None)
<1>0. /\ UNCHANGED <<cb, queue, srv, rx, nread, cur, fn, posted, wold, ev, mask, leaving>>
      /\ pc = "run" /\ ops < MaxOps /\ ops' = ops + 1
      /\ pc' = "search" /\ wtag' = t /\ flushing' = FALSE
      /\ NewTag(t)
      /\ nsent' = Len(tx')
      /\ tx' = Append(tx, m)
  BY DEF Call, Op
<1>1. m \in Message /\ m.tag = t /\ m.for = None /\ m.op = "io"
  BY DEF Request, Message
<1>2. cb'[t] = None
  BY <1>0 DEF IInv, CallbackMatches, NewTag
<1> HIDE DEF m
<1>3. /\ tx' \in Seq(Message) /\ Len(tx') = Len(tx) + 1
      /\ t \notin inuse /\ InFlight' = InFlight \cup {m}
      /\ \A n \in InFlight : n.op = "io" /\ n.tag # t
      /\ wtag = NOTAG /\ wold = NOTAG /\ ~ flushing
      /\ OneMessagePerTag' /\ OnePlacePerMessage' /\ TagsInUse'
      /\ CallbackMatches' /\ NoTagLost' /\ FlushLast'
  BY <1>0, <1>1, <1>2, SendInv
<1>4. inuse' = inuse \cup {t}
  BY <1>0 DEF NewTag
<1>5. TypeOK'
  <2>1. nsent' \in 0 .. Len(tx') /\ ops' \in 0 .. MaxOps
    BY <1>0, <1>3, MaxOpsAssumption DEF IInv, TypeOK
  <2> QED  BY <2>1, <1>0, <1>3, <1>4 DEF IInv, TypeOK, PC
<1>6. PostedOK' /\ CurOK' /\ WaitNotBuried' /\ OneReadPerReader'
  BY <1>0, <1>3, <1>4
     DEF IInv, PostedOK, CurOK, WaitNotBuried, OneReadPerReader, Running
<1>7. WaitOK'
  BY <1>0, <1>2, <1>3, <1>4, NotagIsFree DEF IInv, CurOK, PostedOK, WaitOK
<1>8. FlushOK'
  BY <1>0, <1>1, <1>3 DEF IInv, FlushOK
<1> QED  BY <1>3, <1>5, <1>6, <1>7, <1>8 DEF IInv

LEMMA FlushInv ==
  ASSUME IInv, NEW t \in Tag, NEW old \in Tag \cup {NOTAG}, Flush(t, old)
  PROVE  IInv'
<1> USE DEF client, wbufv, rbufv, waitv, loopv, callv
<1> DEFINE m == [op |-> "flush", tag |-> t, for |-> None, old |-> old]
<1>0. /\ UNCHANGED <<cb, queue, srv, rx, nread, cur, fn, posted, ev, mask, leaving>>
      /\ pc = "run" /\ ops < MaxOps /\ ops' = ops + 1
      /\ pc' = "search" /\ wtag' = t /\ flushing' = TRUE /\ wold' = old
      /\ cur = NOTAG
      /\ old # NOTAG => cb[old] # None
      /\ NewTag(t)
      /\ nsent' = Len(tx')
      /\ tx' = Append(tx, m)
  BY DEF Flush, Op
<1>1. /\ m \in Message /\ m.tag = t /\ m.for = None /\ m.op = "flush"
      /\ m.old = old
  BY DEF Message
<1>2. cb'[t] = None
  BY <1>0 DEF IInv, CallbackMatches, NewTag
<1> HIDE DEF m
<1>3. /\ tx' \in Seq(Message) /\ Len(tx') = Len(tx) + 1
      /\ t \notin inuse /\ InFlight' = InFlight \cup {m} /\ m \notin InFlight
      /\ \A n \in InFlight : n.op = "io" /\ n.tag # t
      /\ wtag = NOTAG /\ wold = NOTAG /\ ~ flushing
      /\ OneMessagePerTag' /\ OnePlacePerMessage' /\ TagsInUse'
      /\ CallbackMatches' /\ NoTagLost' /\ FlushLast'
  BY <1>0, <1>1, <1>2, SendInv
<1>4. inuse' = inuse \cup {t}
  BY <1>0 DEF NewTag
<1>5. TypeOK'
  <2>1. nsent' \in 0 .. Len(tx') /\ ops' \in 0 .. MaxOps
    BY <1>0, <1>3, MaxOpsAssumption DEF IInv, TypeOK
  <2> QED  BY <2>1, <1>0, <1>3, <1>4 DEF IInv, TypeOK, PC
<1>6. PostedOK' /\ CurOK' /\ WaitNotBuried' /\ OneReadPerReader'
  BY <1>0, <1>3, <1>4
     DEF IInv, PostedOK, CurOK, WaitNotBuried, OneReadPerReader, Running
<1>7. WaitOK'
  BY <1>0, <1>2, <1>3, <1>4, NotagIsFree DEF IInv, CurOK, PostedOK, WaitOK
<1>8. FlushOK'
  <2>1. old # NOTAG => old \in inuse
    BY <1>0 DEF IInv, CallbackMatches
  <2>2. \A n \in ToSet(queue) : n \in InFlight
    BY DEF InFlight
  <2> QED  BY <2>1, <2>2, <1>0, <1>1, <1>3, <1>4, NotagIsFree DEF FlushOK
<1> QED  BY <1>3, <1>5, <1>6, <1>7, <1>8 DEF IInv

LEMMA WaitInv == ASSUME IInv, NEW t \in Tag, Wait(t) PROVE IInv'
<1> USE DEF client, wbufv, rbufv, waitv, loopv, callv
<1>0. /\ UNCHANGED <<inuse, cb, queue, tx, srv, rx, nread, cur, fn, wold, ev, mask, leaving>>
      /\ pc = "run" /\ ops < MaxOps /\ ops' = ops + 1
      /\ t \in posted /\ posted' = posted \ {t}
      /\ pc' = "search" /\ wtag' = t /\ flushing' = FALSE
      /\ nsent' = Len(tx)
  BY DEF Wait, Op
<1>1. InFlight' = InFlight
  BY <1>0 DEF InFlight
<1>2. wtag = NOTAG /\ wold = NOTAG /\ ~ flushing
  BY <1>0 DEF IInv, WaitOK, FlushOK
<1>3. TypeOK'
  <2>1. nsent' \in 0 .. Len(tx') /\ ops' \in 0 .. MaxOps
    BY <1>0, MaxOpsAssumption DEF IInv, TypeOK
  <2> QED  BY <2>1, <1>0 DEF IInv, TypeOK, PC
<1>4. /\ OneMessagePerTag' /\ OnePlacePerMessage' /\ TagsInUse'
      /\ CallbackMatches' /\ NoTagLost' /\ OneReadPerReader'
  BY <1>0, <1>1, <1>2 DEF IInv, OneMessagePerTag, OnePlacePerMessage,
     TagsInUse, CallbackMatches, NoTagLost, OneReadPerReader
<1>5. PostedOK' /\ CurOK' /\ WaitNotBuried'
  BY <1>0 DEF IInv, PostedOK, CurOK, WaitNotBuried, Running
<1>6. WaitOK'
  BY <1>0, NotagIsFree DEF IInv, PostedOK, WaitOK
<1>7. FlushOK' /\ FlushLast'
  BY <1>0, <1>1, <1>2 DEF IInv, FlushOK, FlushLast, FlushIn
<1> QED  BY <1>3, <1>4, <1>5, <1>6, <1>7 DEF IInv

-----------------------------------------------------------------------------
(* A message moves on.                                                     *)

LEMMA SrvTakeInv == IInv /\ SrvTake => IInv'
<1> SUFFICES ASSUME IInv, SrvTake PROVE IInv'
  OBVIOUS
<1> USE DEF client, wbufv, rbufv, waitv, loopv, callv
<1> DEFINE h == Head(tx)
<1>0. /\ UNCHANGED <<inuse, cb, queue, rx, nread, pc, cur, fn, posted, wtag, wold, flushing, ops, ev, mask, leaving>>
      /\ nsent > 0 /\ nsent' = nsent - 1
      /\ tx' = Tail(tx)
      /\ srv' = srv \cup {h}
  BY DEF SrvTake
<1>1. tx \in Seq(Message) /\ tx # <<>> /\ Len(tx) \in Nat /\ DOMAIN tx = 1 .. Len(tx)
  BY <1>0 DEF IInv, TypeOK
<1>2. /\ tx' \in Seq(Message) /\ Len(tx') = Len(tx) - 1
      /\ IsInjective(tx')
      /\ h \in Message /\ h \in ToSet(tx) /\ h = tx[1]
      /\ ToSet(tx') = ToSet(tx) \ {h}
  BY <1>0, <1>1, TailSet DEF IInv, OnePlacePerMessage
<1>3. /\ DOMAIN tx' = 1 .. Len(tx) - 1
      /\ \A i \in 1 .. Len(tx) - 1 : tx'[i] = tx[i + 1]
  BY <1>0, <1>1
<1> HIDE DEF h
<1>4. InFlight' = InFlight
  BY <1>0, <1>2 DEF InFlight
<1>5. TypeOK'
  BY <1>0, <1>1, <1>2 DEF IInv, TypeOK
<1>6. OnePlacePerMessage'
  BY <1>0, <1>2 DEF IInv, OnePlacePerMessage
<1>7. /\ OneMessagePerTag' /\ TagsInUse' /\ CallbackMatches' /\ NoTagLost'
      /\ OneReadPerReader' /\ CurOK' /\ PostedOK' /\ WaitOK' /\ WaitNotBuried'
      /\ FlushOK'
  BY <1>0, <1>4 DEF IInv, OneMessagePerTag, TagsInUse, CallbackMatches, NoTagLost,
     OneReadPerReader, CurOK, PostedOK, WaitOK, WaitNotBuried, FlushOK
<1>8. FlushLast'
  <2>1. \A i \in DOMAIN tx' : tx'[i].op = "flush" => i = Len(tx')
    BY <1>1, <1>2, <1>3 DEF IInv, FlushLast
  <2>2. ~ FlushIn(srv) /\ ~ FlushIn(ToSet(rx))
    BY <1>1 DEF IInv, FlushLast
  <2>3. FlushIn(srv') => tx' = <<>>
    BY <2>2, <1>0, <1>1, <1>2 DEF IInv, FlushLast, FlushIn
  <2>4. \A i \in DOMAIN rx : rx[i].op # "flush"
    BY <2>2 DEF FlushIn, ToSet
  <2> QED  BY <2>1, <2>2, <2>3, <2>4, <1>0 DEF FlushLast, FlushIn
<1> QED  BY <1>5, <1>6, <1>7, <1>8 DEF IInv

LEMMA SrvReplyInv == ASSUME IInv, NEW m \in srv, SrvReply(m) PROVE IInv'
<1> USE DEF client, wbufv, rbufv, waitv, loopv, callv
<1>0. /\ UNCHANGED <<inuse, cb, queue, tx, nsent, nread, pc, cur, fn, posted, wtag, wold, flushing, ops, ev, mask, leaving>>
      /\ m.op = "io"
      /\ srv' = srv \ {m}
      /\ rx' = Append(rx, m)
  BY DEF SrvReply
<1>1. rx \in Seq(Message) /\ m \in Message /\ m \notin ToSet(rx)
  BY <1>0 DEF IInv, TypeOK, OnePlacePerMessage
<1>2. /\ rx' \in Seq(Message) /\ Len(rx') = Len(rx) + 1
      /\ ToSet(rx') = ToSet(rx) \cup {m}
      /\ IsInjective(rx')
  BY <1>0, <1>1, AppendSet DEF IInv, OnePlacePerMessage
<1>3. /\ DOMAIN rx = 1 .. Len(rx) /\ DOMAIN rx' = 1 .. Len(rx) + 1 /\ Len(rx) \in Nat
      /\ \A i \in 1 .. Len(rx) : rx'[i] = rx[i]
      /\ rx'[Len(rx) + 1] = m
  BY <1>0, <1>1
<1>4. InFlight' = InFlight
  BY <1>0, <1>2 DEF InFlight
<1>5. TypeOK'
  BY <1>0, <1>2, <1>3 DEF IInv, TypeOK
<1>6. OnePlacePerMessage'
  BY <1>0, <1>2 DEF IInv, OnePlacePerMessage
<1>7. /\ OneMessagePerTag' /\ TagsInUse' /\ CallbackMatches' /\ NoTagLost'
      /\ OneReadPerReader' /\ CurOK' /\ PostedOK' /\ WaitOK' /\ WaitNotBuried'
      /\ FlushOK'
  BY <1>0, <1>4 DEF IInv, OneMessagePerTag, TagsInUse, CallbackMatches, NoTagLost,
     OneReadPerReader, CurOK, PostedOK, WaitOK, WaitNotBuried, FlushOK
<1>8. FlushLast'
  <2>1. FlushIn(ToSet(rx')) => FlushIn(ToSet(rx))
    BY <1>0, <1>2 DEF FlushIn
  <2>2. FlushIn(srv') => FlushIn(srv)
    BY <1>0 DEF FlushIn
  <2>3. ASSUME NEW i \in DOMAIN rx', NEW j \in DOMAIN rx', rx'[i].op = "flush", i < j
        PROVE  rx'[j].tag # wold
    <3>1. i \in DOMAIN rx /\ rx[i].op = "flush"
      BY <2>3, <1>3
    <3>2. CASE j \in DOMAIN rx
      BY <2>3, <3>1, <3>2, <1>3 DEF IInv, FlushLast
    <3>3. CASE j = Len(rx) + 1
      BY <3>1, <3>3, <1>3 DEF IInv, FlushLast, FlushIn, ToSet
    <3> QED  BY <3>2, <3>3, <1>3
  <2> QED  BY <2>1, <2>2, <2>3, <1>0 DEF IInv, FlushLast
<1> QED  BY <1>5, <1>6, <1>7, <1>8 DEF IInv

LEMMA SrvFlushInv == ASSUME IInv, NEW m \in srv, SrvFlush(m) PROVE IInv'
<1> USE DEF client, wbufv, rbufv, waitv, loopv, callv
<1>0. /\ UNCHANGED <<inuse, cb, queue, tx, nsent, nread, pc, cur, fn, posted, wtag, wold, flushing, ops, ev, mask, leaving>>
      /\ m.op = "flush"
      /\ srv' = {n \in srv : n # m /\ n.tag # m.old}
      /\ rx' = Append(rx, m)
  BY DEF SrvFlush
<1>1. rx \in Seq(Message) /\ m \in Message /\ m \notin ToSet(rx)
  BY <1>0 DEF IInv, TypeOK, OnePlacePerMessage
<1>2. /\ rx' \in Seq(Message) /\ Len(rx') = Len(rx) + 1
      /\ ToSet(rx') = ToSet(rx) \cup {m}
      /\ IsInjective(rx')
  BY <1>0, <1>1, AppendSet DEF IInv, OnePlacePerMessage
<1>3. /\ DOMAIN rx = 1 .. Len(rx) /\ DOMAIN rx' = 1 .. Len(rx) + 1 /\ Len(rx) \in Nat
      /\ \A i \in 1 .. Len(rx) : rx'[i] = rx[i]
      /\ rx'[Len(rx) + 1] = m
  BY <1>0, <1>1
<1>4. /\ m \in InFlight /\ m.old = wold /\ m.tag = wtag
      /\ flushing /\ wtag # NOTAG /\ wold # wtag
  BY <1>0 DEF IInv, FlushOK, WaitOK, InFlight
<1>5. /\ InFlight' \subseteq InFlight
      /\ \A n \in InFlight : n \in InFlight' \/ n.tag = wold
  BY <1>0, <1>2, <1>4 DEF InFlight
<1>6. TypeOK'
  BY <1>0, <1>2, <1>3 DEF IInv, TypeOK
<1>7. OnePlacePerMessage'
  BY <1>0, <1>2 DEF IInv, OnePlacePerMessage
<1>8. /\ OneMessagePerTag' /\ TagsInUse' /\ CallbackMatches'
      /\ OneReadPerReader' /\ CurOK' /\ PostedOK' /\ WaitOK' /\ WaitNotBuried'
      /\ FlushOK'
  BY <1>0, <1>5 DEF IInv, OneMessagePerTag, TagsInUse, CallbackMatches,
     OneReadPerReader, CurOK, PostedOK, WaitOK, WaitNotBuried, FlushOK
<1>9. NoTagLost'
  BY <1>0, <1>4, <1>5 DEF IInv, NoTagLost
<1>10. FlushLast'
  <2>1. tx = <<>>
    BY <1>0 DEF IInv, FlushLast, FlushIn
  <2>2. \A n \in srv' : n.tag # wold
    BY <1>0, <1>4
  <2>3. \A i \in DOMAIN rx : rx[i].op # "flush"
    <3> SUFFICES ASSUME NEW i \in DOMAIN rx, rx[i].op = "flush" PROVE FALSE
      OBVIOUS
    <3>1. rx[i] \in InFlight /\ rx[i] \in ToSet(rx)
      BY DEF InFlight, ToSet
    <3>2. rx[i].tag = wtag
      BY <3>1 DEF IInv, FlushOK
    <3> QED  BY <3>1, <3>2, <1>1, <1>4 DEF IInv, OneMessagePerTag
  <2>4. \A i, j \in DOMAIN rx' : rx'[i].op = "flush" /\ i < j => rx'[j].tag # wold
    BY <2>3, <1>3
  <2> QED  BY <2>1, <2>2, <2>4, <1>0 DEF FlushLast, FlushIn
<1> QED  BY <1>6, <1>7, <1>8, <1>9, <1>10 DEF IInv

(* A reply taken from the front of rx: what the rest is.                   *)
LEMMA ProcFacts ==
  ASSUME IInv, C9proc
  PROVE  /\ rx' \in Seq(Message) /\ nread' \in 0 .. Len(rx')
         /\ Head(rx) \in Message /\ Head(rx) \in ToSet(rx)
         /\ ToSet(rx') = ToSet(rx) \ {Head(rx)}
         /\ IsInjective(rx')
         /\ Head(rx).op = "flush" => \A m \in ToSet(rx') : m.tag # wold
         /\ \A i, j \in DOMAIN rx' : rx'[i].op = "flush" /\ i < j => rx'[j].tag # wold
<1>1. rx \in Seq(Message) /\ rx # <<>> /\ rx' = Tail(rx) /\ nread' = nread - 1
      /\ nread \in 1 .. Len(rx)
  BY DEF IInv, TypeOK, C9proc
<1>2. /\ rx' \in Seq(Message) /\ Len(rx') = Len(rx) - 1
      /\ Head(rx) \in Message /\ Head(rx) \in ToSet(rx)
      /\ ToSet(rx') = ToSet(rx) \ {Head(rx)}
      /\ IsInjective(rx')
  BY <1>1, TailSet DEF IInv, OnePlacePerMessage
<1>3. /\ DOMAIN rx = 1 .. Len(rx) /\ DOMAIN rx' = 1 .. Len(rx) - 1
      /\ Head(rx) = rx[1]
      /\ \A i \in 1 .. Len(rx) - 1 : rx'[i] = rx[i + 1]
  BY <1>1
<1>4. \A i, j \in DOMAIN rx : rx[i].op = "flush" /\ i < j => rx[j].tag # wold
  BY DEF IInv, FlushLast
<1>5. \A i, j \in DOMAIN rx' : rx'[i].op = "flush" /\ i < j => rx'[j].tag # wold
  <2> SUFFICES ASSUME NEW i \in DOMAIN rx', NEW j \in DOMAIN rx',
                      rx'[i].op = "flush", i < j
               PROVE  rx'[j].tag # wold
    OBVIOUS
  <2>1. i + 1 \in DOMAIN rx /\ j + 1 \in DOMAIN rx /\ i + 1 < j + 1
    BY <1>1, <1>3
  <2> QED  BY <2>1, <1>3, <1>4
<1>6. ASSUME Head(rx).op = "flush", NEW m \in ToSet(rx') PROVE m.tag # wold
  <2>1. PICK j \in DOMAIN rx' : m = rx'[j]
    BY <1>6 DEF ToSet
  <2>2. 1 \in DOMAIN rx /\ j + 1 \in DOMAIN rx /\ 1 < j + 1 /\ m = rx[j + 1]
    BY <1>1, <1>3, <2>1
  <2> QED  BY <2>2, <1>3, <1>4, <1>6
<1> QED  BY <1>1, <1>2, <1>5, <1>6

LEMMA QueueInv ==
  ASSUME IInv, FsReadReply \/ FswaitOther PROVE IInv'
<1> USE DEF client, wbufv, rbufv, waitv, loopv, callv
<1> DEFINE h == Head(rx)
<1>0. /\ UNCHANGED <<inuse, cb, tx, nsent, srv, pc, cur, fn, posted, wtag, wold, flushing, ops, ev, mask, leaving>>
      /\ C9proc
      /\ queue' = Cons(h, queue)
      /\ pc = "fsreadR" \/ (pc = "fswait" /\ h.tag # wtag)
  BY DEF FsReadReply, FswaitOther
<1>1. /\ rx' \in Seq(Message) /\ nread' \in 0 .. Len(rx')
      /\ h \in Message /\ h \in ToSet(rx)
      /\ ToSet(rx') = ToSet(rx) \ {h}
      /\ IsInjective(rx')
      /\ \A i, j \in DOMAIN rx' : rx'[i].op = "flush" /\ i < j => rx'[j].tag # wold
  BY <1>0, ProcFacts
<1> HIDE DEF h
<1>2. h \notin ToSet(queue) /\ h \in InFlight
  BY <1>1 DEF IInv, OnePlacePerMessage, InFlight
<1>3. /\ queue' \in Seq(Message)
      /\ ToSet(queue') = ToSet(queue) \cup {h}
      /\ IsInjective(queue')
  <2>1. queue \in Seq(Message) /\ IsInjective(queue)
    BY DEF IInv, TypeOK, OnePlacePerMessage
  <2>2. queue' = Cons(h, queue) /\ h \in Message /\ h \notin ToSet(queue)
    BY <1>0, <1>1, <1>2
  <2> QED
    BY ONLY <2>1, <2>2, ConsSet
<1>4. InFlight' = InFlight
  BY <1>0, <1>1, <1>3 DEF InFlight
<1>5. h.op = "io"
  BY <1>0, <1>1, <1>2 DEF IInv, FlushOK, WaitOK, Message
<1>6. TypeOK'
  BY <1>0, <1>1, <1>3 DEF IInv, TypeOK
<1>7. OnePlacePerMessage'
  BY <1>0, <1>1, <1>2, <1>3 DEF IInv, OnePlacePerMessage
<1>8. /\ OneMessagePerTag' /\ TagsInUse' /\ CallbackMatches' /\ NoTagLost'
      /\ OneReadPerReader' /\ CurOK' /\ PostedOK' /\ WaitOK'
  BY <1>0, <1>4 DEF IInv, OneMessagePerTag, TagsInUse, CallbackMatches, NoTagLost,
     OneReadPerReader, CurOK, PostedOK, WaitOK
<1>9. WaitNotBuried'
  BY <1>0, <1>3 DEF IInv, WaitNotBuried, TagsIn
<1>10. FlushOK'
  BY <1>0, <1>3, <1>4, <1>5 DEF IInv, FlushOK
<1>11. FlushLast'
  <2>1. FlushIn(ToSet(rx')) => FlushIn(ToSet(rx))
    BY <1>1 DEF FlushIn
  <2> QED  BY <2>1, <1>0, <1>1 DEF IInv, FlushLast, FlushIn
<1> QED  BY <1>6, <1>7, <1>8, <1>9, <1>10, <1>11 DEF IInv

(* The loops over the queue in fswait and fsflush: where tags identify     *)
(* messages they remove the reply with the tag, and no other.              *)
LEMMA UnlinkSet ==
  ASSUME NEW S, NEW s \in Seq(S), NEW t, IsInjective(s),
         \A m, n \in ToSet(s) : m.tag = n.tag => m = n,
         NEW u, u = Unlink(s, t)
  PROVE  /\ u \in Seq(S)
         /\ ToSet(u) = {m \in ToSet(s) : m.tag # t}
         /\ IsInjective(u)
<1> DEFINE I == {i \in 1 .. Len(s) : s[i].tag = t}
<1>0. DOMAIN s = 1 .. Len(s) /\ Len(s) \in Nat
  BY LenProperties
<1>1. u = IF \E i \in 1 .. Len(s) : s[i].tag = t
            THEN RemoveAt(s, IF I # {} THEN Min(I) ELSE 0) ELSE s
  BY DEF Unlink, RemoveFirstMatch, SelectInSeq
<1> HIDE DEF I
<1>2. CASE I = {}
  <2>1. u = s
    BY <1>1, <1>2 DEF I
  <2> QED  BY <2>1, <1>0, <1>2 DEF ToSet, I
<1>3. CASE I # {}
  <2>1. PICK k \in 1 .. Len(s) : s[k].tag = t
    BY <1>3 DEF I
  <2>2. I = {k}
    BY <2>1, <1>0 DEF ToSet, IsInjective, I
  <2>3. Min(I) = k
    BY <2>2 DEF Min
  <2>4. u = RemoveAt(s, k)
    BY <2>1, <2>3, <1>1, <1>3
  <2>5. /\ u \in Seq(S)
        /\ ToSet(u) = ToSet(s) \ {s[k]}
        /\ IsInjective(u)
    BY <2>4, RemoveAtSet
  <2>6. \A m \in ToSet(s) : m.tag = t <=> m = s[k]
    BY <2>1, <1>0 DEF ToSet
  <2> QED  BY <2>5, <2>6
<1> QED  BY <1>2, <1>3

(* The reply h that fswait waits for has been taken from rx or the queue:  *)
(* wherever the old request of a flush was, no message has its tag.        *)
AwaitedStep(h, rest) ==
  /\ wtag # NOTAG
  /\ h \in InFlight /\ h.tag = wtag
  /\ rest \in Seq(Message) /\ IsInjective(rest) /\ Awaited(rest)
  /\ rx' \in Seq(Message) /\ nread' \in 0 .. Len(rx') /\ IsInjective(rx')
  /\ ToSet(rest) \subseteq ToSet(queue) /\ ToSet(rx') \subseteq ToSet(rx)
  /\ h \in ToSet(rx) \cup ToSet(queue)
  /\ ToSet(rx') \cup ToSet(rest) = (ToSet(rx) \cup ToSet(queue)) \ {h}
  /\ h.op = "flush" => /\ tx = <<>>
                       /\ \A m \in srv : m.tag # wold
                       /\ \A m \in ToSet(rx') : m.tag # wold
  /\ UNCHANGED <<tx, nsent, srv, cur, fn, posted, ops, ev, mask, leaving>>

LEMMA AwaitedFacts ==
  ASSUME IInv, NEW h, NEW rest, AwaitedStep(h, rest)
  PROVE  /\ \A m \in InFlight : m.op = "flush" <=> m = h /\ flushing
         /\ \A m \in InFlight : m.tag \in Tag /\ m.tag # NOTAG
         /\ wtag \in Tag /\ wtag \in inuse /\ cb[wtag] = None
         /\ wtag # cur /\ wtag \notin posted
         /\ wold # NOTAG => wold \in inuse /\ cb[wold] # None
         /\ flushing => cur = NOTAG
         /\ queue' \in Seq(Message) /\ IsInjective(queue')
         /\ ToSet(queue') = {m \in ToSet(rest) : m.tag # wold}
         /\ cb' \in [Tag -> Reader \cup {None}]
         /\ \A t \in Tag : cb'[t] = IF t = wold THEN None ELSE cb[t]
         /\ inuse' = inuse \ {wtag, wold}
         /\ InFlight' = {m \in InFlight : m # h /\ m.tag # wold}
<1> USE DEF AwaitedStep
<1>2. /\ \A m \in InFlight : m.op = "flush" <=> m = h /\ flushing
      /\ flushing => h.op = "flush"
  BY DEF IInv, FlushOK, OneMessagePerTag
<1>3. \A m \in InFlight : m.tag \in Tag /\ m.tag # NOTAG
  BY NotagIsFree DEF IInv, TypeOK, TagsInUse
<1>4. wtag \in Tag /\ wtag \in inuse /\ cb[wtag] = None /\ wtag # cur
      /\ wtag \notin posted
  BY <1>3 DEF IInv, WaitOK
<1>5. /\ wold # NOTAG => wold \in inuse /\ cb[wold] # None
      /\ ~ flushing => wold = NOTAG
      /\ flushing => cur = NOTAG
  BY DEF IInv, FlushOK
<1>6. /\ queue' \in Seq(Message)
      /\ IsInjective(queue')
      /\ ToSet(queue') = {m \in ToSet(rest) : m.tag # wold}
  <2>1. \A m \in ToSet(rest) : m \in InFlight
    BY DEF InFlight
  <2>2. CASE flushing
    <3>1. queue' = Unlink(rest, wold)
      BY <2>2 DEF Awaited
    <3>2. \A m, n \in ToSet(rest) : m.tag = n.tag => m = n
      BY <2>1 DEF IInv, OneMessagePerTag
    <3> QED  BY <3>1, <3>2, UnlinkSet
  <2>3. CASE ~ flushing
    <3>1. queue' = rest /\ wold = NOTAG
      BY <2>3, <1>5 DEF Awaited
    <3> QED  BY <3>1, <2>1, <1>3
  <2> QED  BY <2>2, <2>3
<1>7. /\ cb' \in [Tag -> Reader \cup {None}]
      /\ \A t \in Tag : cb'[t] = IF t = wold THEN None ELSE cb[t]
      /\ inuse' = inuse \ {wtag, wold}
  <2>1. CASE flushing
    BY <2>1 DEF Awaited, Unregister, IInv, TypeOK
  <2>2. CASE ~ flushing
    <3>1. wold = NOTAG /\ NOTAG \notin inuse /\ NOTAG \notin Tag
      BY <2>2, <1>5, NotagIsFree DEF IInv, TypeOK
    <3> QED  BY <3>1, <2>2 DEF Awaited, Unregister, IInv, TypeOK
  <2> QED  BY <2>1, <2>2
<1>8. InFlight' = {m \in InFlight : m # h /\ m.tag # wold}
  <2>1. h \notin ToSet(tx) /\ h \notin srv
    BY DEF IInv, OnePlacePerMessage
  <2>2. CASE flushing
    <3>1. ToSet(tx) = {}
      BY <2>2, <1>2 DEF ToSet
    <3> QED  BY <3>1, <2>1, <2>2, <1>2, <1>6 DEF InFlight
  <2>3. CASE ~ flushing
    <3>1. \A m \in InFlight : m.tag # wold
      BY <2>3, <1>3, <1>5
    <3> QED  BY <3>1, <2>1, <1>6 DEF InFlight
  <2> QED  BY <2>2, <2>3
<1> QED  BY <1>2, <1>3, <1>4, <1>5, <1>6, <1>7, <1>8

LEMMA AwaitedInv ==
  ASSUME IInv, NEW h, NEW rest, AwaitedStep(h, rest)
  PROVE  IInv'
<1> USE DEF AwaitedStep
<1>1. pc' = "run" /\ wtag' = NOTAG /\ flushing' = FALSE /\ wold' = NOTAG
  BY DEF Awaited
<1>2. \A m \in InFlight : m.op = "flush" <=> m = h /\ flushing
  BY AwaitedFacts
<1>3. \A m \in InFlight : m.tag \in Tag /\ m.tag # NOTAG
  BY AwaitedFacts
<1>4. wtag \in inuse /\ cb[wtag] = None /\ wtag # cur /\ wtag \notin posted
  BY AwaitedFacts
<1>5. /\ wold # NOTAG => wold \in inuse /\ cb[wold] # None
      /\ flushing => cur = NOTAG
      /\ ~ flushing => wold = NOTAG
  BY DEF IInv, FlushOK
<1>6. /\ queue' \in Seq(Message)
      /\ IsInjective(queue')
      /\ ToSet(queue') = {m \in ToSet(rest) : m.tag # wold}
  BY AwaitedFacts
<1>7. /\ cb' \in [Tag -> Reader \cup {None}]
      /\ \A t \in Tag : cb'[t] = IF t = wold THEN None ELSE cb[t]
      /\ inuse' = inuse \ {wtag, wold}
  BY AwaitedFacts
<1>8. InFlight' = {m \in InFlight : m # h /\ m.tag # wold}
  BY AwaitedFacts
<1>9. TypeOK'
  BY <1>1, <1>6, <1>7 DEF IInv, TypeOK, PC
<1>10. OneMessagePerTag'
  BY <1>8 DEF IInv, OneMessagePerTag
<1>11. OnePlacePerMessage'
  BY <1>6 DEF IInv, OnePlacePerMessage
<1>12. TagsInUse'
  BY <1>7, <1>8 DEF IInv, TagsInUse, OneMessagePerTag
<1>13. CallbackMatches'
  BY <1>3, <1>4, <1>7, <1>8 DEF IInv, CallbackMatches
<1>14. NoTagLost'
  <2> SUFFICES ASSUME NEW t \in inuse', t # cur'
               PROVE  \E m \in InFlight' : m.tag = t
    BY DEF NoTagLost
  <2>1. t \in inuse /\ t # wtag /\ t # wold
    BY <1>7
  <2>2. PICK m \in InFlight : m.tag = t
    BY <2>1 DEF IInv, NoTagLost
  <2> QED  BY <2>1, <2>2, <1>8
<1>15. OneReadPerReader'
  BY <1>7 DEF IInv, OneReadPerReader
<1>16. CurOK' /\ PostedOK'
  <2>1. cur # NOTAG => cur \in Tag /\ cur # wold
    BY <1>5 DEF IInv, TypeOK
  <2>2. \A t \in posted : t \in Tag /\ t # wold /\ t # wtag
    BY <1>4, <1>5, NotagIsFree DEF IInv, TypeOK, PostedOK
  <2>3. CurOK'
    BY <2>1, <1>1, <1>4, <1>7 DEF IInv, CurOK, Running
  <2>4. PostedOK'
    BY <2>2, <1>1, <1>7 DEF IInv, PostedOK, Running
  <2> QED  BY <2>3, <2>4
<1>17. WaitOK' /\ WaitNotBuried'
  BY <1>1 DEF WaitOK, WaitNotBuried
<1>18. \A m \in InFlight' : m.op # "flush"
  BY <1>2, <1>8
<1>19. FlushOK'
  BY <1>1, <1>6, <1>18 DEF IInv, FlushOK
<1>20. FlushLast'
  BY <1>18 DEF FlushLast, FlushIn, InFlight, ToSet
<1> QED  BY <1>9, <1>10, <1>11, <1>12, <1>13, <1>14, <1>15, <1>16, <1>17,
            <1>19, <1>20 DEF IInv

LEMMA FswaitFoundStep ==
  ASSUME IInv, FswaitFound PROVE AwaitedStep(Head(rx), queue)
<1> USE DEF client, wbufv, rbufv, waitv, loopv, callv
<1> DEFINE h == Head(rx)
<1>0. /\ UNCHANGED <<tx, nsent, srv, cur, fn, posted, ops, ev, mask, leaving>>
      /\ C9proc /\ Awaited(queue) /\ h.tag = wtag /\ pc = "fswait"
  BY DEF FswaitFound
<1>1. /\ rx' \in Seq(Message) /\ nread' \in 0 .. Len(rx')
      /\ h \in ToSet(rx) /\ ToSet(rx') = ToSet(rx) \ {h} /\ IsInjective(rx')
      /\ h.op = "flush" => \A m \in ToSet(rx') : m.tag # wold
  BY <1>0, ProcFacts
<1> HIDE DEF h
<1>2. h \in InFlight /\ wtag # NOTAG
  BY <1>0, <1>1 DEF InFlight, IInv, WaitOK
<1>3. queue \in Seq(Message) /\ IsInjective(queue) /\ h \notin ToSet(queue)
  BY <1>1 DEF IInv, TypeOK, OnePlacePerMessage
<1>4. h.op = "flush" => tx = <<>> /\ \A m \in srv : m.tag # wold
  BY <1>1 DEF IInv, FlushLast, FlushIn
<1> QED  BY <1>0, <1>1, <1>2, <1>3, <1>4 DEF AwaitedStep, h

LEMMA FswaitQueuedStep ==
  ASSUME IInv, FswaitQueued PROVE \E h, rest : AwaitedStep(h, rest)
<1> USE DEF client, wbufv, rbufv, waitv, loopv, callv
<1>0. /\ UNCHANGED <<tx, nsent, rx, nread, srv, cur, fn, posted, ops, ev, mask, leaving>>
      /\ pc = "search"
      /\ wtag \in TagsIn(queue)
  BY DEF FswaitQueued
<1>1. PICK rest : /\ rest = Unlink(queue, wtag)
                  /\ Awaited(rest)
  BY DEF FswaitQueued
<1>2. PICK h \in ToSet(queue) : h.tag = wtag
  BY <1>0 DEF TagsIn
<1>3. /\ queue \in Seq(Message) /\ IsInjective(queue)
      /\ \A m \in ToSet(queue) : m \in InFlight
      /\ \A m, n \in ToSet(queue) : m.tag = n.tag => m = n
  BY DEF IInv, TypeOK, OnePlacePerMessage, OneMessagePerTag, InFlight
<1>4. /\ rest \in Seq(Message) /\ IsInjective(rest)
      /\ ToSet(rest) = {m \in ToSet(queue) : m.tag # wtag}
  BY <1>1, <1>3, UnlinkSet
<1>5. ToSet(rest) = ToSet(queue) \ {h}
  BY <1>2, <1>3, <1>4
<1>6. h.op = "io" /\ h \notin ToSet(rx) /\ h \in InFlight /\ wtag # NOTAG
  BY <1>0, <1>2, <1>3 DEF IInv, FlushOK, OnePlacePerMessage, WaitOK
<1>7. rx' \in Seq(Message) /\ nread' \in 0 .. Len(rx') /\ IsInjective(rx')
      /\ ToSet(rx') = ToSet(rx)
  BY <1>0 DEF IInv, TypeOK, OnePlacePerMessage
<1>8. ToSet(rx') \cup ToSet(rest) = (ToSet(rx) \cup ToSet(queue)) \ {h}
  BY <1>5, <1>6, <1>7
<1>9. AwaitedStep(h, rest)
  BY <1>0, <1>1, <1>2, <1>4, <1>5, <1>6, <1>7, <1>8 DEF AwaitedStep
<1> QED  BY <1>9

-----------------------------------------------------------------------------
LEMMA NextInv == IInv /\ [Next]_vars => IInv'
<1> SUFFICES ASSUME IInv, [Next]_vars PROVE IInv'
  OBVIOUS
<1>1. CASE Program
  <2>1. CASE Run
    BY <2>1, LoopInv, CallbackReturnsInv, PostInv, CallInv, WaitInv, ArmInv,
       FlushInv DEF Run
  <2>2. CASE Fswait
    BY <2>2, FswaitQueuedStep, FswaitFoundStep, AwaitedInv, LoopInv, QueueInv
       DEF Fswait
  <2>3. CASE Fsdispatch
    BY <2>3, DispatchCallbackInv, DispatchUnclaimedInv, LoopInv DEF Fsdispatch
  <2>4. CASE \/ DestructorsStart \/ ClientsFlushed \/ HandlerStarts
             \/ FsReady \/ EventsEnd \/ Read9p \/ FsReadAgain
    BY <2>4, LoopInv
  <2>5. CASE FsReadReply
    BY <2>5, QueueInv
  <2> QED  BY <1>1, <2>1, <2>2, <2>3, <2>4, <2>5 DEF Program
<1>2. CASE Server
  BY <1>2, SrvTakeInv, SrvReplyInv, SrvFlushInv DEF Server
<1>3. CASE \E events \in SUBSET EventSource : Poll(events)
  BY <1>3, LoopInv
<1>4. CASE UNCHANGED vars
  BY <1>4, LoopInv
<1> QED  BY <1>1, <1>2, <1>3, <1>4 DEF Next

(* IInv holds in every reachable state, for any tags and readers           *)
(* (fs.c:31-374).                                                          *)
THEOREM Invariance == Spec => []IInv
<1>1. Init => IInv
  BY InitInv
<1>2. IInv /\ [Next]_vars => IInv'
  BY NextInv
<1> QED  BY <1>1, <1>2, PTL DEF Spec

(* The variables have their types.                                         *)
THEOREM TypeCorrect == Spec => []TypeOK
  BY Invariance, PTL DEF IInv

(* No reply can be taken for that of another request.                      *)
THEOREM TagsAreUnique == Spec => []TagsUnique
<1>1. IInv => TagsUnique
  BY DEF IInv, TagsUnique
<1> QED  BY <1>1, Invariance, PTL

(* A reply runs the callback of its own request, and a free tag has none.  *)
THEOREM CallbacksMatch == Spec => []CallbackMatches
<1>1. IInv => CallbackMatches
  BY DEF IInv
<1> QED  BY <1>1, Invariance, PTL

(* fswait never waits for a reply that it has already passed by.           *)
THEOREM WaitsAreSound == Spec => []WaitNotBuried
<1>1. IInv => WaitNotBuried
  BY DEF IInv
<1> QED  BY <1>1, Invariance, PTL

(* Tags are not lost.                                                      *)
THEOREM TagsAreKept == Spec => []NoTagLost
<1>1. IInv => NoTagLost
  BY DEF IInv
<1> QED  BY <1>1, Invariance, PTL

-----------------------------------------------------------------------------
(* The refinement.                                                         *)

Armed == {cb[t] : t \in Tag} \ {None}
Answers == ToSet(rx) \cup ToSet(queue)
Answered == {m.for : m \in Answers} \ {None}

LEMMA AnsweredIs ==
  /\ Answered = ForIn(rx) \cup ForIn(queue)
  /\ Answered' = (ForIn(rx) \cup ForIn(queue))'
  BY DEF Answered, Answers, ForIn

(* A step that the readers do not see.                                     *)
LEMMA Unseen ==
  ASSUME UNCHANGED <<cb, fn>>, Answered' = Answered
  PROVE  UNCHANGED Async!vars
  BY AnsweredIs DEF Async!vars, Answered, Answers, ForIn

LEMMA RefineInit == Init => Async!Init
<1> SUFFICES ASSUME Init PROVE Async!Init
  OBVIOUS
<1>1. ToSet(rx) = {} /\ ToSet(queue) = {}
  BY DEF Init, ToSet
<1> QED  BY <1>1 DEF Init, Async!Init, ForIn

(* The message on its way for a reader is the only one.                    *)
LEMMA OneAnswer ==
  ASSUME IInv, NEW m \in InFlight, NEW n \in InFlight, m.for = n.for, m.for # None
  PROVE  m = n /\ m.for = cb[m.tag] /\ m.tag \in Tag /\ m.for \in Reader
<1>1. m.tag \in Tag /\ n.tag \in Tag /\ cb[m.tag] = m.for /\ cb[n.tag] = n.for
  BY DEF IInv, TagsInUse, TypeOK, CallbackMatches
<1>2. m.tag = n.tag
  BY <1>1 DEF IInv, OneReadPerReader
<1> QED  BY <1>1, <1>2 DEF IInv, OneMessagePerTag, TypeOK

LEMMA RefineQuiet ==
  ASSUME UNCHANGED <<cb, fn, rx, queue>>
  PROVE  UNCHANGED Async!vars
  BY Unseen DEF Answered, Answers

LEMMA RefineReply ==
  ASSUME IInv, NEW m \in srv, SrvReply(m) PROVE [Async!Next]_(Async!vars)
<1>0. /\ UNCHANGED <<cb, fn, queue>>
      /\ rx' = Append(rx, m)
  BY DEF SrvReply, client, callv
<1>1. ToSet(rx') = ToSet(rx) \cup {m}
  BY <1>0, AppendSet DEF IInv, TypeOK
<1>2. Answered' = Answered \cup ({m.for} \ {None})
  BY <1>0, <1>1 DEF Answered, Answers
<1>3. CASE m.for = None
  <2>1. Answered' = Answered
    BY <1>2, <1>3
  <2> QED  BY <1>0, <2>1, Unseen
<1>4. CASE m.for # None
  <2>1. m \in InFlight /\ m \notin Answers
    BY DEF InFlight, Answers, IInv, OnePlacePerMessage
  <2>2. m.for = cb[m.tag] /\ m.tag \in Tag /\ m.for \in Reader
    BY <1>4, <2>1, OneAnswer
  <2>3. m.for \notin Answered
    BY <1>4, <2>1, OneAnswer DEF Answered, Answers, InFlight
  <2>4. Async!Answer(m.for)
    BY <1>0, <1>2, <1>4, <2>2, <2>3, AnsweredIs
       DEF Async!Answer
  <2> QED  BY <2>2, <2>4 DEF Async!Next
<1> QED  BY <1>3, <1>4

LEMMA RefineFlushed ==
  ASSUME IInv, NEW m \in srv, SrvFlush(m) PROVE UNCHANGED Async!vars
<1>0. /\ UNCHANGED <<cb, fn, queue>>
      /\ rx' = Append(rx, m) /\ m.op = "flush"
  BY DEF SrvFlush, client, callv
<1>1. ToSet(rx') = ToSet(rx) \cup {m}
  BY <1>0, AppendSet DEF IInv, TypeOK
<1>2. m.for = None
  BY <1>0 DEF IInv, InFlight, CallbackMatches, FlushOK, WaitOK
<1>3. Answered' = Answered
  BY <1>0, <1>1, <1>2 DEF Answered, Answers
<1> QED  BY <1>0, <1>3, Unseen

LEMMA RefineQueue ==
  ASSUME IInv, FsReadReply \/ FswaitOther PROVE UNCHANGED Async!vars
<1> DEFINE h == Head(rx)
<1>0. /\ UNCHANGED <<cb, fn>>
      /\ C9proc
      /\ queue' = Cons(h, queue)
  BY DEF FsReadReply, FswaitOther, callv
<1>1. /\ h \in Message /\ h \in ToSet(rx)
      /\ ToSet(rx') = ToSet(rx) \ {h}
  BY <1>0, ProcFacts
<1> HIDE DEF h
<1>2. ToSet(queue') = ToSet(queue) \cup {h}
  BY <1>0, <1>1, ConsSet DEF IInv, TypeOK
<1>3. Answered' = Answered
  <2>1. Answers' = Answers
    BY <1>1, <1>2 DEF Answers
  <2> QED  BY <2>1 DEF Answered
<1> QED  BY <1>0, <1>3, Unseen

LEMMA RefineCallback ==
  ASSUME IInv, DispatchCallback PROVE Async!Next
<1> DEFINE h == Head(queue)
           rd == cb[h.tag]
<1>0. /\ UNCHANGED rx
      /\ cb' = Unregister(h.tag)
      /\ rd # None
      /\ fn' = rd
      /\ queue' = Tail(queue)
      /\ pc = "fsdispatch"
      /\ queue # <<>>
  BY DEF DispatchCallback, rbufv
<1>1. h \in ToSet(queue) /\ ToSet(queue') = ToSet(queue) \ {h}
  BY <1>0, TailSet DEF IInv, TypeOK, OnePlacePerMessage
<1> HIDE DEF h
<1>2. h \in InFlight /\ h.for = rd
  BY <1>1 DEF InFlight, IInv, CallbackMatches
<1>3. h.tag \in Tag /\ rd \in Reader
  BY <1>0, <1>2, OneAnswer
<1>4. fn = None
  BY <1>0 DEF IInv, CurOK, Running
<1>5. Answers' = Answers \ {h}
  BY <1>0, <1>1 DEF Answers, IInv, OnePlacePerMessage
<1>6. Answered' = Answered \ {rd} /\ rd \in Answered
  <2>1. \A m \in Answers : m.for = rd => m = h
    BY <1>0, <1>2, OneAnswer DEF Answers, InFlight
  <2>2. h \in Answers
    BY <1>1 DEF Answers
  <2> QED  BY <2>1, <2>2, <1>0, <1>2, <1>5 DEF Answered
<1>7. Armed' = Armed \ {rd}
  <2>1. \A t \in Tag : cb'[t] = IF t = h.tag THEN None ELSE cb[t]
    BY <1>0 DEF Unregister
  <2>2. \A t \in Tag : cb[t] = rd => t = h.tag
    BY <1>0, <1>3 DEF IInv, OneReadPerReader
  <2> QED  BY <2>1, <2>2 DEF Armed
<1> HIDE DEF rd
<1>8. PICK x \in Reader : x = rd
  BY <1>3
<1>9. Async!Fire(x)
  BY <1>8, <1>0, <1>4, <1>6, <1>7, AnsweredIs
     DEF Async!Fire, Armed
<1> QED  BY <1>9 DEF Async!Next

LEMMA RefineAwaited ==
  ASSUME IInv, NEW h, NEW rest, AwaitedStep(h, rest)
  PROVE  [Async!Next]_(Async!vars)
<1>1. /\ h \in InFlight /\ h.tag = wtag
      /\ ToSet(rx') \cup ToSet(rest) = Answers \ {h}
      /\ h.op = "flush" => \A m \in ToSet(rx') : m.tag # wold
      /\ UNCHANGED <<cur, fn>>
  BY DEF AwaitedStep, Answers
<1>2. /\ h.op = "flush" <=> flushing
      /\ \A m \in InFlight : m.tag # NOTAG
      /\ cb[wtag] = None
      /\ flushing => cur = NOTAG
      /\ ToSet(queue') = {m \in ToSet(rest) : m.tag # wold}
      /\ \A t \in Tag : cb'[t] = IF t = wold THEN None ELSE cb[t]
      /\ cb' \in [Tag -> Reader \cup {None}]
  BY <1>1, AwaitedFacts
<1>3. /\ wold \in Tag \cup {NOTAG} /\ cb \in [Tag -> Reader \cup {None}]
      /\ wold # NOTAG => cb[wold] # None
      /\ ~ flushing => wold = NOTAG
  BY DEF IInv, TypeOK, FlushOK
<1>4. \A m \in Answers : m \in InFlight
  BY DEF Answers, InFlight
<1>5. h.for = None
  BY <1>1, <1>2 DEF IInv, CallbackMatches
<1>6. Answers' = {m \in Answers : m # h /\ m.tag # wold}
  <2>1. \A m \in ToSet(rx') : m.tag # wold
    <3>1. CASE flushing
      BY <3>1, <1>1, <1>2
    <3>2. CASE ~ flushing
      <4>1. \A m \in ToSet(rx') : m \in InFlight
        BY <1>1, <1>4
      <4> QED  BY <4>1, <3>2, <1>2, <1>3
    <3> QED  BY <3>1, <3>2
  <2> QED  BY <2>1, <1>1, <1>2 DEF Answers
<1>7. CASE wold = NOTAG
  <2>1. Answers' = Answers \ {h}
    BY <1>2, <1>4, <1>6, <1>7
  <2>2. Answered' = Answered
    BY <2>1, <1>5 DEF Answered
  <2>3. cb' = cb
    BY <1>2, <1>3, <1>7, NotagIsFree
  <2> QED  BY <1>1, <2>2, <2>3, Unseen
<1>8. CASE wold # NOTAG
  <2> DEFINE rd == cb[wold]
  <2>1. wold \in Tag /\ rd \in Reader /\ rd # None /\ fn = None
    BY <1>2, <1>3, <1>8 DEF IInv, CurOK
  <2>2. \A m \in InFlight : m.tag = wold <=> m.for = rd
    BY <2>1 DEF IInv, CallbackMatches, OneReadPerReader, TagsInUse, TypeOK
  <2>3. Answered' = Answered \ {rd}
    BY <2>1, <2>2, <1>4, <1>5, <1>6 DEF Answered
  <2>4. Armed' = Armed \ {rd} /\ rd \in Armed
    BY <2>1, <1>2 DEF Armed, IInv, OneReadPerReader
  <2> HIDE DEF rd
  <2>5. PICK x \in Reader : x = rd
    BY <2>1
  <2>6. Async!Cancel(x)
    BY <2>5, <2>1, <2>3, <2>4, <1>1, AnsweredIs
       DEF Async!Cancel, Armed
  <2> QED  BY <2>6 DEF Async!Next
<1> QED  BY <1>7, <1>8

LEMMA RefineNext == IInv /\ [Next]_vars => [Async!Next]_(Async!vars)
<1> SUFFICES ASSUME IInv, [Next]_vars PROVE [Async!Next]_(Async!vars)
  OBVIOUS
<1> USE DEF client, wbufv, rbufv, waitv, loopv, callv
<1>1. CASE Run
  <2>1. CASE HandlerReturns
    BY <2>1, RefineQuiet DEF HandlerReturns
  <2>2. CASE CallbackReturns
    <3>1. UNCHANGED <<cb, rx, queue>> /\ fn # None /\ fn' = None
      BY <2>2 DEF CallbackReturns, IInv, CurOK
    <3>2. Async!Finish
      BY <3>1 DEF Async!Finish, ForIn
    <3> QED  BY <3>2 DEF Async!Next
  <2>3. ASSUME NEW t \in Tag, Post(t) \/ Call(t) \/ Wait(t)
        PROVE  UNCHANGED Async!vars
    BY <2>3, RefineQuiet DEF Post, Call, Wait
  <2>4. ASSUME NEW t \in Tag, NEW r \in Reader, Arm(t, r)
        PROVE  Async!Next
    <3>1. /\ UNCHANGED <<rx, queue, fn>>
          /\ \A u \in Tag : cb[u] # r
          /\ cb' = [cb EXCEPT ![t] = r]
          /\ t \notin inuse
      BY <2>4 DEF Arm, Send, NewTag, Request
    <3>2. cb[t] = None
      BY <3>1 DEF IInv, CallbackMatches
    <3>3. \A u \in Tag : cb'[u] = IF u = t THEN r ELSE cb[u]
      BY <3>1 DEF IInv, TypeOK
    <3>4. Armed' = Armed \cup {r} /\ r \notin Armed
      BY <3>1, <3>2, <3>3, NoneAssumption DEF Armed
    <3>5. Async!Arm(r)
      BY <3>1, <3>4 DEF Async!Arm, Armed, ForIn
    <3> QED  BY <3>5 DEF Async!Next
  <2>5. ASSUME NEW t \in Tag, NEW old \in Tag \cup {NOTAG}, Flush(t, old)
        PROVE  UNCHANGED Async!vars
    BY <2>5, RefineQuiet DEF Flush
  <2> QED  BY <1>1, <2>1, <2>2, <2>3, <2>4, <2>5 DEF Run
<1>2. CASE Fswait
  BY <1>2, FswaitQueuedStep, FswaitFoundStep, RefineAwaited, RefineQueue,
     RefineQuiet DEF Fswait, FswaitNotQueued
<1>3. CASE Fsdispatch
  <2>1. CASE DispatchUnclaimed
    <3>1. /\ UNCHANGED <<cb, fn, rx>> /\ queue # <<>> /\ queue' = Tail(queue)
          /\ cb[Head(queue).tag] = None
      BY <2>1 DEF DispatchUnclaimed
    <3>2. Head(queue) \in ToSet(queue) /\ ToSet(queue') = ToSet(queue) \ {Head(queue)}
      BY <3>1, TailSet DEF IInv, TypeOK, OnePlacePerMessage
    <3>3. Head(queue).for = None
      BY <3>1, <3>2 DEF IInv, CallbackMatches, InFlight
    <3>4. Answered' = Answered
      BY <3>1, <3>2, <3>3 DEF Answered, Answers
    <3> QED  BY <3>1, <3>4, Unseen
  <2>2. CASE DispatchEnds
    BY <2>2, RefineQuiet DEF DispatchEnds
  <2> QED  BY <1>3, <2>1, <2>2, RefineCallback DEF Fsdispatch
<1>4. CASE \/ DestructorsStart \/ ClientsFlushed \/ HandlerStarts
           \/ FsReady \/ EventsEnd \/ Read9p \/ FsReadAgain
  BY <1>4, RefineQuiet
  DEF DestructorsStart, ClientsFlushed, HandlerStarts, FsReady, EventsEnd, Read9p, FsReadAgain
<1>5. CASE FsReadReply
  BY <1>5, RefineQueue
<1>6. CASE SrvTake
  BY <1>6, RefineQuiet DEF SrvTake
<1>7. CASE \E m \in srv : SrvReply(m) \/ SrvFlush(m)
  BY <1>7, RefineReply, RefineFlushed
<1>8. CASE \E events \in SUBSET EventSource : Poll(events)
  BY <1>8, RefineQuiet DEF Poll
<1>9. CASE UNCHANGED vars
  BY <1>9, RefineQuiet DEF vars
<1> QED  BY <1>1, <1>2, <1>3, <1>4, <1>5, <1>6, <1>7, <1>8, <1>9
            DEF Next, Program, Server

(* The client implements AsyncReads: a reader runs once for each read,     *)
(* with the reply to it, never beside another, and never once fsflush has  *)
(* returned.                                                               *)
THEOREM Refinement == Spec => ImplementsAsyncReads
<1>1. Init => Async!Init
  BY RefineInit
<1>2. IInv /\ [Next]_vars => [Async!Next]_(Async!vars)
  BY RefineNext
<1> QED  BY <1>1, <1>2, Invariance, PTL DEF Spec, ImplementsAsyncReads, Async!Spec
=============================================================================
