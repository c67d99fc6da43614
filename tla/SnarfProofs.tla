---------------------------- MODULE SnarfProofs ----------------------------
(***************************************************************************)
(* Proofs about Snarf for any transfers, lengths of text and pipes.        *)
(***************************************************************************)
EXTENDS Snarf, SequenceTheorems, TLAPS

Chunk == Sources \X Nat

TextTypeOK ==
  /\ read \in [Sources -> Nat] /\ text \in [Sources -> Seq(Chunk)]
  /\ snarf \in Seq(Chunk)
  /\ events \subseteq Sources

PasteTypeOK ==
  /\ offset \in [Gets -> Nat] /\ reply \in [Gets -> Chunk \cup {Wait, End, Failed}]
  /\ pipe \in [Gets -> Seq(Chunk)] /\ got \in [Gets -> Seq(Chunk)]
  /\ start \in [Gets -> Seq(Chunk)]
  /\ changed \subseteq Gets
  /\ writing = {} \/ \E g \in Gets : writing = {g}

-----------------------------------------------------------------------------
(* Selections: what has been read from a client is written, unless that    *)
(* failed, and what /dev/snarf holds is of a transfer that is over.        *)
PutOK(s) ==
  /\ put[s] = "new" => s \notin closed /\ read[s] = 0
  /\ Len(text[s]) <= read[s]
  /\ s \notin failed => /\ Len(text[s]) = read[s]
                        /\ \A i \in 1 .. read[s] : text[s][i] = <<s, i>>

Taken(s) ==
  put[s] = "freed" /\ s \in closed /\ read[s] = written[s] /\ snarf = text[s]

SnarfOK == snarf = <<>> \/ \E s \in Sources : Taken(s)

PutInv ==
  /\ TextTypeOK
  /\ TypeOK
  /\ \A s \in Sources : PutOK(s)
  /\ SnarfOK

(* Pastes: what the client has and what is in its pipe is the text before  *)
(* offset, but for a chunk that is being written.                          *)
Given(g) == got[g] \o pipe[g]

SoFar(g) == IF g \in writing THEN offset[g] - 1 ELSE offset[g]

GetNew(g) ==
  get[g] = "new" =>
    got[g] = <<>> /\ pipe[g] = <<>> /\ offset[g] = 0 /\ g \notin writing

InBounds(g) ==
  /\ g \in writing => get[g] = "running" /\ reply[g] \in Chunk
  /\ reply[g] \in Chunk /\ g \notin writing => offset[g] < MaxChunks

GivenOK(g) ==
  get[g] # "new" /\ g \notin changed =>
    /\ get[g] = "running" => snarf = start[g]
    /\ offset[g] <= Len(start[g])
    /\ Len(Given(g)) = SoFar(g)
    /\ \A i \in 1 .. SoFar(g) : Given(g)[i] = start[g][i]
    /\ g \in writing => offset[g] >= 1 /\ reply[g] = start[g][offset[g]]
    /\ reply[g] \in Chunk /\ g \notin writing =>
         offset[g] < Len(start[g]) /\ reply[g] = start[g][offset[g] + 1]
    /\ reply[g] = End => offset[g] = Len(start[g]) /\ g \notin writing

GetInv ==
  /\ PasteTypeOK
  /\ \A g \in Gets : GetNew(g) /\ InBounds(g) /\ GivenOK(g)

IInv == PutInv /\ GetInv

-----------------------------------------------------------------------------
LEMMA ChunksDiffer == Wait \notin Chunk /\ End \notin Chunk /\ Failed \notin Chunk
  BY DEF Wait, End, Failed, Chunk

LEMMA RepliesDiffer == Wait # End /\ Wait # Failed /\ End # Failed
  BY DEF Wait, End, Failed

(* What moves from a pipe to its reader stays in place.                    *)
LEMMA ReadKeeps ==
  ASSUME NEW S, NEW s \in Seq(S), NEW t \in Seq(S), t # <<>>
  PROVE  Append(s, Head(t)) \o Tail(t) = s \o t
<1>1. /\ Append(s, Head(t)) \in Seq(S) /\ Tail(t) \in Seq(S)
      /\ Append(s, Head(t)) \o Tail(t) \in Seq(S) /\ s \o t \in Seq(S)
  OBVIOUS
<1>2. Len(Append(s, Head(t)) \o Tail(t)) = Len(s \o t)
  OBVIOUS
<1>3. \A i \in 1 .. Len(s \o t) : (Append(s, Head(t)) \o Tail(t))[i] = (s \o t)[i]
  OBVIOUS
<1>4. QED
  BY <1>1, <1>2, <1>3, SeqEqual

LEMMA WriteAppends ==
  ASSUME NEW S, NEW s \in Seq(S), NEW t \in Seq(S), NEW e \in S
  PROVE  /\ Len(s \o Append(t, e)) = Len(s \o t) + 1
         /\ \A i \in 1 .. Len(s \o t) : (s \o Append(t, e))[i] = (s \o t)[i]
         /\ (s \o Append(t, e))[Len(s \o t) + 1] = e
  OBVIOUS

LEMMA InitInv == Init => IInv
  BY SizeAssumption, RepliesDiffer, ChunksDiffer
  DEF Init, IInv, PutInv, GetInv, TextTypeOK, PasteTypeOK, TypeOK, PutOK,
      SnarfOK, GetNew, InBounds, GivenOK, SoFar, Given

-----------------------------------------------------------------------------
(* Everything but the ends of transfers leaves the other half alone.       *)
LEMMA PutsKept ==
  ASSUME PutInv, UNCHANGED <<putv, snarf>>, TypeOK'
  PROVE  PutInv'
  BY DEF PutInv, putv, TextTypeOK, PutOK, SnarfOK, Taken

LEMMA GetsKept ==
  ASSUME GetInv, UNCHANGED <<getv, snarf, start, changed>>
  PROVE  GetInv'
  BY SMTT(20) DEF GetInv, getv, PasteTypeOK, GetNew, InBounds, GivenOK, SoFar, Given

(* Replies only change hands between fsdispatch and the sleeping loop.     *)
LEMMA TasksKept ==
  ASSUME TypeOK, HandlerWaits \/ Heard \/ UNCHANGED taskv
  PROVE  late' \subseteq Gets /\ due' \subseteq Gets /\ late' \cap due' = {}
  BY DEF TypeOK, HandlerWaits, Heard, Fresh, taskv

LEMMA ElsewhereInv ==
  ASSUME IInv, Elsewhere
  PROVE  IInv'
<1>1. GetInv'
  BY GetsKept DEF IInv, Elsewhere
<1>2. late' \subseteq Gets /\ due' \subseteq Gets /\ late' \cap due' = {}
  BY DEF IInv, PutInv, TypeOK, Elsewhere, Fresh
<1>3. TypeOK'
  BY <1>2 DEF IInv, PutInv, TypeOK, Elsewhere, putv, getv
<1>4. PutInv'
  BY <1>3, PutsKept DEF IInv, Elsewhere
<1>5. QED
  BY <1>1, <1>4 DEF IInv

(* Steps of clients and of set_selection.                                  *)
LEMMA ClientInv ==
  ASSUME IInv, NEW s \in Sources,
         \/ CreateDataSource(s) \/ SetSelection(s) \/ WriteChunk(s) \/ CloseSource(s)
         \/ DestroySource(s)
  PROVE  IInv'
<1>1. GetInv'
  BY GetsKept DEF IInv, CreateDataSource, SetSelection, WriteChunk, CloseSource, DestroySource
<1>2. late' \subseteq Gets /\ due' \subseteq Gets /\ late' \cap due' = {}
  BY TasksKept DEF IInv, PutInv, CreateDataSource, SetSelection, WriteChunk, CloseSource,
     DestroySource
<1> USE DEF IInv, PutInv, TextTypeOK, TypeOK, PutOK, SnarfOK, Taken
<1>3. CASE CreateDataSource(s)
  BY <1>1, <1>2, <1>3 DEF CreateDataSource, getv
<1>4. CASE SetSelection(s)
  <2>1. CASE put' = [put EXCEPT ![s] = "running"]
    BY <1>1, <1>2, <1>4, <2>1 DEF SetSelection, getv
  <2>2. CASE put' = [put EXCEPT ![s] = "freed"]
    BY <1>1, <1>2, <1>4, <2>2 DEF SetSelection, getv
  <2>3. QED
    BY <1>4, <2>1, <2>2 DEF SetSelection
<1>5. CASE WriteChunk(s)
  BY SMTT(20), <1>1, <1>2, <1>5, SizeAssumption DEF WriteChunk, getv
<1>6. CASE CloseSource(s)
  BY <1>1, <1>2, <1>6 DEF CloseSource, getv
<1>7. CASE DestroySource(s)
  BY <1>1, <1>2, <1>7 DEF DestroySource, getv
<1>8. QED
  BY <1>3, <1>4, <1>5, <1>6, <1>7

(* The chunk that is read is written where the last one ended.             *)
LEMMA SnarfPutInv ==
  ASSUME IInv, NEW s \in Sources, NEW ok \in BOOLEAN, SnarfPut(s, ok)
  PROVE  IInv'
<1> USE DEF IInv, PutInv
<1>1. GetInv'
  BY GetsKept DEF SnarfPut
<1>2. put[s] = "running" /\ read[s] < written[s] /\ written[s] \in Nat
  BY DEF SnarfPut, HasText, TypeOK
<1>3. <<s, read[s] + 1>> \in Chunk
  BY DEF Chunk, TextTypeOK
<1>4. TextTypeOK'
  BY <1>3 DEF SnarfPut, PutAt, TextTypeOK
<1>5. TypeOK'
  BY <1>2, TasksKept DEF SnarfPut, TypeOK, TextTypeOK, getv
<1>6. PutOK(s)'
  BY <1>2, <1>3 DEF SnarfPut, PutAt, PutOK, TextTypeOK
<1>7. ASSUME NEW u \in Sources, u # s
      PROVE  PutOK(u)'
  BY <1>7 DEF SnarfPut, PutOK, TextTypeOK
<1>8. SnarfOK'
  BY <1>2 DEF SnarfPut, SnarfOK, Taken, TextTypeOK
<1>9. QED
  BY <1>1, <1>4, <1>5, <1>6, <1>7, <1>8

(* The clunk makes the text that of /dev/snarf; pastes that run go on with *)
(* another one.                                                            *)
LEMMA SnarfPutEndInv ==
  ASSUME IInv, NEW s \in Sources, SnarfPutEnd(s)
  PROVE  IInv'
<1> USE DEF IInv
<1>1. PutInv'
  <2> USE DEF PutInv, SnarfPutEnd
  <2>1. TextTypeOK'
    BY DEF TextTypeOK
  <2>2. TypeOK'
    <3>1. late' \subseteq Gets /\ due' \subseteq Gets /\ late' \cap due' = {}
      BY TasksKept
    <3>2. up' \in BOOLEAN
      OBVIOUS
    <3>3. put' \in [Sources -> {"new", "running", "freed"}]
          /\ \A u \in events' : put'[u] = "running"
      BY DEF TypeOK
    <3>4. QED
      BY <3>1, <3>2, <3>3 DEF TypeOK, getv
  <2>3. \A u \in Sources : PutOK(u)'
    BY DEF PutOK, TypeOK
  <2>4. Taken(s)'
    BY DEF Taken, AtEnd, TypeOK
  <2>5. QED
    BY <2>1, <2>2, <2>3, <2>4 DEF SnarfOK
<1>2. GetInv'
  <2> USE DEF GetInv, SnarfPutEnd, getv
  <2>1. PasteTypeOK'
    BY DEF PasteTypeOK
  <2>2. ASSUME NEW g \in Gets
        PROVE  GetNew(g)' /\ InBounds(g)'
    BY DEF GetNew, InBounds
  <2>3. ASSUME NEW g \in Gets
        PROVE  GivenOK(g)'
    BY DEF GivenOK, Given, SoFar
  <2>4. QED
    BY <2>1, <2>2, <2>3
<1>3. QED
  BY <1>1, <1>2

-----------------------------------------------------------------------------
LEMMA OfferInv ==
  ASSUME IInv, NEW g \in Gets, OfferReceive(g)
  PROVE  IInv'
<1> USE DEF IInv, OfferReceive, Serves
<1>1. TypeOK'
  BY TasksKept DEF PutInv, TypeOK, putv, taskv
<1>2. PutInv'
  BY <1>1, PutsKept
<1>3. PasteTypeOK'
  BY DEF GetInv, PasteTypeOK, PutInv, TextTypeOK
<1>4. GetNew(g)' /\ InBounds(g)'
  BY ChunksDiffer DEF GetInv, GetNew, InBounds, PutInv, TypeOK, PasteTypeOK
<1>5. GivenOK(g)'
  <2>1. got'[g] = <<>> /\ pipe'[g] = <<>> /\ offset'[g] = 0 /\ g \notin writing'
    BY DEF GetInv, GetNew
  <2>2. Len(Given(g)') = 0
    BY <2>1 DEF Given
  <2>3. reply'[g] = Wait /\ start'[g] = snarf /\ snarf' = snarf
    BY DEF GetInv, PasteTypeOK
  <2>4. QED
    BY <2>1, <2>2, <2>3, ChunksDiffer, RepliesDiffer DEF GivenOK, SoFar, PutInv, TextTypeOK
<1>6. ASSUME NEW h \in Gets, h # g
      PROVE  GetNew(h)' /\ InBounds(h)' /\ GivenOK(h)'
  BY <1>6 DEF GetInv, PasteTypeOK, GetNew, InBounds, GivenOK, SoFar, Given, PutInv,
              TypeOK
<1>7. QED
  BY <1>2, <1>3, <1>4, <1>5, <1>6 DEF GetInv

(* /dev/snarf has no more text than one client wrote.                      *)
LEMMA SnarfBound == IInv => Len(snarf) <= MaxChunks
<1> SUFFICES ASSUME IInv PROVE Len(snarf) <= MaxChunks
  OBVIOUS
<1>1. CASE snarf = <<>>
  BY <1>1, SizeAssumption
<1>2. ASSUME NEW s \in Sources, Taken(s) PROVE Len(snarf) <= MaxChunks
  BY <1>2, SizeAssumption DEF Taken, IInv, PutInv, PutOK, TypeOK, TextTypeOK
<1>3. QED
  BY <1>1, <1>2 DEF IInv, PutInv, SnarfOK

LEMMA ReadReplyInv ==
  ASSUME IInv, NEW g \in Gets, ReadReply(g)
  PROVE  IInv'
<1> USE DEF IInv, ReadReply
<1>0. TypeOK'
  BY TasksKept DEF PutInv, TypeOK, putv
<1>1. PutInv'
  BY <1>0, PutsKept
<1>2. g \notin writing
  BY ChunksDiffer DEF GetInv, InBounds
<1>3. \/ /\ offset[g] < Len(snarf) /\ reply'[g] = snarf[offset[g] + 1]
         /\ reply'[g] \in Chunk
      \/ offset[g] >= Len(snarf) /\ reply'[g] = End
      \/ reply'[g] = Failed
  BY DEF GetInv, PasteTypeOK, PutInv, TextTypeOK
<1>4. PasteTypeOK'
  BY <1>3 DEF GetInv, PasteTypeOK
<1>5. GetNew(g)' /\ InBounds(g)'
  <2>1. reply'[g] \in Chunk => offset[g] < Len(snarf)
    BY <1>3, ChunksDiffer
  <2>2. Len(snarf) \in Nat /\ offset[g] \in Nat /\ Len(snarf) <= MaxChunks
    BY SMTT(20), SnarfBound DEF PutInv, TextTypeOK, GetInv, PasteTypeOK
  <2>3. reply'[g] \in Chunk => offset[g] < MaxChunks
    BY <2>1, <2>2, SizeAssumption
  <2>4. QED
    BY <1>2, <2>3 DEF GetNew, InBounds
<1>6. GivenOK(g)'
  BY <1>2, <1>3, ChunksDiffer, RepliesDiffer
  DEF GetInv, GivenOK, SoFar, Given, PasteTypeOK, PutInv, TextTypeOK
<1>7. ASSUME NEW h \in Gets, h # g
      PROVE  GetNew(h)' /\ InBounds(h)' /\ GivenOK(h)'
  BY SMTT(20), <1>7 DEF GetInv, PasteTypeOK, GetNew, InBounds, GivenOK, SoFar, Given
<1>8. QED
  BY <1>1, <1>4, <1>5, <1>6, <1>7 DEF GetInv

LEMMA SnarfGetInv ==
  ASSUME IInv, NEW g \in Gets, SnarfGet(g)
  PROVE  IInv'
<1> USE DEF IInv, SnarfGet, Serves
<1>1. reply[g] \in Chunk /\ g \notin writing /\ offset[g] < MaxChunks
      /\ offset'[g] = offset[g] + 1
  BY DEF GetInv, PasteTypeOK, InBounds, Advanced
<1>2. TypeOK'
  BY <1>1, SizeAssumption DEF PutInv, TypeOK, putv, taskv, GetInv, PasteTypeOK
<1>3. PutInv'
  BY <1>2, PutsKept
<1>4. PasteTypeOK'
  BY <1>1 DEF GetInv, PasteTypeOK
<1>5. GetNew(g)' /\ InBounds(g)'
  BY <1>1 DEF GetNew, InBounds
<1>6. GivenOK(g)'
  BY <1>1, ChunksDiffer DEF GetInv, GivenOK, SoFar, Given, PasteTypeOK
<1>7. ASSUME NEW h \in Gets, h # g
      PROVE  GetNew(h)' /\ InBounds(h)' /\ GivenOK(h)'
  BY <1>7 DEF GetInv, PasteTypeOK, GetNew, InBounds, GivenOK, SoFar, Given
<1>8. QED
  BY <1>3, <1>4, <1>5, <1>6, <1>7 DEF GetInv

LEMMA SnarfGetWrittenInv ==
  ASSUME IInv, NEW g \in Gets, SnarfGetWritten(g)
  PROVE  IInv'
<1> USE DEF IInv, SnarfGetWritten
<1>1. /\ get[g] = "running" /\ reply[g] \in Chunk /\ g \in writing /\ g \notin writing'
      /\ pipe'[g] = Append(pipe[g], reply[g]) /\ reply'[g] = Wait /\ got'[g] = got[g]
  BY DEF GetInv, PasteTypeOK, InBounds
<1>2. TypeOK'
  BY <1>1, SizeAssumption DEF PutInv, TypeOK, putv, taskv, GetInv, PasteTypeOK
<1>3. PutInv'
  BY <1>2, PutsKept
<1>4. PasteTypeOK'
  BY <1>1 DEF GetInv, PasteTypeOK
<1>5. GetNew(g)' /\ InBounds(g)'
  BY <1>1, ChunksDiffer DEF GetNew, InBounds
<1>6. GivenOK(g)'
  <2>1. /\ Len(Given(g)') = Len(Given(g)) + 1
        /\ \A i \in 1 .. Len(Given(g)) : Given(g)'[i] = Given(g)[i]
        /\ Given(g)'[Len(Given(g)) + 1] = reply[g]
    BY SMTT(20), <1>1, WriteAppends DEF Given, GetInv, PasteTypeOK
  <2>2. offset'[g] = offset[g] /\ start' = start /\ snarf' = snarf /\ get' = get
        /\ changed' = changed /\ offset[g] \in Nat /\ SoFar(g)' = offset[g]
        /\ SoFar(g) = offset[g] - 1
    BY <1>1 DEF GetInv, PasteTypeOK, SoFar
  <2>3. ASSUME g \notin changed
        PROVE  /\ Len(Given(g)') = offset[g]
               /\ \A i \in 1 .. offset[g] : Given(g)'[i] = start[g][i]
    <3>1. /\ Len(Given(g)) = offset[g] - 1 /\ reply[g] = start[g][offset[g]]
          /\ \A i \in 1 .. offset[g] - 1 : Given(g)[i] = start[g][i]
      BY <1>1, <2>2, <2>3 DEF GetInv, GivenOK
    <3>2. ASSUME NEW i \in 1 .. offset[g]
          PROVE  Given(g)'[i] = start[g][i]
      <4>1. CASE i = offset[g]
        BY <2>1, <2>2, <3>1, <4>1
      <4>2. CASE i \in 1 .. offset[g] - 1
        BY <2>1, <3>1, <4>2
      <4>3. QED
        BY <2>2, <4>1, <4>2
    <3>3. QED
      BY <2>1, <2>2, <3>1, <3>2
  <2>4. QED
    BY <1>1, <2>2, <2>3, ChunksDiffer, RepliesDiffer DEF GetInv, GivenOK
<1>7. ASSUME NEW h \in Gets, h # g
      PROVE  GetNew(h)' /\ InBounds(h)' /\ GivenOK(h)'
  BY SMTT(20), <1>7 DEF GetInv, PasteTypeOK, GetNew, InBounds, GivenOK, SoFar, Given
<1>8. QED
  BY <1>3, <1>4, <1>5, <1>6, <1>7 DEF GetInv

LEMMA SnarfGetEndInv ==
  ASSUME IInv, NEW g \in Gets, SnarfGetEnd(g)
  PROVE  IInv'
<1> USE DEF IInv, SnarfGetEnd, Serves
<1>1. reply[g] \notin Chunk
  BY ChunksDiffer DEF Over
<1>2. TypeOK'
  BY DEF PutInv, TypeOK, putv
<1>3. PutInv'
  BY <1>2, PutsKept
<1>4. PasteTypeOK'
  BY DEF GetInv, PasteTypeOK
<1>5. ASSUME NEW h \in Gets
      PROVE  GetNew(h)' /\ InBounds(h)' /\ GivenOK(h)'
  BY <1>1 DEF GetInv, PasteTypeOK, GetNew, InBounds, GivenOK, SoFar, Given, PutInv,
              TypeOK
<1>6. QED
  BY <1>3, <1>4, <1>5 DEF GetInv

LEMMA ReadChunkInv ==
  ASSUME IInv, NEW g \in Gets, ReadChunk(g)
  PROVE  IInv'
<1> USE DEF IInv, ReadChunk
<1>1. TypeOK'
  <2>1. pipe[g] \in Seq(Chunk) /\ Len(pipe'[g]) = Len(pipe[g]) - 1
    BY DEF GetInv, PasteTypeOK
  <2>2. \A h \in Gets : Len(pipe'[h]) <= PipeSize
    BY <2>1, SizeAssumption DEF PutInv, TypeOK, GetInv, PasteTypeOK
  <2>3. QED
    BY <2>2 DEF PutInv, TypeOK, putv, taskv
<1>2. PutInv'
  BY <1>1, PutsKept
<1>3. PasteTypeOK'
  BY DEF GetInv, PasteTypeOK
<1>4. Given(g)' = Given(g)
  BY SMTT(20), ReadKeeps DEF Given, GetInv, PasteTypeOK
<1>5. get[g] # "new"
  BY DEF GetInv, GetNew
<1>6. GetNew(g)' /\ InBounds(g)' /\ GivenOK(g)'
  BY <1>4, <1>5 DEF GetInv, GetNew, InBounds, GivenOK, SoFar
<1>7. ASSUME NEW h \in Gets, h # g
      PROVE  GetNew(h)' /\ InBounds(h)' /\ GivenOK(h)'
  BY <1>7 DEF GetInv, PasteTypeOK, GetNew, InBounds, GivenOK, SoFar, Given
<1>8. QED
  BY <1>2, <1>3, <1>6, <1>7 DEF GetInv

LEMMA GoneInv ==
  ASSUME IInv, NEW g \in Gets, SnarfGetBroken(g) \/ CloseReader(g)
  PROVE  IInv'
<1> USE DEF IInv, SnarfGetBroken, CloseReader
<1>1. TypeOK'
  BY DEF PutInv, TypeOK, putv, getv, taskv
<1>2. PutInv'
  BY <1>1, PutsKept
<1>3. GetInv'
  <2>1. UNCHANGED <<snarf, get, offset, reply, pipe, got, writing, start, changed>>
    BY DEF getv
  <2> HIDE DEF SnarfGetBroken, CloseReader
  <2>2. PasteTypeOK'
    BY <2>1 DEF GetInv, PasteTypeOK
  <2>3. ASSUME NEW h \in Gets
        PROVE  GetNew(h)' /\ InBounds(h)' /\ GivenOK(h)'
    BY <2>1 DEF GetInv, GetNew, InBounds, GivenOK, SoFar, Given
  <2>4. QED
    BY <2>2, <2>3 DEF GetInv
<1>4. QED
  BY <1>2, <1>3

LEMMA StepInv == IInv /\ [Next]_vars => IInv'
<1> SUFFICES ASSUME IInv, [Next]_vars PROVE IInv'
  OBVIOUS
<1>1. CASE Next
  BY <1>1, ClientInv, SnarfPutInv, SnarfPutEndInv, OfferInv, ReadReplyInv, SnarfGetInv,
     SnarfGetWrittenInv, SnarfGetEndInv, ReadChunkInv, ElsewhereInv, GoneInv DEF Next
<1>2. CASE UNCHANGED vars
  <2>1. GetInv'
    BY <1>2, GetsKept DEF vars, IInv
  <2>2. PutInv'
    BY <1>2 DEF vars, putv, getv, taskv, IInv, PutInv, TextTypeOK, TypeOK, PutOK, SnarfOK, Taken
  <2>3. QED
    BY <2>1, <2>2 DEF IInv
<1>3. QED
  BY <1>1, <1>2

-----------------------------------------------------------------------------
(* The invariant holds in every reachable state.                           *)
THEOREM Invariance == Spec => []IInv
  BY InitInv, StepInv, PTL DEF Spec

(* What /dev/snarf holds is all that one client wrote, in order, unless a  *)
(* write of that transfer failed, with any number of transfers at once.    *)
THEOREM SnarfIsWhole == Spec => []SnarfWhole
<1>1. ASSUME IInv PROVE SnarfWhole
  <2>1. CASE snarf = <<>>
    BY <2>1 DEF SnarfWhole
  <2>2. ASSUME NEW s \in Sources, Taken(s), s \notin failed PROVE SnarfWhole
    <3>1. Len(text[s]) = written[s] /\ text[s] \in Seq(Chunk)
          /\ \A i \in 1 .. written[s] : text[s][i] = <<s, i>>
      BY <2>2, <1>1 DEF Taken, IInv, PutInv, PutOK, TextTypeOK
    <3>2. snarf = [i \in 1 .. written[s] |-> <<s, i>>]
      <4> DEFINE all == [i \in 1 .. written[s] |-> <<s, i>>]
      <4>1. written[s] \in Nat /\ snarf = text[s]
        BY <1>1, <2>2 DEF Taken, IInv, PutInv, TypeOK
      <4>2. all \in Seq(Chunk) /\ Len(all) = written[s]
        BY <4>1 DEF Chunk
      <4>3. \A i \in 1 .. Len(all) : all[i] = <<s, i>>
        BY <4>2
      <4> HIDE DEF all
      <4>4. text[s] = all
        BY <3>1, <4>2, <4>3, SeqEqual
      <4>5. QED
        BY <4>1, <4>4 DEF all
    <3>3. QED
      BY <3>2 DEF SnarfWhole
  <2>3. ASSUME NEW s \in Sources, Taken(s), s \in failed PROVE SnarfWhole
    BY <2>3 DEF Taken, SnarfWhole
  <2>4. QED
    BY <1>1, <2>1, <2>2, <2>3 DEF IInv, PutInv, SnarfOK
<1>2. QED
  BY <1>1, Invariance, PTL

(* A paste that ends well has given its client the whole text, once, if no *)
(* other selection replaced it meanwhile.                                  *)
THEOREM PasteIsWhole == Spec => []PasteWhole
<1>1. ASSUME IInv PROVE PasteWhole
  <2> SUFFICES ASSUME NEW g \in Gets \ changed, get[g] = "freed", reply[g] = End
               PROVE  got[g] \o pipe[g] = start[g]
    BY DEF PasteWhole
  <2>1. Given(g) \in Seq(Chunk) /\ start[g] \in Seq(Chunk)
    BY <1>1 DEF Given, IInv, GetInv, PasteTypeOK
  <2>2. Len(Given(g)) = Len(start[g]) /\ \A i \in 1 .. Len(start[g]) : Given(g)[i] = start[g][i]
    BY <1>1 DEF IInv, GetInv, GivenOK, SoFar
  <2>3. QED
    BY <2>1, <2>2, SeqEqual DEF Given
<1>2. QED
  BY <1>1, Invariance, PTL
=============================================================================
