---------------------------- MODULE WindowProofs ----------------------------
(***************************************************************************)
(* The fids, tags and image ids of wl9's windows stay apart, for any       *)
(* number of windows, any of the files and any refusals of the server.     *)
(*                                                                         *)
(* The idea: each id in use belongs to one field of one struct window, and *)
(* since the pools never hand out an id twice, what another window does    *)
(* cannot reach it.  winnew alone takes ids before they are in struct      *)
(* window, which cur, ftag and pc make up for.                             *)
(***************************************************************************)
EXTENDS Window, FiniteSetTheorems, WellFoundedInduction, TLAPS

Slot == File \cup {"wsys"}

FidOf(w, a) == IF a = "wsys" THEN win[w].wsys ELSE win[w].fid[a]

(* struct window before and while winnew works on it.                      *)
WinOK(w) ==
  /\ win[w].state = "new" => win[w] = [Fresh EXCEPT !.state = "new"]
  /\ win[w].top => win[w].roles > 0
  /\ Opened(w) => win[w].roles > 0 /\ win[w].image # 0
  /\ ~ Opened(w) => \A f \in File : win[w].fid[f] = -1
  /\ Opened(w) /\ ~ win[w].initial => \A f \in File : win[w].fid[f] # -1
  /\ win[w].initial => win[w].image < 1
  /\ win[w].initial /\ w # cur =>
       ~ Opened(w) /\ \A f \in Reader : win[w].tag[f] = NOTAG

(* The files before the one that winnew looks at.                          *)
Passed == {Files[j] : j \in 1 .. n - 1}

Room == MaxFid - Cardinality(fidout)

WinnewOK ==
  /\ pc \in {"idle", "abort"} => cur = None /\ done = {}
  /\ pc \notin {"idle", "abort"} =>
       /\ cur \in Window
       /\ win[cur].top /\ win[cur].initial /\ Opened(cur) /\ win[cur].image = -1
  /\ pc \in {"idle", "abort", "walk", "open"} => \A f \in Reader : ftag[f] = NOTAG
  /\ pc = "walk" => /\ Room >= Len(Files) - n + 1
                    /\ \A j \in n .. Len(Files) : win[cur].fid[Files[j]] = -1
  /\ pc = "read" => /\ Passed \subseteq done
                    /\ \A f \in Reader : ftag[f] # NOTAG => f \in Passed
  /\ pc = "wctl" => File \subseteq done

(* A fid belongs to one field, and what the server takes it for is that    *)
(* field's file, or a file of a window that failed.                        *)
FidsOK ==
  /\ \A w \in Window, a \in Slot : FidOf(w, a) # -1 => FidOf(w, a) \in fidout
  /\ \A v, w \in Window, a, b \in Slot :
       FidOf(v, a) = FidOf(w, b) /\ FidOf(v, a) # -1 => v = w /\ a = b
  /\ \A g \in Fid, w \in Window, a \in Slot :
       srv[g] = <<w, a>> => Failed(w) \/ FidOf(w, a) = g
  /\ cur # None =>
       /\ srv[win[cur].wsys] = <<cur, "wsys">> \/ pc = "error"
       /\ \A f \in done : win[cur].fid[f] # -1 /\ srv[win[cur].fid[f]] = <<cur, f>>

(* The tag that the reader of a file should have.                          *)
TagOf(w, f) == IF w = cur THEN ftag[f] ELSE win[w].tag[f]

TagsOK ==
  /\ OneReadPerFile
  /\ \A t \in Tag, w \in Window, f \in Reader :
       armed[t] = <<w, f>> => Failed(w) \/ (win[w].top /\ TagOf(w, f) = t)
  /\ \A t \in Tag, w \in Window :
       armed[t] = <<w, "wctl">> => Opened(w) /\ w # cur
  /\ cur # None =>
       \A f \in Input : ftag[f] # NOTAG => armed[ftag[f]] = <<cur, f>>
  /\ (\A w \in Window : ~ Again(w)) =>
       \A w \in Window, f \in Reader :
         win[w].top /\ Opened(w) /\ w # cur /\ win[w].tag[f] # NOTAG =>
           armed[win[w].tag[f]] = <<w, f>>

ImagesOK ==
  /\ 0 \in imgout
  /\ \A w \in Window : win[w].image > 0 => win[w].image \in imgout
  /\ \A v, w \in Window : win[v].image = win[w].image /\ win[v].image > 0 => v = w
  /\ \A i \in imgout \ {0} : \E w \in Window : win[w].image = i
  /\ \A i \in Image, w \in Window : img[i] = w => i > 0 /\ win[w].image = i

WinsOK == \A w \in Window : WinOK(w)

IInv == /\ TypeOK /\ WinsOK /\ WinnewOK /\ FidsOK /\ FidsNameFiles
        /\ TagsOK /\ ImagesOK

-----------------------------------------------------------------------------
(* The pools.  Each has an id left where the code takes one.               *)

(* Every set of natural numbers has a least element.                       *)
LEMMA MinIn ==
  ASSUME NEW S, S \subseteq Nat, S # {}
  PROVE  Min(S) \in S
<1>1. PICK x \in S : \A y \in S : <<y, x>> \notin OpToRel(<, Nat)
  BY NatLessThanWellFounded, WFMin
<1>2. \A y \in S : x <= y
  <2> TAKE y \in S
  <2>1. ~ (y < x)
    BY <1>1 DEF OpToRel
  <2> QED
    BY <2>1
<1> QED
  BY <1>2 DEF Min

LEMMA Pairs ==
  ASSUME NEW a, NEW b, NEW c, NEW d
  PROVE  <<a, b>> # None /\ (<<a, b>> = <<c, d>> => a = c /\ b = d)
BY DEF None

LEMMA Names ==
  /\ File \subseteq {"winname", "label", "wctl", "mouse", "kbd"}
  /\ {"label", "wctl"} \subseteq File
  /\ Reader = {"wctl"} \cup Input /\ Reader \subseteq File
  /\ "wsys" \notin File /\ "wctl" \notin Input
  /\ Slot = File \cup {"wsys"}
  /\ Len(Files) \in Nat /\ DOMAIN Files = 1 .. Len(Files)
  /\ \A j \in 1 .. Len(Files) : Files[j] \in File
  /\ \A f \in File : \E j \in 1 .. Len(Files) : Files[j] = f
  /\ \A j, k \in 1 .. Len(Files) : Files[j] = Files[k] => j = k
BY FilesAssumption DEF File, Reader, Input, Slot, IsInjective

LEMMA SizeOfFile == IsFiniteSet(File) /\ Cardinality(File) = Len(Files)
<1>1. Files \in [1 .. Len(Files) -> File]
  BY FilesAssumption, Names
<1>2. Files \in Surjection(1 .. Len(Files), File) /\ Files \in Injection(1 .. Len(Files), File)
  BY <1>1, Names, FilesAssumption DEF Surjection, Injection
<1> DEFINE l == Len(Files)
<1>3. l \in Nat
  BY Names
<1> HIDE DEF l
<1>4. IsFiniteSet(1 .. l) /\ Cardinality(1 .. l) = l
  BY <1>3, FS_Interval
<1> QED
  BY <1>2, <1>4, FS_Surjection DEF l

LEMMA Sizes ==
  /\ IsFiniteSet(Reader) /\ Cardinality(Reader) \in Nat
  /\ IsFiniteSet(Window) /\ Cardinality(Window) \in Nat
  /\ IsFiniteSet(Window \X Reader)
  /\ Cardinality(Window \X Reader) = Cardinality(Reader) * Cardinality(Window)
  /\ Cardinality(Reader) * Cardinality(Window) \in Nat
  /\ IsFiniteSet(Tag) /\ Cardinality(Tag) = Cardinality(Reader) * Cardinality(Window) + 1
<1>1. IsFiniteSet(Reader) /\ Cardinality(Reader) \in Nat
  BY SizeOfFile, Names, FS_Subset, FS_CardinalityType
<1>2. IsFiniteSet(Window) /\ Cardinality(Window) \in Nat
  BY WindowAssumption, FS_CardinalityType
<1>3. /\ IsFiniteSet(Window \X Reader)
      /\ Cardinality(Window \X Reader) = Cardinality(Window) * Cardinality(Reader)
  BY <1>1, <1>2, FS_Product
<1> DEFINE N == Cardinality(Reader) * Cardinality(Window)
<1>4. N \in Nat /\ N = Cardinality(Window) * Cardinality(Reader)
  BY <1>1, <1>2
<1> HIDE DEF N
<1>5. IsFiniteSet(0 .. N) /\ Cardinality(0 .. N) = N + 1
  BY <1>4, FS_Interval
<1>6. Tag = 0 .. N
  BY DEF Tag, N
<1> QED
  BY <1>1, <1>2, <1>3, <1>4, <1>5, <1>6 DEF N

LEMMA FreeFid ==
  ASSUME TypeOK, Room >= 1
  PROVE  NewFid \in Fid \ fidout
<1>1. Cardinality(Fid) = MaxFid
  BY MaxFidAssumption, FS_Interval DEF Fid
<1>2. fidout \subseteq Fid /\ fidout # Fid
  <2>1. fidout \subseteq Fid
    BY DEF TypeOK
  <2>2. fidout = Fid => Cardinality(fidout) = Cardinality(Fid)
    OBVIOUS
  <2> QED
    BY <1>1, <2>1, <2>2, MaxFidAssumption DEF Room
<1>3. Fid \subseteq Nat
  BY MaxFidAssumption DEF Fid
<1> DEFINE S == Fid \ fidout
<1>4. S # {} /\ S \subseteq Nat
  BY <1>2, <1>3
<1> QED
  BY <1>4, MinIn DEF NewFid

(* With one read for a file there are no more armed tags than files read.  *)
LEMMA ArmedFit ==
  ASSUME TypeOK, OneReadPerFile, NEW P, IsFiniteSet(P),
         \A t \in Tag : armed[t] # None => armed[t] \in P
  PROVE  /\ IsFiniteSet({t \in Tag : armed[t] # None})
         /\ Cardinality({t \in Tag : armed[t] # None}) \in Nat
         /\ Cardinality({t \in Tag : armed[t] # None}) <= Cardinality(P)
<1> DEFINE A == {t \in Tag : armed[t] # None}
           arm == [t \in A |-> armed[t]]
<1>1. arm \in Injection(A, P)
  <2>1. arm \in [A -> P]
    OBVIOUS
  <2>2. \A t, u \in A : arm[t] = arm[u] => t = u
    BY DEF OneReadPerFile
  <2> HIDE DEF arm, A
  <2> QED
    BY <2>1, <2>2 DEF Injection, IsInjective
<1>2. IsFiniteSet(A) /\ Cardinality(A) <= Cardinality(P)
  <2> HIDE DEF arm, A
  <2> QED
    BY <1>1, FS_Injection
<1>3. Cardinality(A) \in Nat
  BY <1>2, FS_CardinalityType
<1> QED
  BY <1>2, <1>3

LEMMA FreeTag ==
  ASSUME TypeOK, OneReadPerFile
  PROVE  \E t \in Tag : armed[t] = None
<1> DEFINE A == {t \in Tag : armed[t] # None}
           P == Window \X Reader
<1>1. \A t \in Tag : armed[t] # None => armed[t] \in P
  BY DEF TypeOK
<1>2. Cardinality(A) \in Nat /\ Cardinality(A) <= Cardinality(P)
  <2> HIDE DEF P
  <2> QED
    BY <1>1, Sizes, ArmedFit DEF P
<1>3. A # Tag
  <2> HIDE DEF A
  <2> QED
    BY <1>2, Sizes
<1> QED
  BY <1>3

(* There is another one while a file that can be read is not being read.   *)
LEMMA FreeTagBut ==
  ASSUME TypeOK, OneReadPerFile, NEW x \in Window \X Reader, NEW s,
         \A t \in Tag : armed[t] # x
  PROVE  \E t \in Tag : armed[t] = None /\ t # s
<1> DEFINE A == {t \in Tag : armed[t] # None}
           P == (Window \X Reader) \ {x}
<1>1. IsFiniteSet(P) /\ Cardinality(P) = Cardinality(Reader) * Cardinality(Window) - 1
  BY Sizes, FS_RemoveElement
<1>2. \A t \in Tag : armed[t] # None => armed[t] \in P
  BY DEF TypeOK
<1>3. IsFiniteSet(A) /\ Cardinality(A) \in Nat /\ Cardinality(A) <= Cardinality(P)
  <2> HIDE DEF P
  <2> QED
    BY <1>1, <1>2, ArmedFit
<1>4. IsFiniteSet(A \cup {s}) /\ Cardinality(A \cup {s}) <= Cardinality(A) + 1
  <2> HIDE DEF A
  <2>1. IsFiniteSet(A) /\ Cardinality(A) \in Nat
    BY <1>3
  <2>2. /\ IsFiniteSet(A \cup {s})
        /\ Cardinality(A \cup {s}) = IF s \in A THEN Cardinality(A) ELSE Cardinality(A) + 1
    BY <2>1, FS_AddElement
  <2> QED
    BY <2>1, <2>2
<1>5. Cardinality(A \cup {s}) \in Nat
  BY <1>4, FS_CardinalityType
<1>6. ~ (Tag \subseteq A \cup {s})
  <2> SUFFICES ASSUME Tag \subseteq A \cup {s} PROVE FALSE
    OBVIOUS
  <2>1. Cardinality(Tag) <= Cardinality(A \cup {s})
    <3> HIDE DEF A
    <3> QED
      BY <1>4, FS_Subset
  <2> HIDE DEF A, P
  <2> QED
    BY <2>1, <1>1, <1>3, <1>4, <1>5, Sizes
<1> QED
  BY <1>6

(* A window without an image id leaves one for it.                         *)
LEMMA FreeImage ==
  ASSUME TypeOK, ImagesOK, NEW w \in Window, win[w].image = -1
  PROVE  Min(Image \ imgout) \in Image \ imgout /\ Min(Image \ imgout) > 0
<1> DEFINE c == Cardinality(Window)
           P == Window \ {w}
           Owner(i) == CHOOSE v \in Window : win[v].image = i
           own == [i \in 1 .. c |-> Owner(i)]
<1>1. c \in Nat
  BY Sizes
<1>2. Image \ imgout # {}
  <2> SUFFICES ASSUME Image \subseteq imgout PROVE FALSE
    OBVIOUS
  <2>1. \A i \in 1 .. c : Owner(i) \in P /\ win[Owner(i)].image = i
    <3> TAKE i \in 1 .. c
    <3>1. i \in imgout \ {0}
      BY <1>1 DEF Image
    <3>2. \E v \in Window : win[v].image = i
      BY <3>1 DEF ImagesOK
    <3>3. Owner(i) \in Window /\ win[Owner(i)].image = i
      BY <3>2
    <3> QED
      BY <3>3, <1>1
  <2>2. own \in [1 .. c -> P]
    BY <2>1
  <2>3. \A i, j \in 1 .. c : own[i] = own[j] => i = j
    BY <2>1
  <2>4. own \in Injection(1 .. c, P)
    <3> HIDE DEF own, P, c
    <3> QED
      BY <2>2, <2>3 DEF Injection, IsInjective
  <2>5. IsFiniteSet(P) /\ Cardinality(P) = c - 1
    BY Sizes, FS_RemoveElement
  <2>6. Cardinality(1 .. c) = c
    <3> HIDE DEF c
    <3> QED
      BY <1>1, FS_Interval
  <2>7. Cardinality(1 .. c) <= Cardinality(P)
    <3> HIDE DEF own, P, c
    <3> QED
      BY <2>4, <2>5, FS_Injection
  <2> HIDE DEF c, P
  <2> QED
    BY <1>1, <2>5, <2>6, <2>7
<1>3. Image \subseteq Nat
  BY <1>1 DEF Image
<1> DEFINE S == Image \ imgout
<1>4. S # {} /\ S \subseteq Nat
  BY <1>2, <1>3
<1>5. Min(S) \in S
  <2> HIDE DEF S
  <2> QED
    BY <1>4, MinIn
<1>6. 0 \in imgout /\ Min(Image \ imgout) \in Nat
  BY <1>3, <1>5 DEF ImagesOK
<1> QED
  BY <1>5, <1>6

-----------------------------------------------------------------------------
(* What most handlers leave alone.                                         *)

LEMMA Fields ==
  ASSUME TypeOK, NEW w \in Window
  PROVE  /\ win[w].top \in BOOLEAN /\ win[w].initial \in BOOLEAN
         /\ win[w].roles \in Nat
         /\ win[w].wsys \in Fid \cup {-1}
         /\ win[w].fid \in [File -> Fid \cup {-1}]
         /\ \A a \in Slot : FidOf(w, a) \in Fid \cup {-1}
         /\ win[w].tag \in [Reader -> Tag \cup {NOTAG}]
         /\ win[w].image \in Image \cup {-1}
         /\ -1 \notin Fid /\ NOTAG \notin Tag
         /\ Image \subseteq Nat /\ Fid \subseteq Nat /\ Tag \subseteq Nat
<1>1. -1 \notin Fid /\ Fid \subseteq Nat
  BY DEF Fid
<1>2. NOTAG \notin Tag /\ Tag \subseteq Nat
  BY DEF Tag, NOTAG
<1>3. Image \subseteq Nat
  BY DEF Image
<1>4. MaxRoles \in Nat
  BY MaxAssumption
<1>5. /\ win[w].top \in BOOLEAN /\ win[w].initial \in BOOLEAN
      /\ win[w].roles \in 0 .. MaxRoles
      /\ win[w].wsys \in Fid \cup {-1}
      /\ win[w].fid \in [File -> Fid \cup {-1}]
      /\ win[w].tag \in [Reader -> Tag \cup {NOTAG}]
      /\ win[w].image \in Image \cup {-1}
  BY DEF TypeOK, StructWindow
<1>6. \A a \in Slot : FidOf(w, a) \in Fid \cup {-1}
  BY <1>5 DEF Slot, FidOf
<1> QED
  BY <1>1, <1>2, <1>3, <1>4, <1>5, <1>6

LEMMA WinStays ==
  ASSUME NEW v \in Window, WinOK(v), cur' = cur,
         win'[v].state = "new" => win'[v] = win[v],
         win'[v].top => win'[v].roles > 0,
         win[v].roles > 0 => win'[v].roles > 0,
         win'[v].initial = win[v].initial, win'[v].wsys = win[v].wsys,
         win'[v].fid = win[v].fid, win'[v].tag = win[v].tag,
         win'[v].image = win[v].image
  PROVE  WinOK(v)'
BY DEF WinOK, Opened

(* The fids of the windows are as they were, and the server forgot some at *)
(* most.                                                                   *)
LEMMA FidsStay ==
  ASSUME TypeOK, WinnewOK, FidsOK,
         \A v \in Window : /\ win'[v].wsys = win[v].wsys
                           /\ win'[v].fid = win[v].fid
                           /\ win'[v].initial = win[v].initial,
         fidout' = fidout, cur' = cur, done' \subseteq done,
         \A g \in Fid : srv'[g] \in {srv[g], None},
         cur # None => srv' = srv /\ (pc = "error" => pc' = "error")
  PROVE  FidsOK'
<1>1. \A v \in Window : /\ \A a \in Slot : FidOf(v, a)' = FidOf(v, a)
                        /\ Opened(v)' <=> Opened(v)
                        /\ Failed(v)' <=> Failed(v)
  BY DEF FidOf, Opened, Failed
<1>2. \A w \in Window, a \in Slot : FidOf(w, a)' # -1 => FidOf(w, a)' \in fidout'
  BY <1>1 DEF FidsOK
<1>3. \A v, w \in Window, a, b \in Slot :
        FidOf(v, a)' = FidOf(w, b)' /\ FidOf(v, a)' # -1 => v = w /\ a = b
  BY <1>1 DEF FidsOK
<1>4. ASSUME NEW g \in Fid, NEW w \in Window, NEW a \in Slot, srv'[g] = <<w, a>>
      PROVE  Failed(w)' \/ FidOf(w, a)' = g
  <2>0. <<w, a>> # None
    BY Pairs
  <2>1. srv[g] = <<w, a>>
    BY <1>4, <2>0
  <2> QED
    BY <1>1, <2>1 DEF FidsOK
<1>5. ASSUME cur # None
      PROVE  /\ srv'[win'[cur].wsys] = <<cur, "wsys">> \/ pc' = "error"
             /\ \A f \in done' : win'[cur].fid[f] # -1 /\ srv'[win'[cur].fid[f]] = <<cur, f>>
  <2>1. cur \in Window
    BY <1>5 DEF TypeOK
  <2> QED
    BY <1>5, <2>1 DEF FidsOK
<1> QED
  BY <1>2, <1>3, <1>4, <1>5 DEF FidsOK

(* So are their images.                                                    *)
LEMMA ImagesStay ==
  ASSUME TypeOK, ImagesOK, imgout' = imgout,
         \A v \in Window : \/ win'[v].image = win[v].image
                           \/ win[v].image < 1 /\ win'[v].image \in {-1, 0},
         \A i \in Image : img'[i] \in {img[i], "none"}
  PROVE  ImagesOK'
<1>1. \A v \in Window : /\ win'[v].image > 0 => win'[v].image = win[v].image
                        /\ win[v].image > 0 => win'[v].image = win[v].image
                        /\ win[v].image \in Int
  BY Fields
<1>2. \A w \in Window : w # "none"
  BY WindowAssumption
<1>3. /\ \A w \in Window : win'[w].image > 0 => win'[w].image \in imgout'
      /\ \A v, w \in Window : win'[v].image = win'[w].image /\ win'[v].image > 0 => v = w
  BY <1>1 DEF ImagesOK
<1>4. ASSUME NEW i \in imgout \ {0}
      PROVE  \E w \in Window : win'[w].image = i
  <2>1. PICK w \in Window : win[w].image = i
    BY DEF ImagesOK
  <2>2. i \in Image
    BY DEF TypeOK
  <2>3. i > 0
    BY <2>2, Fields
  <2> QED
    BY <1>1, <2>1, <2>3
<1>5. ASSUME NEW i \in Image, NEW w \in Window, img'[i] = w
      PROVE  i > 0 /\ win'[w].image = i
  BY <1>1, <1>2, <1>5 DEF ImagesOK
<1> QED
  BY <1>3, <1>4, <1>5 DEF ImagesOK

(* Then what the fids of the windows name is as it was, too.               *)
LEMMA NamesStay ==
  ASSUME FidsNameFiles, srv' = srv,
         \A v \in Window :
           win'[v].top /\ win'[v].roles = 1 /\ win'[v].wsys # -1 /\ ~ win'[v].initial =>
             /\ win[v].top /\ win[v].roles = 1 /\ ~ win[v].initial
             /\ win'[v].wsys = win[v].wsys /\ win'[v].fid = win[v].fid
  PROVE  FidsNameFiles'
<1> SUFFICES ASSUME NEW w \in Window, win'[w].top, win'[w].roles = 1, win'[w].wsys # -1,
                    ~ win'[w].initial
             PROVE  /\ srv'[win'[w].wsys] = <<w, "wsys">>
                    /\ \A f \in File : srv'[win'[w].fid[f]] = <<w, f>>
  BY DEF FidsNameFiles, Opened
<1>1. /\ win[w].top /\ win[w].roles = 1 /\ win[w].wsys # -1 /\ ~ win[w].initial
      /\ win'[w].wsys = win[w].wsys /\ win'[w].fid = win[w].fid
  OBVIOUS
<1>2. srv[win[w].wsys] = <<w, "wsys">> /\ \A f \in File : srv[win[w].fid[f]] = <<w, f>>
  BY <1>1 DEF FidsNameFiles, Opened
<1> QED
  BY <1>1, <1>2

(* So are the tags and what decides over them.                             *)
LEMMA TagsStay ==
  ASSUME TypeOK, TagsOK,
         \A v \in Window : /\ win'[v].top = win[v].top
                           /\ win'[v].roles = win[v].roles
                           /\ win'[v].initial = win[v].initial
                           /\ win'[v].wsys = win[v].wsys
                           /\ win'[v].tag = win[v].tag,
         armed' = armed, cur' = cur, ftag' = ftag
  PROVE  TagsOK'
<1>1. \A v \in Window : /\ Opened(v)' <=> Opened(v)
                        /\ Failed(v)' <=> Failed(v)
                        /\ Again(v)' <=> Again(v)
                        /\ \A f \in Reader : TagOf(v, f)' = TagOf(v, f)
  BY DEF Opened, Failed, Again, TagOf
<1>2. OneReadPerFile'
  BY DEF TagsOK, OneReadPerFile
<1>3. \A t \in Tag, w \in Window, f \in Reader :
        armed'[t] = <<w, f>> => Failed(w)' \/ (win'[w].top /\ TagOf(w, f)' = t)
  BY <1>1 DEF TagsOK
<1>4. /\ \A t \in Tag, w \in Window :
           armed'[t] = <<w, "wctl">> => Opened(w)' /\ w # cur'
      /\ cur' # None => \A f \in Input : ftag'[f] # NOTAG => armed'[ftag'[f]] = <<cur', f>>
  BY <1>1 DEF TagsOK
<1>5. (\A w \in Window : ~ Again(w)') =>
        \A w \in Window, f \in Reader :
          win'[w].top /\ Opened(w)' /\ w # cur' /\ win'[w].tag[f] # NOTAG =>
            armed'[win'[w].tag[f]] = <<w, f>>
  BY <1>1 DEF TagsOK
<1> QED
  BY <1>2, <1>3, <1>4, <1>5 DEF TagsOK

-----------------------------------------------------------------------------
(* One lemma for each action.                                              *)

LEMMA InitInv == Init => IInv
<1> SUFFICES ASSUME Init PROVE IInv
  OBVIOUS
<1> DEFINE f0 == [f \in File |-> -1]
           t0 == [f \in Reader |-> NOTAG]
           r0 == [state |-> "new", top |-> FALSE, roles |-> 0,
                  asked |-> FALSE, initial |-> TRUE, wsys |-> -1, fid |-> f0,
                  tag |-> t0, image |-> 0, known |-> FALSE]
<1>1. \A w \in Window : win[w] = r0
  BY DEF Init, Fresh
<1>2. /\ f0 \in [File -> Fid \cup {-1}] /\ \A f \in File : f0[f] = -1
      /\ t0 \in [Reader -> Tag \cup {NOTAG}] /\ \A f \in Reader : t0[f] = NOTAG
  OBVIOUS
<1>3. 0 \in Image
  BY Sizes DEF Image
<1>4. 1 \in 1 .. Len(Files)
  BY Names
<1>5. TypeOK
  <2>0. 0 \in 0 .. MaxRoles
    BY MaxAssumption
  <2>1. \A w \in Window : win[w] \in StructWindow
    <3> HIDE DEF f0, t0
    <3>1. f0 \in [File -> Fid \cup {-1}] /\ t0 \in [Reader -> Tag \cup {NOTAG}]
      BY <1>2
    <3>2. r0 \in StructWindow
      BY <2>0, <1>3, <3>1 DEF StructWindow
    <3> QED
      BY <1>1, <3>2
  <2>2. ftag = t0
    BY DEF Init
  <2> HIDE DEF f0, t0
  <2> QED
    BY <2>1, <2>2, <1>2, <1>3, <1>4, MaxAssumption DEF Init, TypeOK
<1>6. WinsOK
  <2> SUFFICES ASSUME NEW w \in Window PROVE WinOK(w)
    BY DEF WinsOK
  <2> HIDE DEF f0, t0
  <2>1. win[w] = [Fresh EXCEPT !.state = "new"]
    BY DEF Init
  <2>2. /\ win[w].top = FALSE /\ win[w].initial = TRUE /\ win[w].wsys = -1
        /\ win[w].image = 0 /\ win[w].fid = f0 /\ win[w].tag = t0
    BY <1>1
  <2> QED
    BY <2>1, <2>2, <1>2 DEF WinOK, Opened
<1>7. WinnewOK
  BY DEF Init, WinnewOK
<1>8. \A w \in Window : ~ Opened(w) /\ \A a \in Slot : FidOf(w, a) = -1
  BY <1>1 DEF Opened, FidOf, Slot
<1>9. FidsOK
  <2>1. \A g \in Fid, w \in Window, a \in Slot : srv[g] # <<w, a>>
    BY Pairs DEF Init
  <2> QED
    BY <1>8, <2>1 DEF Init, FidsOK
<1>10. FidsNameFiles
  BY <1>8 DEF FidsNameFiles
<1>11. TagsOK
  <2>1. \A t \in Tag : armed[t] = None
    BY DEF Init
  <2>2. \A t \in Tag, w \in Window, f \in Reader : armed[t] # <<w, f>>
    BY <2>1, Pairs
  <2>3. \A t \in Tag, w \in Window : armed[t] # <<w, "wctl">>
    BY <2>1, Pairs
  <2> QED
    BY <1>8, <2>1, <2>2, <2>3 DEF Init, TagsOK, OneReadPerFile
<1>12. ImagesOK
  <2>1. \A w \in Window : win[w].image = 0 /\ w # "screen" /\ w # "none"
    BY <1>1, WindowAssumption
  <2> QED
    BY <2>1 DEF Init, ImagesOK
<1> QED
  BY <1>5, <1>6, <1>7, <1>9, <1>10, <1>11, <1>12 DEF IInv

LEMMA GetXdgSurfaceInv ==
  ASSUME IInv, NEW w \in Window, GetXdgSurface(w)
  PROVE  IInv'
<1>0. /\ TypeOK /\ WinsOK /\ WinnewOK /\ FidsOK /\ FidsNameFiles /\ TagsOK /\ ImagesOK
      /\ win \in [Window -> StructWindow]
  BY DEF IInv, TypeOK
<1>1. win[w] = [Fresh EXCEPT !.state = "new"] /\ pc = "idle" /\ cur = None
  BY <1>0 DEF GetXdgSurface, WinsOK, WinOK, WinnewOK
<1>2. win' = [win EXCEPT ![w].state = "live"]
  BY <1>0, <1>1 DEF GetXdgSurface, Fresh
<1>3. TypeOK'
  <2>1. win' \in [Window -> StructWindow]
    BY <1>0, <1>2 DEF StructWindow
  <2> QED
    BY <1>0, <2>1 DEF GetXdgSurface, TypeOK, Quiet, locals
<1>4. \A v \in Window :
        /\ win'[v].state = "new" => win'[v] = win[v]
        /\ win'[v].top = win[v].top /\ win'[v].roles = win[v].roles
        /\ win'[v].initial = win[v].initial /\ win'[v].image = win[v].image
        /\ win'[v].wsys = win[v].wsys /\ win'[v].fid = win[v].fid
        /\ win'[v].tag = win[v].tag
  BY <1>0, <1>2 DEF StructWindow
<1>5. WinsOK'
  <2> SUFFICES ASSUME NEW v \in Window PROVE WinOK(v)'
    BY DEF WinsOK
  <2>1. WinOK(v)
    BY <1>0 DEF WinsOK
  <2> QED
    BY <1>4, <2>1, WinStays DEF WinOK, GetXdgSurface, locals
<1>6. WinnewOK'
  BY <1>0 DEF WinnewOK, GetXdgSurface, locals
<1>7. FidsOK'
  BY <1>0, <1>1, <1>4, FidsStay DEF GetXdgSurface, locals
<1>8. FidsNameFiles'
  BY <1>0, <1>4, NamesStay DEF GetXdgSurface
<1>9. TagsOK'
  BY <1>0, <1>4, TagsStay DEF GetXdgSurface, locals
<1>10. ImagesOK'
  BY <1>0, <1>4, ImagesStay DEF GetXdgSurface, locals
<1> QED
  BY <1>3, <1>5, <1>6, <1>7, <1>8, <1>9, <1>10 DEF IInv

LEMMA GetToplevelInv ==
  ASSUME IInv, NEW w \in Window, GetToplevel(w)
  PROVE  IInv'
<1>0. /\ TypeOK /\ WinsOK /\ WinnewOK /\ FidsOK /\ FidsNameFiles /\ TagsOK /\ ImagesOK
      /\ win \in [Window -> StructWindow]
  BY DEF IInv, TypeOK
<1>1. /\ pc = "idle" /\ cur = None /\ WinOK(w) /\ ~ win[w].top
      /\ win[w].state = "live" /\ win[w].roles < MaxRoles
      /\ win' = [win EXCEPT ![w].top = TRUE, ![w].roles = @ + 1]
  BY <1>0 DEF GetToplevel, WinsOK, WinnewOK
<1>2. win[w].roles + 1 \in 0 .. MaxRoles /\ win[w].roles \in Nat
  <2>1. win[w].roles \in 0 .. MaxRoles
    BY <1>0 DEF StructWindow
  <2> QED
    BY <2>1, <1>1, MaxAssumption
<1>3. TypeOK'
  <2>1. win' \in [Window -> StructWindow]
    BY <1>0, <1>1, <1>2 DEF StructWindow
  <2> QED
    BY <1>0, <2>1 DEF GetToplevel, TypeOK, Quiet, locals
<1>4. \A v \in Window :
        /\ v # w => win'[v] = win[v]
        /\ win'[v].state = win[v].state
        /\ win'[v].initial = win[v].initial /\ win'[v].image = win[v].image
        /\ win'[v].wsys = win[v].wsys /\ win'[v].fid = win[v].fid
        /\ win'[v].tag = win[v].tag
  BY <1>0, <1>1 DEF StructWindow
<1>5. win'[w].top /\ win'[w].roles = win[w].roles + 1
  BY <1>0, <1>1 DEF StructWindow
<1>6. win'[w].roles > 1 \/ ~ Opened(w)
  BY <1>1, <1>2, <1>5 DEF WinOK
<1>7. WinsOK'
  <2> SUFFICES ASSUME NEW v \in Window PROVE WinOK(v)'
    BY DEF WinsOK
  <2>1. WinOK(v)
    BY <1>0 DEF WinsOK
  <2>2. /\ win'[v].state = "new" => win'[v] = win[v]
        /\ win'[v].top => win'[v].roles > 0
        /\ win[v].roles > 0 => win'[v].roles > 0
    <3>0. win'[w].state = "live"
      BY <1>1, <1>4
    <3>1. CASE v = w
      <4>1. win'[w].roles > 0
        BY <1>2, <1>5
      <4> QED
        BY <3>0, <3>1, <4>1
    <3>2. CASE v # w
      BY <3>2, <2>1, <1>4 DEF WinOK
    <3> QED
      BY <3>1, <3>2
  <2>3. cur' = cur
    BY DEF GetToplevel, locals
  <2> QED
    BY <1>4, <2>1, <2>2, <2>3, WinStays
<1>8. WinnewOK'
  BY <1>0, <1>1 DEF WinnewOK, GetToplevel, locals
<1>9. FidsOK'
  BY <1>0, <1>1, <1>4, FidsStay DEF GetToplevel, locals
<1>10. FidsNameFiles'
  <2>1. srv' = srv
    BY DEF GetToplevel
  <2>2. ~ (win'[w].roles = 1 /\ win'[w].wsys # -1)
    BY <1>2, <1>4, <1>5, <1>6 DEF Opened
  <2> QED
    BY <1>0, <1>4, <2>1, <2>2, NamesStay
<1>11. TagsOK'
  <2>0. armed' = armed /\ cur' = cur /\ ftag' = ftag
    BY DEF GetToplevel, locals
  <2>1. \A v \in Window : /\ Opened(v)' <=> Opened(v)
                          /\ Failed(v)' <=> Failed(v)
                          /\ \A f \in Reader : TagOf(v, f)' = TagOf(v, f)
                          /\ win[v].top => win'[v].top
    BY <1>4, <1>5, <2>0 DEF Opened, Failed, TagOf
  <2>2. OneReadPerFile'
    BY <1>0, <2>0 DEF TagsOK, OneReadPerFile
  <2>3. \A t \in Tag, v \in Window, f \in Reader :
          armed'[t] = <<v, f>> => Failed(v)' \/ (win'[v].top /\ TagOf(v, f)' = t)
    BY <1>0, <2>0, <2>1 DEF TagsOK
  <2>4. \A t \in Tag, v \in Window :
          armed'[t] = <<v, "wctl">> => Opened(v)' /\ v # cur'
    BY <1>0, <2>0, <2>1 DEF TagsOK
  <2>5. ASSUME \A v \in Window : ~ Again(v)',
               NEW v \in Window, NEW f \in Reader,
               win'[v].top, Opened(v)', v # cur', win'[v].tag[f] # NOTAG
        PROVE  armed'[win'[v].tag[f]] = <<v, f>>
    <3>1. \A u \in Window : ~ Again(u)
      <4> SUFFICES ASSUME NEW u \in Window PROVE ~ Again(u)
        OBVIOUS
      <4>1. ~ (win'[u].roles > 1)
        BY <2>5 DEF Again
      <4> QED
        BY <4>1, <1>2, <1>4, <1>5 DEF Again
    <3>2. v # w
      BY <2>5, <1>4, <1>6, <2>1 DEF Again
    <3>3. /\ win[v].top /\ Opened(v) /\ v # cur /\ win[v].tag[f] # NOTAG
          /\ win'[v].tag = win[v].tag
      BY <3>2, <1>4, <2>0, <2>1, <2>5
    <3> QED
      BY <3>1, <3>3, <1>0, <2>0 DEF TagsOK
  <2> QED
    BY <1>1, <2>0, <2>2, <2>3, <2>4, <2>5 DEF TagsOK
<1>12. ImagesOK'
  BY <1>0, <1>4, ImagesStay DEF GetToplevel, locals
<1> QED
  BY <1>3, <1>7, <1>8, <1>9, <1>10, <1>11, <1>12 DEF IInv

LEMMA SetTitleInv ==
  ASSUME IInv, NEW w \in Window, SetTitle(w)
  PROVE  IInv'
<1>0. /\ TypeOK /\ WinsOK /\ WinnewOK /\ FidsOK /\ FidsNameFiles /\ TagsOK /\ ImagesOK
  BY DEF IInv
<1>1. /\ win' = win /\ fidout' = fidout /\ armed' = armed /\ imgout' = imgout
      /\ srv' = srv /\ img' = img /\ pc' = pc /\ cur' = cur /\ n' = n
      /\ done' = done /\ clunk' = clunk /\ ftag' = ftag /\ refused' = refused
      /\ io' \in Window \X {"title", "lost title"}
  BY DEF SetTitle, locals
<1>2. TypeOK'
  BY <1>0, <1>1 DEF TypeOK
<1>3. WinsOK'
  BY <1>0, <1>1 DEF WinsOK, WinOK, Opened
<1>4. WinnewOK'
  BY <1>0, <1>1 DEF WinnewOK, Opened, Room, Passed
<1>5. FidsOK' /\ TagsOK' /\ ImagesOK' /\ FidsNameFiles'
  BY <1>0, <1>1, FidsStay, TagsStay, ImagesStay, NamesStay
<1> QED
  BY <1>2, <1>3, <1>4, <1>5 DEF IInv

LEMMA CommitInv ==
  ASSUME IInv, NEW w \in Window, Commit(w)
  PROVE  IInv'
<1>0. /\ TypeOK /\ WinsOK /\ WinnewOK /\ FidsOK /\ FidsNameFiles /\ TagsOK /\ ImagesOK
      /\ win \in [Window -> StructWindow]
  BY DEF IInv, TypeOK
<1>1. /\ pc = "idle" /\ cur = None /\ win[w].top
      /\ win' = [win EXCEPT ![w].asked = TRUE]
      /\ io' \in Window \X {"commit", "initial commit"}
  BY <1>0 DEF Commit, WinnewOK
<1>2. TypeOK'
  <2>0. win' = [win EXCEPT ![w].asked = TRUE]
    BY <1>1
  <2>1. win' \in [Window -> StructWindow]
    BY <1>0, <2>0 DEF StructWindow
  <2> QED
    BY <1>0, <1>1, <2>1 DEF Commit, TypeOK, locals
<1>3. \A v \in Window :
        /\ v # w => win'[v] = win[v]
        /\ win'[v].state = win[v].state
        /\ win'[v].top = win[v].top /\ win'[v].roles = win[v].roles
        /\ win'[v].initial = win[v].initial /\ win'[v].image = win[v].image
        /\ win'[v].wsys = win[v].wsys /\ win'[v].fid = win[v].fid
        /\ win'[v].tag = win[v].tag
  BY <1>0, <1>1 DEF StructWindow
<1>4. win[w].state # "new"
  BY <1>0, <1>1 DEF WinsOK, WinOK, Fresh
<1>5. WinsOK'
  <2> SUFFICES ASSUME NEW v \in Window PROVE WinOK(v)'
    BY DEF WinsOK
  <2>1. WinOK(v)
    BY <1>0 DEF WinsOK
  <2> QED
    BY <1>3, <1>4, <2>1, WinStays DEF WinOK, Commit, locals
<1>6. WinnewOK'
  BY <1>0, <1>1 DEF WinnewOK, Commit, locals
<1>7. FidsOK'
  BY <1>0, <1>1, <1>3, FidsStay DEF Commit, locals
<1>8. FidsNameFiles'
  BY <1>0, <1>3, NamesStay DEF Commit
<1>9. TagsOK'
  BY <1>0, <1>3, TagsStay DEF Commit, locals
<1>10. ImagesOK'
  BY <1>0, <1>3, ImagesStay DEF Commit, locals
<1> QED
  BY <1>2, <1>5, <1>6, <1>7, <1>8, <1>9, <1>10 DEF IInv

(* The loops of winnew go through the files one by one.                    *)
LEMMA NextFile ==
  ASSUME TypeOK
  PROVE  /\ n \in 1 .. Len(Files) /\ n \in Nat /\ Files[n] \in File
         /\ 1 \in 1 .. Len(Files)
         /\ n # Len(Files) => n + 1 \in 1 .. Len(Files)
         /\ \A j \in n + 1 .. Len(Files) : j \in n .. Len(Files) /\ Files[j] # Files[n]
         /\ Files[n] \notin Passed
         /\ \A f \in File : n = Len(Files) => f \in Passed \cup {Files[n]}
         /\ \A f : f \in {Files[j] : j \in 1 .. n} => f \in Passed \cup {Files[n]}
<1>1. n \in 1 .. Len(Files) /\ n \in Nat /\ Len(Files) \in Nat
  <2>1. n \in 1 .. Len(Files) /\ Len(Files) \in Nat
    BY Names DEF TypeOK
  <2> QED
    BY <2>1
<1>2. Files[n] \in File /\ 1 \in 1 .. Len(Files)
  BY <1>1, Names
<1>3. n # Len(Files) => n + 1 \in 1 .. Len(Files)
  BY <1>1
<1>4. \A j \in n + 1 .. Len(Files) : j \in n .. Len(Files) /\ Files[j] # Files[n]
  <2> TAKE j \in n + 1 .. Len(Files)
  <2>1. j \in 1 .. Len(Files) /\ j # n /\ j \in n .. Len(Files)
    BY <1>1
  <2> QED
    BY <2>1, <1>1, Names
<1>5. Files[n] \notin Passed
  <2> SUFFICES ASSUME NEW j \in 1 .. n - 1, Files[j] = Files[n] PROVE FALSE
    BY DEF Passed
  <2>1. j \in 1 .. Len(Files) /\ j # n
    BY <1>1
  <2> QED
    BY <2>1, <1>1, Names
<1>6. \A j \in 1 .. n : Files[j] \in Passed \cup {Files[n]}
  <2> TAKE j \in 1 .. n
  <2>1. j = n \/ j \in 1 .. n - 1
    BY <1>1
  <2> QED
    BY <2>1 DEF Passed
<1>7. \A f \in File : n = Len(Files) => f \in Passed \cup {Files[n]}
  BY <1>6, Names
<1> QED
  BY <1>1, <1>2, <1>3, <1>4, <1>5, <1>6, <1>7

LEMMA WinnewOpenInv ==
  ASSUME IInv, WinnewOpen
  PROVE  IInv'
<1>0. /\ TypeOK /\ WinsOK /\ WinnewOK /\ FidsOK /\ FidsNameFiles /\ TagsOK /\ ImagesOK
  BY DEF IInv
<1>1. /\ win' = win /\ fidout' = fidout /\ armed' = armed /\ imgout' = imgout
      /\ srv' = srv /\ img' = img /\ cur' = cur /\ ftag' = ftag /\ io' = None
      /\ pc = "open"
  BY DEF WinnewOpen, Quiet
<1>2. \/ /\ clunk' = clunk \cup {Files[n]}
         /\ done' \subseteq done
         /\ refused' \in {refused, refused + 1} /\ refused' \in {refused} \cup 0 .. MaxRefusals
         /\ GoOn("read")
      \/ pc' = "error" /\ n' = n /\ UNCHANGED <<clunk, done, refused>>
  <2>1. refused \in 0 .. MaxRefusals
    BY <1>0 DEF TypeOK
  <2>2. ASSUME NEW ok \in BOOLEAN, Does(ok)
        PROVE  refused' \in {refused, refused + 1} /\ refused' \in {refused} \cup 0 .. MaxRefusals
    BY <2>1, <2>2, MaxAssumption DEF Does
  <2> QED
    BY <2>2 DEF WinnewOpen, Fail
<1>3. done' \subseteq done /\ pc' \in {"open", "read", "error"} /\ n' \in 1 .. Len(Files)
  BY <1>0, <1>1, <1>2, NextFile DEF GoOn
<1>4. TypeOK'
  <2>1. clunk' \subseteq File /\ refused' \in 0 .. MaxRefusals
    BY <1>0, <1>2, NextFile DEF TypeOK
  <2> QED
    BY <1>0, <1>1, <1>3, <2>1 DEF TypeOK
<1>5. WinsOK'
  BY <1>0, <1>1 DEF WinsOK, WinOK, Opened
<1>6. WinnewOK'
  <2>1. pc' = "read" => n' = 1
    BY <1>1, <1>2 DEF GoOn
  <2>2. pc' = "read" => Passed' = {}
    BY <2>1 DEF Passed
  <2> QED
    BY <1>0, <1>1, <1>3, <2>2 DEF WinnewOK, Opened
<1>7. FidsOK'
  BY <1>0, <1>1, <1>3, FidsStay
<1>8. FidsNameFiles' /\ TagsOK' /\ ImagesOK'
  BY <1>0, <1>1, NamesStay, TagsStay, ImagesStay
<1> QED
  BY <1>4, <1>5, <1>6, <1>7, <1>8 DEF IInv

LEMMA WinnewWctlErrorInv ==
  ASSUME IInv, WinnewWctlError
  PROVE  IInv'
<1>0. /\ TypeOK /\ WinsOK /\ WinnewOK /\ FidsOK /\ FidsNameFiles /\ TagsOK /\ ImagesOK
  BY DEF IInv
<1>1. /\ win' = win /\ fidout' = fidout /\ armed' = armed /\ imgout' = imgout
      /\ srv' = srv /\ img' = img /\ cur' = cur /\ ftag' = ftag /\ io' = None
      /\ done' = done /\ clunk' = clunk /\ n' = n
      /\ pc = "wctl" /\ pc' = "error" /\ Does(FALSE)
  BY DEF WinnewWctlError, Quiet, Fail
<1>2. TypeOK'
  <2>1. refused \in 0 .. MaxRefusals
    BY <1>0 DEF TypeOK
  <2>2. refused' \in 0 .. MaxRefusals
    BY <1>1, <2>1, MaxAssumption DEF Does
  <2> QED
    BY <1>0, <1>1, <2>2 DEF TypeOK
<1>3. WinsOK'
  BY <1>0, <1>1 DEF WinsOK, WinOK, Opened
<1>4. WinnewOK'
  BY <1>0, <1>1 DEF WinnewOK, Opened
<1>5. FidsOK'
  BY <1>0, <1>1, FidsStay
<1>6. FidsNameFiles' /\ TagsOK' /\ ImagesOK'
  BY <1>0, <1>1, NamesStay, TagsStay, ImagesStay
<1> QED
  BY <1>2, <1>3, <1>4, <1>5, <1>6 DEF IInv

(* winnew takes a tag that is not in use, nor is that of the read of wctl, *)
(* which has no callback yet.                                              *)
LEMMA ReadTagOK ==
  ASSUME IInv, pc = "read"
  PROVE  LET busy == {ftag[f] : f \in Reader}
         IN  NewTag(busy) \in Tag /\ armed[NewTag(busy)] = None /\ NewTag(busy) \notin busy
<1> DEFINE busy == {ftag[f] : f \in Reader}
           t == NewTag(busy)
<1>a. TypeOK /\ WinnewOK /\ TagsOK
  BY DEF IInv
<1>b. /\ cur \in Window /\ cur # None
      /\ ftag \in [Reader -> Tag \cup {NOTAG}]
  BY <1>a, WindowAssumption DEF WinnewOK, TypeOK
<1> DEFINE s == ftag["wctl"]
           x == <<cur, "wctl">>
           S == {u \in Tag : armed[u] = None} \ busy
<1>1. \A u \in Tag : armed[u] # x
  BY <1>a, <1>b DEF TagsOK
<1>2. x \in Window \X Reader
  BY <1>b, Names
<1>3. \E u \in Tag : armed[u] = None /\ u # s
  <2> HIDE DEF x, s
  <2> QED
    BY <1>a, <1>1, <1>2, FreeTagBut DEF TagsOK
<1>4. \A f \in Input : ftag[f] # NOTAG => armed[ftag[f]] # None
  <2>1. \A f \in Input : <<cur, f>> # None
    BY Pairs
  <2> QED
    BY <2>1, <1>a, <1>b DEF TagsOK
<1>5. \A u \in Tag : armed[u] = None /\ u # s => u \notin busy
  <2> SUFFICES ASSUME NEW u \in Tag, armed[u] = None, NEW f \in Reader, u = ftag[f], f # "wctl"
               PROVE  FALSE
    OBVIOUS
  <2>1. f \in Input /\ ftag[f] # NOTAG
    BY <1>b, Names, Fields DEF Tag, NOTAG
  <2> QED
    BY <2>1, <1>4
<1>6. S # {} /\ S \subseteq Nat
  <2>1. Tag \subseteq Nat
    BY DEF Tag
  <2> HIDE DEF busy
  <2> QED
    BY <1>3, <1>5, <2>1
<1>7. Min(S) \in S
  <2> HIDE DEF S
  <2> QED
    BY <1>6, MinIn
<1>8. t = Min(S)
  BY DEF NewTag
<1>9. t \in Tag /\ armed[t] = None /\ t \notin busy
  <2> HIDE DEF t
  <2> QED
    BY <1>7, <1>8
<1> QED
  BY <1>9

LEMMA WinnewReadInv ==
  ASSUME IInv, WinnewRead
  PROVE  IInv'
<1> DEFINE busy == {ftag[f] : f \in Reader}
           t == NewTag(busy)
           g == Files[n]
<1>0. /\ TypeOK /\ WinsOK /\ WinnewOK /\ FidsOK /\ FidsNameFiles /\ TagsOK /\ ImagesOK
  BY DEF IInv
<1>1. /\ win' = win /\ fidout' = fidout /\ imgout' = imgout
      /\ srv' = srv /\ img' = img /\ cur' = cur /\ io' = None
      /\ done' = done /\ clunk' = clunk /\ refused' = refused /\ pc = "read"
  BY DEF WinnewRead, Quiet
<1>2. /\ cur \in Window /\ cur # None /\ win[cur].top /\ win[cur].initial /\ Opened(cur)
      /\ ~ Failed(cur)
      /\ Passed \subseteq done
      /\ \A f \in Reader : ftag[f] # NOTAG => f \in Passed
      /\ ftag \in [Reader -> Tag \cup {NOTAG}]
      /\ armed \in [Tag -> {None} \cup (Window \X Reader)]
  BY <1>0, <1>1, WindowAssumption DEF WinnewOK, Failed, TypeOK
<1>3. g \in File /\ g \notin Passed /\ (g \in Reader => ftag[g] = NOTAG)
  BY <1>0, <1>2, NextFile
<1>4. t \in Tag /\ armed[t] = None /\ t \notin busy
  BY <1>1, ReadTagOK
<1>5. \/ /\ pc' = "error" /\ n' = n /\ ftag' = ftag /\ armed' = armed
      \/ /\ g \in done /\ GoOn("wctl") /\ g \notin Reader /\ ftag' = ftag /\ armed' = armed
      \/ /\ g \in done /\ GoOn("wctl") /\ g = "wctl"
         /\ ftag' = [ftag EXCEPT ![g] = t] /\ armed' = armed
      \/ /\ g \in done /\ GoOn("wctl") /\ g \in Input
         /\ ftag' = [ftag EXCEPT ![g] = t] /\ armed' = [armed EXCEPT ![t] = <<cur, g>>]
  <2> HIDE DEF t
  <2>1. /\ IF g \in done
           THEN /\ IF g \in Reader
                   THEN /\ ftag' = [ftag EXCEPT ![g] = t]
                        /\ armed' = IF g = "wctl" THEN armed
                                    ELSE [armed EXCEPT ![t] = <<cur, g>>]
                   ELSE UNCHANGED <<ftag, armed>>
                /\ GoOn("wctl")
           ELSE Fail /\ UNCHANGED <<ftag, armed>>
    BY DEF WinnewRead, t
  <2> QED
    BY <2>1, Names DEF Fail
<1> HIDE DEF t, busy, g
<1>6. pc' \in {"read", "wctl", "error"} /\ n' \in 1 .. Len(Files)
  BY <1>0, <1>1, <1>5, NextFile DEF GoOn
<1>7. /\ ftag' \in [Reader -> Tag \cup {NOTAG}]
      /\ armed' \in [Tag -> {None} \cup (Window \X Reader)]
      /\ \A f \in Reader : f # g => ftag'[f] = ftag[f]
  BY <1>2, <1>4, <1>5, Names
<1>8. TypeOK'
  BY <1>0, <1>1, <1>6, <1>7 DEF TypeOK
<1>9. WinsOK'
  BY <1>0, <1>1 DEF WinsOK, WinOK, Opened
<1>10. WinnewOK'
  <2>1. pc' = "read" => n' = n + 1 /\ g \in done
    BY <1>0, <1>1, <1>5, NextFile DEF GoOn
  <2>2. pc' = "wctl" => n = Len(Files) /\ g \in done
    BY <1>1, <1>5 DEF GoOn
  <2>3. pc' = "read" => Passed' \subseteq done' /\ \A f \in Reader : ftag'[f] # NOTAG => f \in Passed'
    <3> SUFFICES ASSUME pc' = "read"
                 PROVE  /\ Passed' \subseteq done'
                        /\ \A f \in Reader : ftag'[f] # NOTAG => f \in Passed'
      OBVIOUS
    <3>1. Passed' = {Files[j] : j \in 1 .. n}
      <4>1. n' - 1 = n
        BY <2>1, <1>0, NextFile
      <4> QED
        BY <4>1 DEF Passed
    <3>2. Passed' = Passed \cup {g}
      <4>1. n \in Nat /\ n \in 1 .. n /\ 1 .. n - 1 \subseteq 1 .. n
        BY <1>0, NextFile
      <4>2. Passed \subseteq Passed' /\ g \in Passed'
        BY <3>1, <4>1 DEF Passed, g
      <4>3. Passed' \subseteq Passed \cup {g}
        BY <3>1, <1>0, NextFile DEF g
      <4> QED
        BY <4>2, <4>3
    <3> QED
      BY <3>2, <2>1, <1>1, <1>2, <1>7
  <2>4. pc' = "wctl" => File \subseteq done'
    BY <2>2, <1>0, <1>1, <1>2, NextFile DEF g
  <2> QED
    BY <1>0, <1>1, <1>6, <2>3, <2>4 DEF WinnewOK, Opened
<1>11. FidsOK'
  BY <1>0, <1>1, FidsStay
<1>12. FidsNameFiles' /\ ImagesOK'
  BY <1>0, <1>1, NamesStay, ImagesStay
<1>13. TagsOK'
  <2>0. /\ \A f \in Reader : TagOf(cur, f) = ftag[f] /\ TagOf(cur, f)' = ftag'[f]
        /\ \A v \in Window, f \in Reader : v # cur => TagOf(v, f)' = TagOf(v, f)
    BY <1>1 DEF TagOf
  <2>1. CASE ftag' = ftag /\ armed' = armed
    BY <2>1, <1>0, <1>1, TagsStay
  <2>2. ASSUME g \in Reader, NEW u \in Tag PROVE armed[u] # <<cur, g>>
    <3>1. ftag[g] # u
      BY <1>3, <2>2, Fields, <1>0, <1>2
    <3> QED
      BY <3>1, <2>0, <2>2, <1>0, <1>2 DEF TagsOK
  <2>3. \A v \in Window : /\ Opened(v)' <=> Opened(v)
                          /\ Failed(v)' <=> Failed(v)
                          /\ Again(v)' <=> Again(v)
    BY <1>1 DEF Opened, Failed, Again
  <2>4. CASE g = "wctl" /\ ftag' = [ftag EXCEPT ![g] = t] /\ armed' = armed
    <3>1. OneReadPerFile'
      BY <2>4, <1>0 DEF TagsOK, OneReadPerFile
    <3>2. ASSUME NEW u \in Tag, NEW v \in Window, NEW f \in Reader, armed'[u] = <<v, f>>
          PROVE  Failed(v)' \/ (win'[v].top /\ TagOf(v, f)' = u)
      <4>1. Failed(v) \/ (win[v].top /\ TagOf(v, f) = u)
        BY <3>2, <2>4, <1>0 DEF TagsOK
      <4>2. v = cur => f # g
        BY <3>2, <2>2, <2>4
      <4> QED
        BY <4>1, <4>2, <2>0, <2>3, <1>1, <1>7
    <3>3. \A u \in Tag, v \in Window : armed'[u] = <<v, "wctl">> => Opened(v)' /\ v # cur'
      BY <2>3, <2>4, <1>0, <1>1 DEF TagsOK
    <3>4. \A f \in Input : ftag'[f] # NOTAG => armed'[ftag'[f]] = <<cur', f>>
      BY <2>4, <1>0, <1>1, <1>2, <1>7, Names DEF TagsOK
    <3>5. ASSUME \A v \in Window : ~ Again(v)',
                 NEW v \in Window, NEW f \in Reader,
                 win'[v].top, Opened(v)', v # cur', win'[v].tag[f] # NOTAG
          PROVE  armed'[win'[v].tag[f]] = <<v, f>>
      BY <3>5, <2>3, <2>4, <1>0, <1>1 DEF TagsOK
    <3> QED
      BY <3>1, <3>2, <3>3, <3>4, <3>5 DEF TagsOK
  <2>5. CASE g \in Input /\ ftag' = [ftag EXCEPT ![g] = t] /\ armed' = [armed EXCEPT ![t] = <<cur, g>>]
    <3>0. /\ g \in Reader /\ ftag'[g] = t /\ armed'[t] = <<cur, g>>
          /\ \A u \in Tag : u # t => armed'[u] = armed[u]
      BY <2>5, <1>2, <1>4, Names
    <3>1. OneReadPerFile'
      BY <3>0, <2>2, <1>0, <1>4 DEF TagsOK, OneReadPerFile
    <3>2. ASSUME NEW u \in Tag, NEW v \in Window, NEW f \in Reader, armed'[u] = <<v, f>>
          PROVE  Failed(v)' \/ (win'[v].top /\ TagOf(v, f)' = u)
      <4>1. CASE u = t
        <5>1. v = cur /\ f = g
          BY <3>2, <4>1, <3>0, Pairs
        <5> QED
          BY <5>1, <4>1, <3>0, <2>0, <1>1, <1>2
      <4>2. CASE u # t
        <5>1. armed[u] = <<v, f>>
          BY <3>0, <3>2, <4>2
        <5>2. Failed(v) \/ (win[v].top /\ TagOf(v, f) = u)
          BY <5>1, <1>0 DEF TagsOK
        <5>3. v = cur => f # g
          BY <5>1, <2>2, <3>0
        <5> QED
          BY <5>2, <5>3, <2>0, <2>3, <1>1, <1>7
      <4> QED
        BY <4>1, <4>2
    <3>3. ASSUME NEW u \in Tag, NEW v \in Window, armed'[u] = <<v, "wctl">>
          PROVE  Opened(v)' /\ v # cur'
      <4>1. u # t
        BY <3>3, <3>0, <2>5, Pairs, Names
      <4> QED
        BY <4>1, <3>0, <3>3, <2>3, <1>0, <1>1 DEF TagsOK
    <3>4. ASSUME NEW f \in Input, ftag'[f] # NOTAG
          PROVE  armed'[ftag'[f]] = <<cur', f>>
      <4>1. CASE f = g
        BY <4>1, <3>0, <1>1
      <4>2. CASE f # g
        <5>1. f \in Reader /\ ftag'[f] = ftag[f]
          BY <4>2, <1>7, Names
        <5>2. ftag[f] \in Tag /\ ftag[f] # t
          BY <5>1, <3>4, <1>2, <1>4 DEF busy
        <5> QED
          BY <5>1, <5>2, <3>0, <3>4, <1>0, <1>1, <1>2 DEF TagsOK
      <4> QED
        BY <4>1, <4>2
    <3>5. ASSUME \A v \in Window : ~ Again(v)',
                 NEW v \in Window, NEW f \in Reader,
                 win'[v].top, Opened(v)', v # cur', win'[v].tag[f] # NOTAG
          PROVE  armed'[win'[v].tag[f]] = <<v, f>>
      <4>1. armed[win[v].tag[f]] = <<v, f>>
        BY <3>5, <2>3, <1>0, <1>1 DEF TagsOK
      <4>2. win[v].tag[f] \in Tag
        BY <3>5, <1>0, <1>1, Fields
      <4>3. win[v].tag[f] # t
        BY <4>1, <1>4, Pairs
      <4> QED
        BY <4>1, <4>2, <4>3, <3>0, <1>1
    <3> QED
      BY <3>1, <3>2, <3>3, <3>4, <3>5 DEF TagsOK
  <2> QED
    BY <1>5, <2>1, <2>4, <2>5
<1> QED
  BY <1>8, <1>9, <1>10, <1>11, <1>12, <1>13 DEF IInv

(* With cur = None the tags are those of struct window.                    *)
LEMMA IdleTags ==
  ASSUME TagsOK, cur = None, OneReadPerFile',
         cur' = None, ftag' = ftag,
         \A t \in Tag, w \in Window, f \in Reader :
           armed'[t] = <<w, f>> => \/ win'[w].wsys = -1 /\ ~ win'[w].initial
                                   \/ win'[w].top /\ win'[w].tag[f] = t,
         \A t \in Tag, w \in Window : armed'[t] = <<w, "wctl">> => win'[w].wsys # -1,
         (\A w \in Window : ~ (win'[w].roles > 1)) =>
           \A w \in Window, f \in Reader :
             win'[w].top /\ win'[w].wsys # -1 /\ win'[w].tag[f] # NOTAG =>
               armed'[win'[w].tag[f]] = <<w, f>>
  PROVE  TagsOK'
<1>1. \A w \in Window : w # cur'
  BY WindowAssumption
<1>2. \A w \in Window, f \in Reader : TagOf(w, f)' = win'[w].tag[f]
  BY <1>1 DEF TagOf
<1>3. \A t \in Tag, w \in Window, f \in Reader :
        armed'[t] = <<w, f>> => Failed(w)' \/ (win'[w].top /\ TagOf(w, f)' = t)
  BY <1>2 DEF Failed, Opened
<1>4. \A t \in Tag, w \in Window : armed'[t] = <<w, "wctl">> => Opened(w)' /\ w # cur'
  BY <1>1 DEF Opened
<1>5. (\A w \in Window : ~ Again(w)') =>
        \A w \in Window, f \in Reader :
          win'[w].top /\ Opened(w)' /\ w # cur' /\ win'[w].tag[f] # NOTAG =>
            armed'[win'[w].tag[f]] = <<w, f>>
  BY DEF Again, Opened
<1> QED
  BY <1>3, <1>4, <1>5 DEF TagsOK

LEMMA IdleTagsNow ==
  ASSUME TagsOK, cur = None
  PROVE  /\ \A t \in Tag, w \in Window, f \in Reader :
              armed[t] = <<w, f>> => \/ win[w].wsys = -1 /\ ~ win[w].initial
                                     \/ win[w].top /\ win[w].tag[f] = t
         /\ \A t \in Tag, w \in Window : armed[t] = <<w, "wctl">> => win[w].wsys # -1
         /\ (\A w \in Window : ~ (win[w].roles > 1)) =>
              \A w \in Window, f \in Reader :
                win[w].top /\ win[w].wsys # -1 /\ win[w].tag[f] # NOTAG =>
                  armed[win[w].tag[f]] = <<w, f>>
<1>1. \A w \in Window : w # cur
  BY WindowAssumption
<1>2. \A w \in Window, f \in Reader : TagOf(w, f) = win[w].tag[f]
  BY <1>1 DEF TagOf
<1>3. \A t \in Tag, w \in Window, f \in Reader :
        armed[t] = <<w, f>> => Failed(w) \/ (win[w].top /\ win[w].tag[f] = t)
  BY <1>2 DEF TagsOK
<1>4. \A t \in Tag, w \in Window : armed[t] = <<w, "wctl">> => Opened(w)
  BY DEF TagsOK
<1>5. (\A w \in Window : ~ Again(w)) =>
        \A w \in Window, f \in Reader :
          win[w].top /\ Opened(w) /\ win[w].tag[f] # NOTAG =>
            armed[win[w].tag[f]] = <<w, f>>
  BY <1>1 DEF TagsOK
<1> QED
  BY <1>3, <1>4, <1>5 DEF Failed, Opened, Again

LEMMA NewTagOK ==
  ASSUME TypeOK, OneReadPerFile, NEW busy, NEW t, busy \subseteq {t}, t \in Tag => armed[t] # None
  PROVE  NewTag(busy) \in Tag /\ armed[NewTag(busy)] = None /\ NewTag(busy) # t
<1> DEFINE S == {u \in Tag : armed[u] = None} \ busy
<1>1. S # {}
  BY FreeTag
<1>2. S \subseteq Nat
  BY DEF Tag
<1>3. Min(S) \in S
  <2> HIDE DEF S
  <2> QED
    BY <1>1, <1>2, MinIn
<1> QED
  BY <1>3 DEF NewTag

LEMMA TagSet ==
  ASSUME NEW r \in StructWindow, NEW T \in [Reader -> Tag \cup {NOTAG}]
  PROVE  [r EXCEPT !.tag = T] \in StructWindow
BY DEF StructWindow

LEMMA FireInputInv ==
  ASSUME IInv, NEW t \in Tag, FireInput(t)
  PROVE  IInv'
<1>0. /\ TypeOK /\ WinsOK /\ WinnewOK /\ FidsOK /\ FidsNameFiles /\ TagsOK /\ ImagesOK
      /\ win \in [Window -> StructWindow] /\ OneReadPerFile
      /\ armed \in [Tag -> {None} \cup (Window \X Reader)]
  BY DEF IInv, TypeOK, TagsOK
<1> PICK w \in Window, f \in Input : FireInput(t)!(w, f)
  BY DEF FireInput
<1> DEFINE u == NewTag({t})
<1>1. /\ pc = "idle" /\ cur = None /\ armed[t] = <<w, f>>
      /\ armed' = [armed EXCEPT ![t] = None, ![u] = <<w, f>>]
      /\ win' = [win EXCEPT ![w].tag[f] = u]
      /\ fidout' = fidout /\ imgout' = imgout /\ srv' = srv /\ img' = img /\ pc' = pc
      /\ cur' = cur /\ n' = n /\ done' = done /\ clunk' = clunk /\ ftag' = ftag
      /\ refused' = refused /\ io' = None
  BY <1>0 DEF WinnewOK, Quiet, locals
<1>2. f \in Reader /\ f # "wctl"
  BY Names
<1>3. u \in Tag /\ armed[u] = None /\ u # t
  <2>1. armed[t] # None
    BY <1>1, Pairs
  <2> QED
    BY <2>1, <1>0, NewTagOK
<1> HIDE DEF u
<1>4. armed'[t] = None /\ armed'[u] = <<w, f>> /\ \A s \in Tag : s # t /\ s # u => armed'[s] = armed[s]
  BY <1>0, <1>1, <1>3
<1> DEFINE T == [win[w].tag EXCEPT ![f] = u]
<1>5. /\ T \in [Reader -> Tag \cup {NOTAG}]
      /\ T[f] = u /\ \A g \in Reader : g # f => T[g] = win[w].tag[g]
  <2>1. win[w].tag \in [Reader -> Tag \cup {NOTAG}]
    BY <1>0, Fields
  <2> QED
    BY <2>1, <1>2, <1>3
<1>6. /\ win' \in [Window -> StructWindow]
      /\ \A v \in Window :
           /\ v # w => win'[v] = win[v]
           /\ win'[v].state = win[v].state
           /\ win'[v].top = win[v].top /\ win'[v].roles = win[v].roles
           /\ win'[v].initial = win[v].initial /\ win'[v].image = win[v].image
           /\ win'[v].wsys = win[v].wsys /\ win'[v].fid = win[v].fid
      /\ win'[w].tag = T
  <2>1. win' = [win EXCEPT ![w].tag = T]
    BY <1>1
  <2> HIDE DEF T
  <2>2. win' \in [Window -> StructWindow]
    <3>1. T \in [Reader -> Tag \cup {NOTAG}]
      BY <1>5
    <3>2. [win[w] EXCEPT !.tag = T] \in StructWindow
      BY <1>0, <3>1, TagSet
    <3> QED
      BY <2>1, <1>0, <3>2
  <2>3. \A v \in Window :
          /\ v # w => win'[v] = win[v]
          /\ win'[v].state = win[v].state
          /\ win'[v].top = win[v].top /\ win'[v].roles = win[v].roles
          /\ win'[v].initial = win[v].initial /\ win'[v].image = win[v].image
          /\ win'[v].wsys = win[v].wsys /\ win'[v].fid = win[v].fid
    BY <2>1, <1>0 DEF StructWindow
  <2>4. win'[w].tag = T
    BY <2>1, <1>0 DEF StructWindow
  <2> QED
    BY <2>2, <2>3, <2>4
<1>7. win'[w].tag[f] = u /\ \A g \in Reader : g # f => win'[w].tag[g] = win[w].tag[g]
  BY <1>5, <1>6
<1> HIDE DEF T
<1>8. TypeOK'
  <2>1. armed' \in [Tag -> {None} \cup (Window \X Reader)]
    <3>1. <<w, f>> \in Window \X Reader
      BY <1>2
    <3>2. armed' = [armed EXCEPT ![t] = None, ![u] = <<w, f>>]
      BY <1>1
    <3> QED
      BY <1>0, <3>1, <3>2
  <2> QED
    BY <1>0, <1>1, <1>6, <2>1 DEF TypeOK
<1>9. ~ win[w].initial /\ (Failed(w) \/ win[w].top)
  <2>1. Failed(w) \/ (win[w].top /\ win[w].tag[f] = t)
    BY <1>0, <1>1, <1>2, IdleTagsNow DEF Failed, Opened
  <2>2. CASE Failed(w)
    BY <2>2 DEF Failed
  <2>3. CASE win[w].top /\ win[w].tag[f] = t
    <3>1. win[w].tag[f] # NOTAG /\ w # cur
      BY <2>3, <1>0, <1>1, Fields, WindowAssumption
    <3> QED
      BY <2>3, <3>1, <1>0, <1>2 DEF WinsOK, WinOK
  <2> QED
    BY <2>1, <2>2, <2>3
<1>10. WinsOK'
  <2> SUFFICES ASSUME NEW v \in Window PROVE WinOK(v)'
    BY DEF WinsOK
  <2>1. WinOK(v)
    BY <1>0 DEF WinsOK
  <2>2. win[w].state # "new"
    <3>1. [Fresh EXCEPT !.state = "new"].initial = TRUE
      BY DEF Fresh
    <3> QED
      BY <3>1, <1>0, <1>9 DEF WinsOK, WinOK
  <2>3. CASE v = w
    BY <2>1, <2>2, <2>3, <1>6, <1>9 DEF WinOK, Opened
  <2>4. CASE v # w
    BY <2>1, <2>4, <1>1, <1>6 DEF WinOK, Opened
  <2> QED
    BY <2>3, <2>4
<1>11. WinnewOK'
  BY <1>0, <1>1 DEF WinnewOK
<1>12. FidsOK' /\ FidsNameFiles' /\ ImagesOK'
  BY <1>0, <1>1, <1>6, FidsStay, NamesStay, ImagesStay
<1>13. TagsOK'
  <2>1. OneReadPerFile'
    BY <1>0, <1>1, <1>3, <1>4 DEF OneReadPerFile
  <2>2. ASSUME NEW s \in Tag, NEW v \in Window, NEW g \in Reader, armed'[s] = <<v, g>>
        PROVE  \/ win'[v].wsys = -1 /\ ~ win'[v].initial
               \/ win'[v].top /\ win'[v].tag[g] = s
    <3>0. <<v, g>> # None
      BY Pairs
    <3>1. s # t
      BY <2>2, <1>4, <3>0
    <3>2. CASE s = u
      <4>1. v = w /\ g = f
        BY <2>2, <3>2, <1>4, Pairs
      <4> QED
        BY <4>1, <3>2, <1>6, <1>7, <1>9 DEF Failed, Opened
    <3>3. CASE s # u
      <4>1. armed[s] = <<v, g>>
        BY <2>2, <3>1, <3>3, <1>4
      <4>2. v = w => g # f
        BY <4>1, <3>1, <1>0, <1>1, Pairs DEF OneReadPerFile
      <4>3. \/ win[v].wsys = -1 /\ ~ win[v].initial
            \/ win[v].top /\ win[v].tag[g] = s
        BY <4>1, <1>0, <1>1, IdleTagsNow
      <4>4. win'[v].tag[g] = win[v].tag[g]
        BY <4>2, <1>6, <1>7
      <4> QED
        BY <4>3, <4>4, <1>6
    <3> QED
      BY <3>2, <3>3
  <2>3. ASSUME NEW s \in Tag, NEW v \in Window, armed'[s] = <<v, "wctl">>
        PROVE  win'[v].wsys # -1
    <3>0. <<v, "wctl">> # None /\ <<v, "wctl">> # <<w, f>>
      BY <1>2, Pairs
    <3>1. s # t /\ s # u
      BY <2>3, <3>0, <1>4
    <3>2. armed[s] = <<v, "wctl">>
      BY <2>3, <3>1, <1>4
    <3>3. win[v].wsys # -1
      BY <3>2, <1>0, <1>1, IdleTagsNow
    <3> QED
      BY <3>3, <1>6
  <2>4. ASSUME \A v \in Window : ~ (win'[v].roles > 1),
               NEW v \in Window, NEW g \in Reader,
               win'[v].top, win'[v].wsys # -1, win'[v].tag[g] # NOTAG
        PROVE  armed'[win'[v].tag[g]] = <<v, g>>
    <3>1. CASE v = w /\ g = f
      BY <3>1, <1>4, <1>7
    <3>2. CASE ~ (v = w /\ g = f)
      <4>1. win'[v].tag[g] = win[v].tag[g]
        BY <3>2, <1>6, <1>7
      <4>2. armed[win[v].tag[g]] = <<v, g>>
        BY <2>4, <4>1, <1>0, <1>1, <1>6, IdleTagsNow
      <4>3. win[v].tag[g] \in Tag
        BY <2>4, <4>1, <1>0, Fields
      <4>4. win[v].tag[g] # t /\ win[v].tag[g] # u
        BY <4>2, <3>2, <1>1, <1>3, Pairs
      <4> QED
        BY <4>1, <4>2, <4>3, <4>4, <1>4
    <3> QED
      BY <3>1, <3>2
  <2> QED
    BY <2>1, <2>2, <2>3, <2>4, <1>0, <1>1, IdleTags
<1> QED
  BY <1>8, <1>10, <1>11, <1>12, <1>13 DEF IInv

LEMMA FireErrorInv ==
  ASSUME IInv, NEW t \in Tag, FireError(t)
  PROVE  IInv'
<1>0. /\ TypeOK /\ WinsOK /\ WinnewOK /\ FidsOK /\ FidsNameFiles /\ TagsOK /\ ImagesOK
      /\ win \in [Window -> StructWindow] /\ OneReadPerFile
      /\ armed \in [Tag -> {None} \cup (Window \X Reader)]
  BY DEF IInv, TypeOK, TagsOK
<1> PICK w \in Window, f \in Reader : FireError(t)!(w, f)
  BY DEF FireError
<1>1. /\ pc = "idle" /\ cur = None /\ armed[t] = <<w, f>>
      /\ armed' = [armed EXCEPT ![t] = None]
      /\ win' = [win EXCEPT ![w].tag[f] = NOTAG]
      /\ fidout' = fidout /\ imgout' = imgout /\ srv' = srv /\ img' = img /\ pc' = pc
      /\ cur' = cur /\ n' = n /\ done' = done /\ clunk' = clunk /\ ftag' = ftag
      /\ refused' = refused /\ io' \in {None} \cup (Window \X {"close"})
  BY <1>0 DEF WinnewOK, locals
<1>2. armed'[t] = None /\ \A s \in Tag : s # t => armed'[s] = armed[s]
  BY <1>0, <1>1
<1> DEFINE T == [win[w].tag EXCEPT ![f] = NOTAG]
<1>3. /\ T \in [Reader -> Tag \cup {NOTAG}]
      /\ T[f] = NOTAG /\ \A g \in Reader : g # f => T[g] = win[w].tag[g]
  <2>1. win[w].tag \in [Reader -> Tag \cup {NOTAG}]
    BY <1>0, Fields
  <2> QED
    BY <2>1
<1>4. /\ win' \in [Window -> StructWindow]
      /\ \A v \in Window :
           /\ v # w => win'[v] = win[v]
           /\ win'[v].state = win[v].state
           /\ win'[v].top = win[v].top /\ win'[v].roles = win[v].roles
           /\ win'[v].initial = win[v].initial /\ win'[v].image = win[v].image
           /\ win'[v].wsys = win[v].wsys /\ win'[v].fid = win[v].fid
      /\ win'[w].tag = T
  <2>1. win' = [win EXCEPT ![w].tag = T]
    BY <1>1
  <2> HIDE DEF T
  <2>2. win' \in [Window -> StructWindow]
    <3>1. T \in [Reader -> Tag \cup {NOTAG}]
      BY <1>3
    <3>2. [win[w] EXCEPT !.tag = T] \in StructWindow
      BY <1>0, <3>1, TagSet
    <3> QED
      BY <2>1, <1>0, <3>2
  <2>3. \A v \in Window :
          /\ v # w => win'[v] = win[v]
          /\ win'[v].state = win[v].state
          /\ win'[v].top = win[v].top /\ win'[v].roles = win[v].roles
          /\ win'[v].initial = win[v].initial /\ win'[v].image = win[v].image
          /\ win'[v].wsys = win[v].wsys /\ win'[v].fid = win[v].fid
    BY <2>1, <1>0 DEF StructWindow
  <2>4. win'[w].tag = T
    BY <2>1, <1>0 DEF StructWindow
  <2> QED
    BY <2>2, <2>3, <2>4
<1>5. win'[w].tag[f] = NOTAG /\ \A g \in Reader : g # f => win'[w].tag[g] = win[w].tag[g]
  BY <1>3, <1>4
<1> HIDE DEF T
<1>6. TypeOK'
  <2>1. armed' \in [Tag -> {None} \cup (Window \X Reader)]
    BY <1>0, <1>1
  <2> QED
    BY <1>0, <1>1, <1>4, <2>1 DEF TypeOK
<1>7. win[w].state # "new"
  <2>1. /\ [Fresh EXCEPT !.state = "new"].initial = TRUE
        /\ [Fresh EXCEPT !.state = "new"].top = FALSE
    BY DEF Fresh
  <2>2. \/ win[w].wsys = -1 /\ ~ win[w].initial
        \/ win[w].top /\ win[w].tag[f] = t
    BY <1>0, <1>1, IdleTagsNow
  <2> QED
    BY <2>1, <2>2, <1>0 DEF WinsOK, WinOK
<1>8. WinsOK'
  <2> SUFFICES ASSUME NEW v \in Window PROVE WinOK(v)'
    BY DEF WinsOK
  <2>1. WinOK(v)
    BY <1>0 DEF WinsOK
  <2>2. CASE v = w
    BY <2>1, <2>2, <1>1, <1>4, <1>5, <1>7 DEF WinOK, Opened
  <2>3. CASE v # w
    BY <2>1, <2>3, <1>1, <1>4 DEF WinOK, Opened
  <2> QED
    BY <2>2, <2>3
<1>9. WinnewOK'
  BY <1>0, <1>1 DEF WinnewOK
<1>10. FidsOK' /\ FidsNameFiles' /\ ImagesOK'
  BY <1>0, <1>1, <1>4, FidsStay, NamesStay, ImagesStay
<1>11. TagsOK'
  <2>0. \A s \in Tag : armed'[s] # None => armed'[s] = armed[s] /\ s # t
    BY <1>2
  <2>1. OneReadPerFile'
    BY <1>0, <2>0 DEF OneReadPerFile
  <2>2. ASSUME NEW s \in Tag, NEW v \in Window, NEW g \in Reader, armed'[s] = <<v, g>>
        PROVE  \/ win'[v].wsys = -1 /\ ~ win'[v].initial
               \/ win'[v].top /\ win'[v].tag[g] = s
    <3>0. <<v, g>> # None
      BY Pairs
    <3>1. armed[s] = <<v, g>> /\ s # t
      BY <2>0, <2>2, <3>0
    <3>2. v = w => g # f
      BY <3>1, <1>0, <1>1, Pairs DEF OneReadPerFile
    <3>3. \/ win[v].wsys = -1 /\ ~ win[v].initial
          \/ win[v].top /\ win[v].tag[g] = s
      BY <3>1, <1>0, <1>1, IdleTagsNow
    <3>4. win'[v].tag[g] = win[v].tag[g]
      BY <3>2, <1>4, <1>5
    <3> QED
      BY <3>3, <3>4, <1>4
  <2>3. ASSUME NEW s \in Tag, NEW v \in Window, armed'[s] = <<v, "wctl">>
        PROVE  win'[v].wsys # -1
    <3>0. <<v, "wctl">> # None
      BY Pairs
    <3>1. armed[s] = <<v, "wctl">>
      BY <2>0, <2>3, <3>0
    <3>2. win[v].wsys # -1
      BY <3>1, <1>0, <1>1, IdleTagsNow
    <3> QED
      BY <3>2, <1>4
  <2>4. ASSUME \A v \in Window : ~ (win'[v].roles > 1),
               NEW v \in Window, NEW g \in Reader,
               win'[v].top, win'[v].wsys # -1, win'[v].tag[g] # NOTAG
        PROVE  armed'[win'[v].tag[g]] = <<v, g>>
    <3>1. ~ (v = w /\ g = f)
      BY <2>4, <1>5
    <3>2. win'[v].tag[g] = win[v].tag[g]
      BY <3>1, <1>4, <1>5
    <3>3. armed[win[v].tag[g]] = <<v, g>>
      <4>1. \A u \in Window : ~ (win[u].roles > 1)
        BY <2>4, <1>4
      <4>2. win[v].top /\ win[v].wsys # -1 /\ win[v].tag[g] # NOTAG
        BY <2>4, <3>2, <1>4
      <4> QED
        BY <4>1, <4>2, <1>0, <1>1, IdleTagsNow
    <3>4. win[v].tag[g] \in Tag
      BY <2>4, <3>2, <1>0, Fields
    <3>5. win[v].tag[g] # t
      BY <3>3, <3>1, <1>1, Pairs
    <3> QED
      BY <3>2, <3>3, <3>4, <3>5, <1>2
  <2> QED
    BY <2>1, <2>2, <2>3, <2>4, <1>0, <1>1, IdleTags
<1> QED
  BY <1>6, <1>8, <1>9, <1>10, <1>11 DEF IInv

(* The destruction of a toplevel gives its ids up, where it has any.       *)
LEMMA GivenTypes ==
  ASSUME TypeOK, NEW w \in Window, Given(w)
  PROVE  /\ srv' \in [Fid -> {None} \cup (Window \X (File \cup {"wsys"}))]
         /\ armed' \in [Tag -> {None} \cup (Window \X Reader)]
         /\ img' \in [Image -> Window \cup {"screen", "none"}]
         /\ \A i \in Image : img'[i] \in {img[i], "none"}
         /\ \A g \in Fid : /\ srv'[g] \in {srv[g], None}
                           /\ srv'[g] # srv[g] => Opened(w) /\ \E a \in Slot : FidOf(w, a) = g
         /\ \A t \in Tag : /\ armed'[t] \in {armed[t], None}
                           /\ armed'[t] # armed[t] => Opened(w) /\ \E f \in Reader : win[w].tag[f] = t
                           /\ Opened(w) /\ (\E f \in Reader : win[w].tag[f] = t) => armed'[t] = None
<1>0. /\ srv \in [Fid -> {None} \cup (Window \X (File \cup {"wsys"}))]
      /\ armed \in [Tag -> {None} \cup (Window \X Reader)]
      /\ img \in [Image -> Window \cup {"screen", "none"}]
  BY DEF TypeOK
<1>1. /\ srv' \in [Fid -> {None} \cup (Window \X (File \cup {"wsys"}))]
      /\ \A g \in Fid : /\ srv'[g] \in {srv[g], None}
                        /\ srv'[g] # srv[g] => Opened(w) /\ g \in OwnFids(w)
  BY <1>0 DEF Given, Clunked
<1>2. \A g \in OwnFids(w) : \E a \in Slot : FidOf(w, a) = g
  BY Names DEF OwnFids, FidOf
<1>3. /\ armed' \in [Tag -> {None} \cup (Window \X Reader)]
      /\ \A t \in Tag : /\ armed'[t] \in {armed[t], None}
                        /\ armed'[t] # armed[t] => Opened(w) /\ t \in OwnTags(w)
                        /\ Opened(w) /\ t \in OwnTags(w) => armed'[t] = None
  BY <1>0 DEF Given, Flushed
<1>4. \A t : t \in OwnTags(w) <=> \E f \in Reader : win[w].tag[f] = t
  BY DEF OwnTags
<1>5. /\ img' \in [Image -> Window \cup {"screen", "none"}]
      /\ \A i \in Image : img'[i] \in {img[i], "none"}
  BY <1>0 DEF Given, Released
<1> QED
  BY <1>1, <1>2, <1>3, <1>4, <1>5

LEMMA Destroyed ==
  ASSUME IInv, NEW w \in Window, pc = "idle", cur = None,
         \/ win[w].top /\ Given(w)
         \/ ~ win[w].top /\ UNCHANGED <<srv, armed, img, fidout, imgout>>,
         \A v \in Window :
           /\ v # w => win'[v] = win[v]
           /\ win'[v].roles = win[v].roles
           /\ win'[v].initial = win[v].initial /\ win'[v].image = win[v].image
           /\ win'[v].wsys = win[v].wsys /\ win'[v].fid = win[v].fid,
         ~ win'[w].top, win' \in [Window -> StructWindow],
         win'[w].state # "new" \/ win'[w] = win[w],
         \/ win'[w].tag = win[w].tag
         \/ ~ Failed(w) /\ \A f \in Reader : win'[w].tag[f] = NOTAG,
         Quiet, UNCHANGED <<pc, locals, refused>>
  PROVE  IInv'
<1>0. /\ TypeOK /\ WinsOK /\ WinnewOK /\ FidsOK /\ FidsNameFiles /\ TagsOK /\ ImagesOK
      /\ OneReadPerFile
  BY DEF IInv, TagsOK
<1>1. /\ cur' = cur /\ n' = n /\ done' = done /\ clunk' = clunk /\ ftag' = ftag
      /\ refused' = refused /\ pc' = pc /\ io' = None
  BY DEF locals, Quiet
<1>2. fidout' = fidout /\ imgout' = imgout
  BY DEF Given
<1>3. /\ srv' \in [Fid -> {None} \cup (Window \X (File \cup {"wsys"}))]
      /\ armed' \in [Tag -> {None} \cup (Window \X Reader)]
      /\ img' \in [Image -> Window \cup {"screen", "none"}]
      /\ \A i \in Image : img'[i] \in {img[i], "none"}
  <2>1. CASE win[w].top /\ Given(w)
    BY <2>1, <1>0, GivenTypes
  <2>2. CASE UNCHANGED <<srv, armed, img, fidout, imgout>>
    BY <2>2, <1>0 DEF TypeOK
  <2> QED
    BY <2>1, <2>2
<1>4. \A g \in Fid : /\ srv'[g] \in {srv[g], None}
                     /\ srv'[g] # srv[g] => \E a \in Slot : FidOf(w, a) = g
  <2>1. CASE win[w].top /\ Given(w)
    BY <2>1, <1>0, GivenTypes
  <2>2. CASE UNCHANGED <<srv, armed, img, fidout, imgout>>
    BY <2>2
  <2> QED
    BY <2>1, <2>2
<1>5. \A t \in Tag : /\ armed'[t] \in {armed[t], None}
                     /\ armed'[t] # armed[t] =>
                          win[w].top /\ Opened(w) /\ \E f \in Reader : win[w].tag[f] = t
                     /\ win[w].top /\ Opened(w) /\ (\E f \in Reader : win[w].tag[f] = t) =>
                          armed'[t] = None
  <2>1. CASE win[w].top /\ Given(w)
    BY <2>1, <1>0, GivenTypes
  <2>2. CASE ~ win[w].top /\ UNCHANGED <<srv, armed, img, fidout, imgout>>
    BY <2>2
  <2> QED
    BY <2>1, <2>2
<1>6. TypeOK'
  BY <1>0, <1>1, <1>2, <1>3 DEF TypeOK
<1>7. WinsOK'
  <2> SUFFICES ASSUME NEW v \in Window PROVE WinOK(v)'
    BY DEF WinsOK
  <2>1. WinOK(v)
    BY <1>0 DEF WinsOK
  <2>2. CASE v = w
    BY <2>1, <2>2, <1>1 DEF WinOK, Opened
  <2>3. CASE v # w
    BY <2>1, <2>3, <1>1 DEF WinOK, Opened
  <2> QED
    BY <2>2, <2>3
<1>8. WinnewOK'
  BY <1>0, <1>1 DEF WinnewOK
<1>9. FidsOK'
  BY <1>0, <1>1, <1>2, <1>4, FidsStay
<1>10. ImagesOK'
  BY <1>0, <1>2, <1>3, ImagesStay
<1>11. FidsNameFiles'
  <2> SUFFICES ASSUME NEW v \in Window, win'[v].top, win'[v].roles = 1, win'[v].wsys # -1,
                      ~ win'[v].initial
               PROVE  /\ srv'[win'[v].wsys] = <<v, "wsys">>
                      /\ \A f \in File : srv'[win'[v].fid[f]] = <<v, f>>
    BY DEF FidsNameFiles, Opened
  <2>1. v # w /\ win'[v] = win[v]
    OBVIOUS
  <2>2. /\ Opened(v)
        /\ srv[win[v].wsys] = <<v, "wsys">> /\ \A f \in File : srv[win[v].fid[f]] = <<v, f>>
    BY <2>1, <1>0 DEF FidsNameFiles, Opened
  <2>3. \A a \in Slot : FidOf(v, a) \in Fid
    <3>1. \A f \in File : win[v].fid[f] # -1
      BY <2>1, <2>2, <1>0 DEF WinsOK, WinOK
    <3>2. \A a \in Slot : FidOf(v, a) # -1
      BY <3>1, <2>1, Names DEF FidOf
    <3> QED
      BY <3>2, <1>0, Fields
  <2>4. \A a \in Slot : srv'[FidOf(v, a)] = srv[FidOf(v, a)]
    <3> SUFFICES ASSUME NEW a \in Slot, srv'[FidOf(v, a)] # srv[FidOf(v, a)] PROVE FALSE
      OBVIOUS
    <3>1. PICK b \in Slot : FidOf(w, b) = FidOf(v, a)
      BY <2>3, <1>4
    <3>2. FidOf(v, a) # -1
      BY <2>3, <1>0, Fields
    <3> QED
      BY <3>1, <3>2, <2>1, <1>0 DEF FidsOK
  <2>5. /\ srv'[FidOf(v, "wsys")] = srv[FidOf(v, "wsys")]
        /\ \A f \in File : srv'[FidOf(v, f)] = srv[FidOf(v, f)]
    BY <2>4, Names
  <2>6. FidOf(v, "wsys") = win[v].wsys /\ \A f \in File : FidOf(v, f) = win[v].fid[f]
    BY Names DEF FidOf
  <2> QED
    BY <2>1, <2>2, <2>5, <2>6
<1>12. TagsOK'
  <2>1. OneReadPerFile'
    BY <1>0, <1>5 DEF OneReadPerFile
  <2>2. ASSUME NEW s \in Tag, NEW v \in Window, NEW g \in Reader, armed'[s] = <<v, g>>
        PROVE  \/ win'[v].wsys = -1 /\ ~ win'[v].initial
               \/ win'[v].top /\ win'[v].tag[g] = s
    <3>0. <<v, g>> # None
      BY Pairs
    <3>1. armed[s] = <<v, g>>
      BY <1>5, <2>2, <3>0
    <3>2. \/ win[v].wsys = -1 /\ ~ win[v].initial
          \/ win[v].top /\ win[v].tag[g] = s
      BY <3>1, <1>0, IdleTagsNow
    <3>3. ASSUME v = w, win[v].top, win[v].tag[g] = s, Opened(w) PROVE FALSE
      BY <3>3, <2>2, <3>0, <1>5
    <3>4. ASSUME v = w, win[v].tag[g] = s, ~ Opened(w) PROVE ~ win[w].initial
      <4>1. win[w].tag[g] # NOTAG /\ w # cur
        BY <3>4, <1>0, Fields, WindowAssumption
      <4> QED
        BY <4>1, <3>4, <1>0 DEF WinsOK, WinOK
    <3> QED
      BY <3>2, <3>3, <3>4 DEF Opened
  <2>3. ASSUME NEW s \in Tag, NEW v \in Window, armed'[s] = <<v, "wctl">>
        PROVE  win'[v].wsys # -1
    <3>0. <<v, "wctl">> # None
      BY Pairs
    <3>1. armed[s] = <<v, "wctl">>
      BY <1>5, <2>3, <3>0
    <3>2. win[v].wsys # -1
      BY <3>1, <1>0, IdleTagsNow
    <3> QED
      BY <3>2
  <2>4. (\A v \in Window : ~ (win[v].roles > 1)) =>
          \A v \in Window, f \in Reader :
            win[v].top /\ win[v].wsys # -1 /\ win[v].tag[f] # NOTAG =>
              armed[win[v].tag[f]] = <<v, f>>
    BY <1>0, IdleTagsNow
  <2>5. ASSUME \A v \in Window : ~ (win'[v].roles > 1),
               NEW v \in Window, NEW g \in Reader,
               win'[v].top, win'[v].wsys # -1, win'[v].tag[g] # NOTAG
        PROVE  armed'[win'[v].tag[g]] = <<v, g>>
    <3>1. v # w /\ win'[v] = win[v] /\ \A u \in Window : ~ (win[u].roles > 1)
      BY <2>5
    <3>2. armed[win[v].tag[g]] = <<v, g>>
      BY <2>5, <3>1, <2>4
    <3>3. win[v].tag[g] \in Tag
      BY <2>5, <3>1, <1>0, Fields
    <3>4. ASSUME armed'[win[v].tag[g]] # armed[win[v].tag[g]] PROVE FALSE
      <4>1. PICK f \in Reader : win[w].tag[f] = win[v].tag[g] /\ win[w].top /\ Opened(w)
        BY <3>3, <3>4, <1>5
      <4>2. win[w].tag[f] # NOTAG
        BY <4>1, <3>1, <2>5
      <4>3. armed[win[w].tag[f]] = <<w, f>>
        <5>1. win[w].wsys # -1
          BY <4>1 DEF Opened
        <5> QED
          BY <5>1, <4>1, <4>2, <3>1, <2>4
      <4> QED
        BY <4>1, <4>3, <3>1, <3>2, Pairs
    <3> QED
      BY <3>1, <3>2, <3>4
  <2> QED
    BY <2>1, <2>2, <2>3, <2>5, <1>0, <1>1, IdleTags
<1> QED
  BY <1>6, <1>7, <1>8, <1>9, <1>10, <1>11, <1>12 DEF IInv

LEMMA TopCleared ==
  ASSUME NEW r \in StructWindow
  PROVE  [r EXCEPT !.top = FALSE, !.asked = FALSE] \in StructWindow
BY DEF StructWindow

LEMMA Gone ==
  ASSUME NEW r \in StructWindow, NEW T \in [Reader -> Tag \cup {NOTAG}]
  PROVE  [r EXCEPT !.top = FALSE, !.asked = FALSE, !.state = "gone", !.tag = T] \in StructWindow
BY DEF StructWindow

LEMMA ToplevelDestroyInv ==
  ASSUME IInv, NEW w \in Window, ToplevelDestroy(w)
  PROVE  IInv'
<1>0. win \in [Window -> StructWindow] /\ WinOK(w)
  BY DEF IInv, TypeOK, WinsOK
<1>1. win' = [win EXCEPT ![w].top = FALSE, ![w].asked = FALSE]
  BY DEF ToplevelDestroy
<1>2. /\ win' \in [Window -> StructWindow]
      /\ \A v \in Window :
           /\ v # w => win'[v] = win[v]
           /\ win'[v].state = win[v].state /\ win'[v].roles = win[v].roles
           /\ win'[v].initial = win[v].initial /\ win'[v].image = win[v].image
           /\ win'[v].wsys = win[v].wsys /\ win'[v].fid = win[v].fid
           /\ win'[v].tag = win[v].tag
      /\ ~ win'[w].top
  <2>1. win' \in [Window -> StructWindow]
    BY <1>0, <1>1, TopCleared
  <2>2. \A v \in Window :
          /\ v # w => win'[v] = win[v]
          /\ win'[v].state = win[v].state /\ win'[v].roles = win[v].roles
          /\ win'[v].initial = win[v].initial /\ win'[v].image = win[v].image
          /\ win'[v].wsys = win[v].wsys /\ win'[v].fid = win[v].fid
          /\ win'[v].tag = win[v].tag
    BY <1>0, <1>1 DEF StructWindow
  <2>3. win'[w].top = FALSE
    BY <1>0, <1>1 DEF StructWindow
  <2> QED
    BY <2>1, <2>2, <2>3
<1>3. win'[w].state # "new"
  <2>1. [Fresh EXCEPT !.state = "new"].top = FALSE
    BY DEF Fresh
  <2> QED
    BY <2>1, <1>0, <1>2 DEF ToplevelDestroy, WinOK
<1>4. pc = "idle" /\ cur = None
  BY DEF ToplevelDestroy, IInv, WinnewOK
<1> QED
  BY <1>2, <1>3, <1>4, Destroyed DEF ToplevelDestroy

LEMMA XdgSurfaceDestroyInv ==
  ASSUME IInv, NEW w \in Window, XdgSurfaceDestroy(w)
  PROVE  IInv'
<1>0. win \in [Window -> StructWindow]
  BY DEF IInv, TypeOK
<1> DEFINE T == IF Failed(w) THEN win[w].tag ELSE [f \in Reader |-> NOTAG]
<1>1. win' = [win EXCEPT ![w].top = FALSE, ![w].asked = FALSE, ![w].state = "gone", ![w].tag = T]
  BY DEF XdgSurfaceDestroy, Fresh
<1>2. /\ T \in [Reader -> Tag \cup {NOTAG}]
      /\ \/ T = win[w].tag
         \/ ~ Failed(w) /\ \A f \in Reader : T[f] = NOTAG
  <2>1. win[w].tag \in [Reader -> Tag \cup {NOTAG}]
    BY Fields DEF IInv
  <2> QED
    BY <2>1
<1> HIDE DEF T
<1>3. win' \in [Window -> StructWindow]
  BY <1>0, <1>1, <1>2, Gone
<1>4. /\ \A v \in Window :
           /\ v # w => win'[v] = win[v]
           /\ win'[v].roles = win[v].roles
           /\ win'[v].initial = win[v].initial /\ win'[v].image = win[v].image
           /\ win'[v].wsys = win[v].wsys /\ win'[v].fid = win[v].fid
      /\ ~ win'[w].top /\ win'[w].state = "gone" /\ win'[w].tag = T
  BY <1>0, <1>1 DEF StructWindow
<1>5. pc = "idle" /\ cur = None
  BY DEF XdgSurfaceDestroy, IInv, WinnewOK
<1>6. \/ win[w].top /\ Given(w)
      \/ ~ win[w].top /\ UNCHANGED <<srv, armed, img, fidout, imgout>>
  BY DEF XdgSurfaceDestroy
<1>7. Quiet /\ UNCHANGED <<pc, locals, refused>>
  BY DEF XdgSurfaceDestroy
<1> QED
  BY <1>2, <1>3, <1>4, <1>5, <1>6, <1>7, Destroyed

LEMMA Attached ==
  ASSUME NEW r \in StructWindow, NEW g \in Fid
  PROVE  /\ [r EXCEPT !.wsys = g, !.image = -1, !.asked = TRUE] \in StructWindow
         /\ [r EXCEPT !.initial = FALSE, !.asked = TRUE] \in StructWindow
BY DEF StructWindow

(* Before its first commit a window has no ids.                            *)
LEMMA Initial ==
  ASSUME IInv, NEW w \in Window, win[w].initial, w # cur
  PROVE  /\ ~ Opened(w) /\ ~ Failed(w) /\ win[w].image < 1
         /\ \A a \in Slot : FidOf(w, a) = -1
         /\ \A f \in File : win[w].fid[f] = -1
         /\ \A g \in Fid, a \in Slot : srv[g] # <<w, a>>
         /\ \A t \in Tag, f \in Reader : armed[t] # <<w, f>>
<1>0. TypeOK /\ WinsOK /\ FidsOK /\ TagsOK
  BY DEF IInv
<1>1. WinOK(w)
  BY <1>0 DEF WinsOK
<1>2. /\ ~ Opened(w) /\ ~ Failed(w) /\ win[w].image < 1
      /\ \A f \in File : win[w].fid[f] = -1
      /\ \A f \in Reader : win[w].tag[f] = NOTAG
  BY <1>1 DEF WinOK, Failed
<1>3. \A a \in Slot : FidOf(w, a) = -1
  BY <1>2, Names DEF FidOf, Opened
<1>4. \A g \in Fid, a \in Slot : srv[g] # <<w, a>>
  BY <1>0, <1>2, <1>3, Fields DEF FidsOK
<1>5. \A t \in Tag, f \in Reader : armed[t] # <<w, f>>
  <2>1. \A f \in Reader : TagOf(w, f) = NOTAG
    BY <1>2 DEF TagOf
  <2> QED
    BY <2>1, <1>0, <1>2, Fields DEF TagsOK
<1> QED
  BY <1>2, <1>3, <1>4, <1>5

LEMMA WinnewAttachInv ==
  ASSUME IInv, NEW w \in Window, WinnewAttach(w)
  PROVE  IInv'
<1> DEFINE g == NewFid
<1>0. /\ TypeOK /\ WinsOK /\ WinnewOK /\ FidsOK /\ FidsNameFiles /\ TagsOK /\ ImagesOK
      /\ win \in [Window -> StructWindow] /\ OneReadPerFile
      /\ srv \in [Fid -> {None} \cup (Window \X (File \cup {"wsys"}))]
  BY DEF IInv, TypeOK, TagsOK
<1>1. /\ pc = "idle" /\ cur = None /\ done = {} /\ win[w].top /\ win[w].initial
      /\ armed' = armed /\ imgout' = imgout /\ img' = img
      /\ io' \in Window \X {"initial commit"}
      /\ \A f \in Reader : ftag[f] = NOTAG
      /\ w # cur /\ \A v \in Window : v # None
  BY <1>0, WindowAssumption DEF WinnewAttach, WinnewOK
<1>2. /\ ~ Opened(w) /\ ~ Failed(w) /\ win[w].image < 1
      /\ \A a \in Slot : FidOf(w, a) = -1
      /\ \A f \in File : win[w].fid[f] = -1
      /\ \A f \in Fid, a \in Slot : srv[f] # <<w, a>>
      /\ \A t \in Tag, f \in Reader : armed[t] # <<w, f>>
  BY <1>1, Initial
<1>3. Room > Len(Files) /\ Room >= 1 /\ Len(Files) \in Nat /\ Room \in Int
  <2>1. Room > Len(Files)
    BY SizeOfFile DEF WinnewAttach, Room
  <2>2. Cardinality(fidout) \in Nat /\ Len(Files) \in Nat
    <3>1. IsFiniteSet(Fid)
      BY MaxFidAssumption, FS_Interval DEF Fid
    <3> QED
      BY <3>1, <1>0, Names, FS_Subset, FS_CardinalityType DEF TypeOK
  <2> QED
    BY <2>1, <2>2, MaxFidAssumption DEF Room
<1>4. g \in Fid /\ g \notin fidout /\ g # -1
  BY <1>0, <1>3, FreeFid, Fields
<1> HIDE DEF g
<1>5. win[w].state # "new"
  <2>1. [Fresh EXCEPT !.state = "new"].top = FALSE
    BY DEF Fresh
  <2> QED
    BY <2>1, <1>0, <1>1 DEF WinsOK, WinOK
<1>6. win[w].roles > 0
  BY <1>0, <1>1 DEF WinsOK, WinOK
<1>9. \A t \in Tag, v \in Window, f \in Reader :
        armed[t] = <<v, f>> => \/ win[v].wsys = -1 /\ ~ win[v].initial
                               \/ win[v].top /\ win[v].tag[f] = t
  BY <1>0, <1>1, IdleTagsNow
<1>10. /\ \A t \in Tag : armed[t] # <<w, "wctl">>
       /\ \A t \in Tag, v \in Window : armed[t] = <<v, "wctl">> => Opened(v)
  BY <1>0, <1>2, Names DEF TagsOK
<1>7. CASE /\ srv[g] = None
           /\ win' = [win EXCEPT ![w].wsys = g, ![w].image = -1, ![w].asked = TRUE]
           /\ srv' = Bound(g, w, "wsys")
           /\ fidout' = fidout \cup {g}
           /\ pc' = "walk" /\ cur' = w
           /\ UNCHANGED <<n, done, clunk, ftag>>
           /\ Does(TRUE)
  <2>1. /\ win' \in [Window -> StructWindow]
        /\ \A v \in Window :
             /\ v # w => win'[v] = win[v]
             /\ win'[v].state = win[v].state
             /\ win'[v].top = win[v].top /\ win'[v].roles = win[v].roles
             /\ win'[v].initial = win[v].initial
             /\ win'[v].fid = win[v].fid /\ win'[v].tag = win[v].tag
        /\ win'[w].wsys = g /\ win'[w].image = -1
    <3>0. win' = [win EXCEPT ![w].wsys = g, ![w].image = -1, ![w].asked = TRUE]
      BY <1>7
    <3>1. win' \in [Window -> StructWindow]
      BY <3>0, <1>0, <1>4, Attached
    <3>2. \A v \in Window :
             /\ v # w => win'[v] = win[v]
             /\ win'[v].state = win[v].state
             /\ win'[v].top = win[v].top /\ win'[v].roles = win[v].roles
             /\ win'[v].initial = win[v].initial
             /\ win'[v].fid = win[v].fid /\ win'[v].tag = win[v].tag
      BY <3>0, <1>0 DEF StructWindow
    <3>3. win'[w].wsys = g /\ win'[w].image = -1
      BY <3>0, <1>0 DEF StructWindow
    <3> QED
      BY <3>1, <3>2, <3>3
  <2>2. /\ srv' \in [Fid -> {None} \cup (Window \X (File \cup {"wsys"}))]
        /\ srv'[g] = <<w, "wsys">> /\ \A f \in Fid : f # g => srv'[f] = srv[f]
    <3>1. <<w, "wsys">> \in Window \X (File \cup {"wsys"})
      OBVIOUS
    <3> QED
      BY <3>1, <1>0, <1>4, <1>7 DEF Bound
  <2>3. TypeOK'
    BY <1>0, <1>1, <1>4, <1>7, <2>1, <2>2 DEF TypeOK, Does
  <2>4. /\ \A v \in Window, a \in Slot :
             FidOf(v, a)' = IF v = w /\ a = "wsys" THEN g ELSE FidOf(v, a)
        /\ \A v \in Window : v # w => (Opened(v)' <=> Opened(v)) /\ (Failed(v)' <=> Failed(v))
        /\ Opened(w)' /\ ~ Failed(w)'
    BY <1>1, <1>4, <2>1 DEF FidOf, Opened, Failed
  <2>5. WinsOK'
    <3> SUFFICES ASSUME NEW v \in Window PROVE WinOK(v)'
      BY DEF WinsOK
    <3>1. WinOK(v)
      BY <1>0 DEF WinsOK
    <3>2. CASE v = w
      <4>1. /\ win'[w].state # "new" /\ win'[w].roles > 0 /\ win'[w].wsys # -1
            /\ win'[w].image = -1
        BY <1>4, <1>5, <1>6, <2>1
      <4>2. win'[w].initial
        BY <1>1, <2>1
      <4>3. w = cur'
        BY <1>7
      <4> QED
        BY <3>2, <4>1, <4>2, <4>3 DEF WinOK, Opened
    <3>3. CASE v # w
      BY <3>1, <3>3, <1>1, <1>7, <2>1 DEF WinOK, Opened
    <3> QED
      BY <3>2, <3>3
  <2>6. WinnewOK'
    <3>1. Room' = Room - 1
      <4>1. IsFiniteSet(fidout)
        <5>1. IsFiniteSet(Fid)
          BY MaxFidAssumption, FS_Interval DEF Fid
        <5> QED
          BY <5>1, <1>0, FS_Subset DEF TypeOK
      <4>2. Cardinality(fidout \cup {g}) = Cardinality(fidout) + 1
        BY <4>1, <1>4, FS_AddElement
      <4>3. Cardinality(fidout) \in Nat
        BY <4>1, FS_CardinalityType
      <4> QED
        BY <4>2, <4>3, <1>7, MaxFidAssumption DEF Room
    <3>2. Room' >= Len(Files) - n' + 1
      <4>1. n' \in 1 .. Len(Files)
        BY <1>0, <1>7, NextFile
      <4> QED
        BY <4>1, <3>1, <1>3
    <3>3. \A j \in n' .. Len(Files) : win'[w].fid[Files[j]] = -1
      <4> SUFFICES ASSUME NEW j \in n' .. Len(Files) PROVE win'[w].fid[Files[j]] = -1
        OBVIOUS
      <4>1. n' \in 1 .. Len(Files)
        BY <1>0, <1>7, NextFile
      <4>2. j \in 1 .. Len(Files)
        BY <4>1, <1>3
      <4>3. Files[j] \in File
        BY <4>2, Names
      <4> QED
        BY <4>3, <1>2, <2>1
    <3>4. pc' = "walk" /\ cur' = w
      BY <1>7
    <3>5. win'[w].top /\ win'[w].initial
      BY <1>1, <2>1
    <3>6. Opened(w)' /\ win'[w].image = -1
      BY <2>1, <2>4
    <3>7. \A f \in Reader : ftag'[f] = NOTAG
      BY <1>1, <1>7
    <3> QED
      BY <3>2, <3>3, <3>4, <3>5, <3>6, <3>7 DEF WinnewOK, Opened
  <2>7. FidsOK'
    <3>1. \A v \in Window, a \in Slot : FidOf(v, a)' # -1 => FidOf(v, a)' \in fidout'
      BY <1>0, <1>7, <2>4 DEF FidsOK
    <3>2. ASSUME NEW u \in Window, NEW v \in Window, NEW a \in Slot, NEW b \in Slot,
                 FidOf(u, a)' = FidOf(v, b)', FidOf(u, a)' # -1
          PROVE  u = v /\ a = b
      <4>1. \A x \in Window, c \in Slot : FidOf(x, c) # g
        BY <1>0, <1>4 DEF FidsOK
      <4> QED
        BY <3>2, <4>1, <1>0, <2>4 DEF FidsOK
    <3>3. ASSUME NEW f \in Fid, NEW v \in Window, NEW a \in Slot, srv'[f] = <<v, a>>
          PROVE  Failed(v)' \/ FidOf(v, a)' = f
      <4>1. CASE f = g
        <5>1. v = w /\ a = "wsys"
          BY <3>3, <4>1, <2>2, Pairs
        <5> QED
          BY <4>1, <5>1, <2>4
      <4>2. CASE f # g
        <5>1. srv[f] = <<v, a>>
          BY <3>3, <4>2, <2>2
        <5>2. v # w
          BY <5>1, <1>2
        <5> QED
          BY <5>1, <5>2, <1>0, <2>4 DEF FidsOK
      <4> QED
        BY <4>1, <4>2
    <3>4. srv'[win'[cur'].wsys] = <<cur', "wsys">> /\ done' = {}
      BY <1>1, <1>7, <2>1, <2>2
    <3> QED
      BY <3>1, <3>2, <3>3, <3>4 DEF FidsOK
  <2>8. FidsNameFiles'
    <3> SUFFICES ASSUME NEW v \in Window, win'[v].top, win'[v].roles = 1, win'[v].wsys # -1,
                        ~ win'[v].initial
                 PROVE  /\ srv'[win'[v].wsys] = <<v, "wsys">>
                        /\ \A f \in File : srv'[win'[v].fid[f]] = <<v, f>>
      BY DEF FidsNameFiles, Opened
    <3>1. v # w /\ win'[v] = win[v]
      BY <1>1, <2>1
    <3>2. /\ Opened(v)
          /\ srv[win[v].wsys] = <<v, "wsys">> /\ \A f \in File : srv[win[v].fid[f]] = <<v, f>>
      BY <3>1, <1>0 DEF FidsNameFiles, Opened
    <3>3. win[v].wsys \in fidout /\ \A f \in File : win[v].fid[f] \in fidout
      <4>1. \A f \in File : win[v].fid[f] # -1
        BY <3>1, <3>2, <1>0 DEF WinsOK, WinOK
      <4>2. FidOf(v, "wsys") = win[v].wsys /\ \A f \in File : FidOf(v, f) = win[v].fid[f]
        BY Names DEF FidOf
      <4> QED
        BY <4>1, <4>2, <3>2, <1>0, Names DEF FidsOK, Opened
    <3>4. fidout \subseteq Fid
      BY <1>0 DEF TypeOK
    <3>5. \A f \in fidout : srv'[f] = srv[f]
      BY <3>4, <1>4, <2>2
    <3> QED
      BY <3>1, <3>2, <3>3, <3>5
  <2>9. ImagesOK'
    BY <1>0, <1>1, <1>2, <2>1, ImagesStay
  <2>10. TagsOK'
    <3>1. OneReadPerFile'
      BY <1>0, <1>1 DEF OneReadPerFile
    <3>2. ASSUME NEW s \in Tag, NEW v \in Window, NEW f \in Reader, armed'[s] = <<v, f>>
          PROVE  Failed(v)' \/ (win'[v].top /\ TagOf(v, f)' = s)
      <4>1. armed[s] = <<v, f>> /\ v # w
        BY <3>2, <1>1, <1>2
      <4>2. \/ win[v].wsys = -1 /\ ~ win[v].initial
            \/ win[v].top /\ win[v].tag[f] = s
        BY <4>1, <1>9
      <4> QED
        BY <4>1, <4>2, <1>7, <2>1 DEF TagOf, Failed, Opened
    <3>3. ASSUME NEW s \in Tag, NEW v \in Window, armed'[s] = <<v, "wctl">>
          PROVE  Opened(v)' /\ v # cur'
      <4>1. armed[s] = <<v, "wctl">> /\ v # w
        BY <3>3, <1>1, <1>10
      <4> QED
        BY <4>1, <1>7, <1>10, <2>4
    <3>4. \A f \in Input : ftag'[f] = NOTAG
      BY <1>1, <1>7, Names
    <3>5. ASSUME \A v \in Window : ~ Again(v)',
                 NEW v \in Window, NEW f \in Reader,
                 win'[v].top, Opened(v)', v # cur', win'[v].tag[f] # NOTAG
          PROVE  armed'[win'[v].tag[f]] = <<v, f>>
      <4>1. \A u \in Window : ~ (win[u].roles > 1)
        BY <3>5, <2>1 DEF Again
      <4>2. win[v].top /\ win[v].wsys # -1 /\ win[v].tag[f] # NOTAG
        BY <3>5, <1>7, <2>1 DEF Opened
      <4>3. armed[win[v].tag[f]] = <<v, f>>
        BY <4>1, <4>2, <1>0, <1>1, IdleTagsNow
      <4> QED
        BY <4>3, <1>1, <2>1
    <3> QED
      BY <3>1, <3>2, <3>3, <3>4, <3>5 DEF TagsOK
  <2> QED
    BY <2>3, <2>5, <2>6, <2>7, <2>8, <2>9, <2>10 DEF IInv
<1>8. CASE /\ Does(srv[g] # None)
           /\ win' = [win EXCEPT ![w].initial = FALSE, ![w].asked = TRUE]
           /\ UNCHANGED <<srv, fidout, pc, locals>>
  <2>0. /\ srv' = srv /\ fidout' = fidout /\ pc' = pc /\ cur' = cur /\ n' = n
        /\ done' = done /\ clunk' = clunk /\ ftag' = ftag
    BY <1>8 DEF locals
  <2>1. /\ win' \in [Window -> StructWindow]
        /\ \A v \in Window :
             /\ v # w => win'[v] = win[v]
             /\ win'[v].state = win[v].state
             /\ win'[v].top = win[v].top /\ win'[v].roles = win[v].roles
             /\ win'[v].wsys = win[v].wsys /\ win'[v].image = win[v].image
             /\ win'[v].fid = win[v].fid /\ win'[v].tag = win[v].tag
        /\ win'[w].initial = FALSE
    <3>0. win' = [win EXCEPT ![w].initial = FALSE, ![w].asked = TRUE]
      BY <1>8
    <3>1. win' \in [Window -> StructWindow]
      BY <3>0, <1>0, <1>4, Attached
    <3>2. \A v \in Window :
             /\ v # w => win'[v] = win[v]
             /\ win'[v].state = win[v].state
             /\ win'[v].top = win[v].top /\ win'[v].roles = win[v].roles
             /\ win'[v].wsys = win[v].wsys /\ win'[v].image = win[v].image
             /\ win'[v].fid = win[v].fid /\ win'[v].tag = win[v].tag
      BY <3>0, <1>0 DEF StructWindow
    <3>3. win'[w].initial = FALSE
      BY <3>0, <1>0 DEF StructWindow
    <3> QED
      BY <3>1, <3>2, <3>3
  <2>2. TypeOK'
    <3>1. refused \in 0 .. MaxRefusals
      BY <1>0 DEF TypeOK
    <3>2. refused' \in 0 .. MaxRefusals
      BY <3>1, <1>8, MaxAssumption DEF Does
    <3> QED
      BY <3>2, <1>0, <1>1, <2>0, <2>1 DEF TypeOK
  <2>3. WinsOK'
    <3> SUFFICES ASSUME NEW v \in Window PROVE WinOK(v)'
      BY DEF WinsOK
    <3>1. WinOK(v)
      BY <1>0 DEF WinsOK
    <3>2. CASE v = w
      <4>1. /\ win'[w].state # "new" /\ win'[w].roles > 0 /\ win'[w].wsys = -1
            /\ win'[w].initial = FALSE /\ \A f \in File : win'[w].fid[f] = -1
        BY <1>2, <1>5, <1>6, <2>1 DEF Opened
      <4> QED
        BY <3>2, <4>1 DEF WinOK, Opened
    <3>3. CASE v # w
      BY <3>1, <3>3, <2>0, <2>1 DEF WinOK, Opened
    <3> QED
      BY <3>2, <3>3
  <2>4. WinnewOK'
    BY <1>0, <1>1, <2>0 DEF WinnewOK
  <2>5. /\ \A v \in Window, a \in Slot : FidOf(v, a)' = FidOf(v, a)
        /\ \A v \in Window : Failed(v) => Failed(v)'
    BY <1>2, <2>1 DEF FidOf, Failed, Opened
  <2>6. FidsOK'
    <3>1. \A v \in Window, a \in Slot : FidOf(v, a)' # -1 => FidOf(v, a)' \in fidout'
      BY <1>0, <2>0, <2>5 DEF FidsOK
    <3>2. \A u, v \in Window, a, b \in Slot :
            FidOf(u, a)' = FidOf(v, b)' /\ FidOf(u, a)' # -1 => u = v /\ a = b
      BY <1>0, <2>5 DEF FidsOK
    <3>3. \A f \in Fid, v \in Window, a \in Slot :
            srv'[f] = <<v, a>> => Failed(v)' \/ FidOf(v, a)' = f
      BY <1>0, <2>0, <2>5 DEF FidsOK
    <3> QED
      BY <3>1, <3>2, <3>3, <1>1, <2>0 DEF FidsOK
  <2>7. FidsNameFiles'
    <3>1. \A v \in Window :
            win'[v].top /\ win'[v].roles = 1 /\ win'[v].wsys # -1 /\ ~ win'[v].initial =>
              v # w /\ win'[v] = win[v]
      BY <1>2, <2>1 DEF Opened
    <3> QED
      BY <3>1, <1>0, <2>0, <2>1, NamesStay
  <2>8. ImagesOK'
    BY <1>0, <1>1, <2>1, ImagesStay
  <2>9. TagsOK'
    <3>1. OneReadPerFile'
      BY <1>0, <1>1 DEF OneReadPerFile
    <3>2. ASSUME NEW s \in Tag, NEW v \in Window, NEW f \in Reader, armed'[s] = <<v, f>>
          PROVE  \/ win'[v].wsys = -1 /\ ~ win'[v].initial
                 \/ win'[v].top /\ win'[v].tag[f] = s
      <4>1. armed[s] = <<v, f>> /\ v # w
        BY <3>2, <1>1, <1>2
      <4> QED
        BY <4>1, <1>9, <2>1
    <3>3. \A s \in Tag, v \in Window : armed'[s] = <<v, "wctl">> => win'[v].wsys # -1
      <4>1. armed' = armed /\ \A v \in Window : win'[v].wsys = win[v].wsys
        BY <1>1, <2>1
      <4> QED
        BY <4>1, <1>10 DEF Opened
    <3>4. (\A v \in Window : ~ (win'[v].roles > 1)) =>
            \A v \in Window, f \in Reader :
              win'[v].top /\ win'[v].wsys # -1 /\ win'[v].tag[f] # NOTAG =>
                armed'[win'[v].tag[f]] = <<v, f>>
      <4>1. (\A v \in Window : ~ (win[v].roles > 1)) =>
              \A v \in Window, f \in Reader :
                win[v].top /\ win[v].wsys # -1 /\ win[v].tag[f] # NOTAG =>
                  armed[win[v].tag[f]] = <<v, f>>
        BY <1>0, <1>1, IdleTagsNow
      <4>2. armed' = armed
        BY <1>1
      <4>3. \A v \in Window :
              /\ win'[v].top = win[v].top /\ win'[v].roles = win[v].roles
              /\ win'[v].wsys = win[v].wsys /\ win'[v].tag = win[v].tag
        BY <2>1
      <4> QED
        BY <4>1, <4>2, <4>3
    <3> QED
      BY <3>1, <3>2, <3>3, <3>4, <1>0, <1>1, <2>0, IdleTags
  <2> QED
    BY <2>2, <2>3, <2>4, <2>6, <2>7, <2>8, <2>9 DEF IInv
<1> QED
  BY <1>7, <1>8 DEF WinnewAttach, g

LEMMA FidSet ==
  ASSUME NEW r \in StructWindow, NEW F \in [File -> Fid \cup {-1}]
  PROVE  /\ [r EXCEPT !.fid = F] \in StructWindow
         /\ [r EXCEPT !.wsys = -1, !.initial = FALSE, !.fid = F] \in StructWindow
BY DEF StructWindow

LEMMA WinnewWalkInv ==
  ASSUME IInv, WinnewWalk
  PROVE  IInv'
<1> DEFINE g == NewFid
           h == Files[n]
           F == [win[cur].fid EXCEPT ![h] = g]
<1>0. /\ TypeOK /\ WinsOK /\ WinnewOK /\ FidsOK /\ FidsNameFiles /\ TagsOK /\ ImagesOK
      /\ win \in [Window -> StructWindow]
      /\ srv \in [Fid -> {None} \cup (Window \X (File \cup {"wsys"}))]
      /\ fidout \subseteq Fid
  BY DEF IInv, TypeOK
<1>1. /\ pc = "walk" /\ armed' = armed /\ imgout' = imgout /\ img' = img
      /\ cur' = cur /\ clunk' = clunk /\ ftag' = ftag /\ io' = None
      /\ fidout' = fidout \cup {g}
      /\ GoOn("open")
  BY DEF WinnewWalk, Quiet
<1>2. win' = [win EXCEPT ![cur].fid = F]
  BY DEF WinnewWalk
<1>3. /\ cur \in Window /\ cur # None
      /\ win[cur].top /\ win[cur].initial /\ Opened(cur) /\ win[cur].image = -1
      /\ ~ Failed(cur)
      /\ \A f \in Reader : ftag[f] = NOTAG
      /\ Room >= Len(Files) - n + 1
      /\ \A j \in n .. Len(Files) : win[cur].fid[Files[j]] = -1
  BY <1>0, <1>1, WindowAssumption DEF WinnewOK, Failed
<1>4. n \in 1 .. Len(Files) /\ h \in File /\ Len(Files) \in Nat
  BY <1>0, NextFile, Names
<1>5. win[cur].fid[h] = -1
  <2>1. n \in n .. Len(Files)
    BY <1>4
  <2> QED
    BY <2>1, <1>3
<1>6. IsFiniteSet(fidout) /\ Cardinality(fidout) \in Nat
  <2>1. IsFiniteSet(Fid)
    BY MaxFidAssumption, FS_Interval DEF Fid
  <2>2. IsFiniteSet(fidout)
    BY <2>1, <1>0, FS_Subset
  <2> QED
    BY <2>2, FS_CardinalityType
<1>7. Room \in Int /\ Room >= 1
  <2>1. Room \in Int
    BY <1>6, MaxFidAssumption DEF Room
  <2> QED
    BY <2>1, <1>3, <1>4
<1>8. g \in Fid /\ g \notin fidout /\ g # -1
  BY <1>0, <1>3, <1>7, FreeFid, Fields
<1> HIDE DEF g, h
<1>9. /\ F \in [File -> Fid \cup {-1}] /\ F[h] = g
      /\ \A f \in File : f # h => F[f] = win[cur].fid[f]
  <2>1. win[cur].fid \in [File -> Fid \cup {-1}]
    BY <1>0, <1>3, Fields
  <2> QED
    BY <2>1, <1>4, <1>8
<1> HIDE DEF F
<1>10. win' \in [Window -> StructWindow]
  <2>1. [win[cur] EXCEPT !.fid = F] \in StructWindow
    BY <1>0, <1>3, <1>9, FidSet
  <2> QED
    BY <2>1, <1>0, <1>2
<1>11. /\ \A v \in Window :
            /\ v # cur => win'[v] = win[v]
            /\ win'[v].state = win[v].state
            /\ win'[v].top = win[v].top /\ win'[v].roles = win[v].roles
            /\ win'[v].initial = win[v].initial /\ win'[v].image = win[v].image
            /\ win'[v].wsys = win[v].wsys /\ win'[v].tag = win[v].tag
       /\ win'[cur].fid = F
  <2>1. \A v \in Window :
          /\ v # cur => win'[v] = win[v]
          /\ win'[v].state = win[v].state
          /\ win'[v].top = win[v].top /\ win'[v].roles = win[v].roles
          /\ win'[v].initial = win[v].initial /\ win'[v].image = win[v].image
          /\ win'[v].wsys = win[v].wsys /\ win'[v].tag = win[v].tag
    BY <1>0, <1>2 DEF StructWindow
  <2>2. win'[cur].fid = F
    BY <1>0, <1>2, <1>3 DEF StructWindow
  <2> QED
    BY <2>1, <2>2
<1>12. /\ \/ /\ srv[g] = None /\ srv' = Bound(g, cur, h) /\ done' = done \cup {h}
          \/ srv' = srv /\ done' = done
       /\ refused' \in 0 .. MaxRefusals
  <2>1. PICK ok \in BOOLEAN :
          /\ Does(ok)
          /\ IF ok /\ srv[g] = None
             THEN srv' = Bound(g, cur, h) /\ done' = done \cup {h}
             ELSE UNCHANGED <<srv, done>>
    BY DEF WinnewWalk, g, h
  <2>2. refused \in 0 .. MaxRefusals
    BY <1>0 DEF TypeOK
  <2>3. refused' \in 0 .. MaxRefusals
    BY <2>1, <2>2, MaxAssumption DEF Does
  <2> QED
    BY <2>1, <2>3
<1>13. /\ srv' \in [Fid -> {None} \cup (Window \X (File \cup {"wsys"}))]
       /\ \A f \in Fid : f # g => srv'[f] = srv[f]
       /\ srv'[g] = srv[g] \/ srv'[g] = <<cur, h>>
       /\ h \in done' => h \in done \/ srv'[g] = <<cur, h>>
       /\ \A f \in File : f \in done' /\ f # h => f \in done
  <2>1. <<cur, h>> \in Window \X (File \cup {"wsys"})
    BY <1>3, <1>4
  <2>2. CASE srv[g] = None /\ srv' = Bound(g, cur, h) /\ done' = done \cup {h}
    BY <2>1, <2>2, <1>0, <1>8 DEF Bound
  <2>3. CASE srv' = srv /\ done' = done
    BY <2>3, <1>0
  <2> QED
    BY <2>2, <2>3, <1>12
<1>14. /\ pc' \in {"walk", "open"} /\ n' \in 1 .. Len(Files)
       /\ pc' = "walk" => n' = n + 1 /\ n # Len(Files)
  BY <1>0, <1>1, NextFile DEF GoOn
<1>15. TypeOK'
  <2>1. done' \subseteq File /\ fidout' \subseteq Fid
    BY <1>0, <1>1, <1>4, <1>8, <1>12 DEF TypeOK
  <2> QED
    BY <2>1, <1>0, <1>1, <1>10, <1>12, <1>13, <1>14 DEF TypeOK
<1>16. WinsOK'
  <2> SUFFICES ASSUME NEW v \in Window PROVE WinOK(v)'
    BY DEF WinsOK
  <2>1. WinOK(v)
    BY <1>0 DEF WinsOK
  <2>2. CASE v = cur
    <3>1. /\ win'[cur].state # "new"
      <4>1. [Fresh EXCEPT !.state = "new"].top = FALSE
        BY DEF Fresh
      <4> QED
        BY <4>1, <2>1, <2>2, <1>3, <1>11 DEF WinOK
    <3>2. win'[cur].roles > 0 /\ win'[cur].image = -1 /\ win'[cur].wsys # -1
      BY <2>1, <2>2, <1>3, <1>11 DEF WinOK, Opened
    <3>3. win'[cur].initial
      BY <1>3, <1>11
    <3> QED
      BY <2>2, <3>1, <3>2, <3>3, <1>1 DEF WinOK, Opened
  <2>3. CASE v # cur
    BY <2>1, <2>3, <1>1, <1>11 DEF WinOK, Opened
  <2> QED
    BY <2>2, <2>3
<1>17. WinnewOK'
  <2>1. Room' = Room - 1
    <3>1. Cardinality(fidout \cup {g}) = Cardinality(fidout) + 1
      BY <1>6, <1>8, FS_AddElement
    <3> QED
      BY <3>1, <1>1, <1>6, MaxFidAssumption DEF Room
  <2>2. pc' = "walk" => Room' >= Len(Files) - n' + 1
    BY <2>1, <1>3, <1>4, <1>7, <1>14
  <2>3. ASSUME pc' = "walk", NEW j \in n' .. Len(Files)
        PROVE  win'[cur].fid[Files[j]] = -1
    <3>1. j \in n + 1 .. Len(Files)
      BY <2>3, <1>14
    <3>2. j \in n .. Len(Files) /\ Files[j] # h
      BY <3>1, <1>0, NextFile DEF h
    <3>3. Files[j] \in File
      BY <3>2, <1>4, Names
    <3> QED
      BY <3>2, <3>3, <1>3, <1>9, <1>11
  <2>4. win'[cur].top /\ win'[cur].initial
    BY <1>3, <1>11
  <2>5. Opened(cur)' /\ win'[cur].image = -1
    BY <1>1, <1>3, <1>11 DEF Opened
  <2> QED
    BY <2>2, <2>3, <2>4, <2>5, <1>1, <1>3, <1>14 DEF WinnewOK
<1>18. /\ \A v \in Window, a \in Slot :
            FidOf(v, a)' = IF v = cur /\ a = h THEN g ELSE FidOf(v, a)
       /\ \A v \in Window : (Opened(v)' <=> Opened(v)) /\ (Failed(v)' <=> Failed(v))
       /\ FidOf(cur, h) = -1
  <2>1. h # "wsys"
    BY <1>4, Names
  <2>2. \A v \in Window, a \in Slot :
            FidOf(v, a)' = IF v = cur /\ a = h THEN g ELSE FidOf(v, a)
    BY <2>1, <1>9, <1>11, Names DEF FidOf
  <2>3. \A v \in Window : (Opened(v)' <=> Opened(v)) /\ (Failed(v)' <=> Failed(v))
    BY <1>11 DEF Opened, Failed
  <2> QED
    BY <2>1, <2>2, <2>3, <1>5 DEF FidOf
<1>19. FidsOK'
  <2>1. \A v \in Window, a \in Slot : FidOf(v, a)' # -1 => FidOf(v, a)' \in fidout'
    BY <1>0, <1>1, <1>18 DEF FidsOK
  <2>2. ASSUME NEW u \in Window, NEW v \in Window, NEW a \in Slot, NEW b \in Slot,
               FidOf(u, a)' = FidOf(v, b)', FidOf(u, a)' # -1
        PROVE  u = v /\ a = b
    <3>1. \A x \in Window, c \in Slot : FidOf(x, c) # g
      BY <1>0, <1>8 DEF FidsOK
    <3> QED
      BY <2>2, <3>1, <1>0, <1>18 DEF FidsOK
  <2>3. ASSUME NEW f \in Fid, NEW v \in Window, NEW a \in Slot, srv'[f] = <<v, a>>
        PROVE  Failed(v)' \/ FidOf(v, a)' = f
    <3>1. CASE srv[f] = <<v, a>>
      <4>1. Failed(v) \/ FidOf(v, a) = f
        BY <3>1, <1>0 DEF FidsOK
      <4>2. f # -1
        BY <1>0, Fields
      <4> QED
        BY <4>1, <4>2, <1>3, <1>18
    <3>2. CASE srv[f] # <<v, a>>
      <4>1. f = g /\ <<v, a>> = <<cur, h>>
        BY <2>3, <3>2, <1>13
      <4> QED
        BY <4>1, <1>18, Pairs
    <3> QED
      BY <3>1, <3>2
  <2>4. srv'[win'[cur].wsys] = <<cur, "wsys">>
    <3>1. win'[cur].wsys = win[cur].wsys /\ srv[win[cur].wsys] = <<cur, "wsys">>
      BY <1>0, <1>1, <1>3, <1>11 DEF FidsOK
    <3>2. win[cur].wsys \in fidout
      <4>1. FidOf(cur, "wsys") = win[cur].wsys /\ win[cur].wsys # -1
        BY <1>3 DEF FidOf, Opened
      <4> QED
        BY <4>1, <1>0, <1>3, Names DEF FidsOK
    <3> QED
      BY <3>1, <3>2, <1>0, <1>8, <1>13
  <2>5. ASSUME NEW f \in done'
        PROVE  win'[cur].fid[f] # -1 /\ srv'[win'[cur].fid[f]] = <<cur, f>>
    <3>0. f \in File
      BY <1>15 DEF TypeOK
    <3>1. h \notin done
      BY <1>0, <1>3, <1>5 DEF FidsOK
    <3>2. CASE f = h
      BY <2>5, <3>1, <3>2, <1>8, <1>9, <1>11, <1>13
    <3>3. CASE f # h
      <4>1. f \in done
        BY <2>5, <3>0, <3>3, <1>13
      <4>2. win'[cur].fid[f] = win[cur].fid[f]
        BY <3>0, <3>3, <1>9, <1>11
      <4>3. win[cur].fid[f] # -1 /\ srv[win[cur].fid[f]] = <<cur, f>>
        BY <4>1, <1>0, <1>3 DEF FidsOK
      <4>4. win[cur].fid[f] \in fidout
        <5>1. FidOf(cur, f) = win[cur].fid[f]
          BY <3>0, Names DEF FidOf
        <5> QED
          BY <5>1, <4>3, <3>0, <1>0, <1>3, Names DEF FidsOK
      <4> QED
        BY <4>2, <4>3, <4>4, <1>0, <1>8, <1>13
    <3> QED
      BY <3>2, <3>3
  <2> QED
    BY <2>1, <2>2, <2>3, <2>4, <2>5, <1>1 DEF FidsOK
<1>20. FidsNameFiles'
  <2> SUFFICES ASSUME NEW v \in Window, win'[v].top, win'[v].roles = 1, win'[v].wsys # -1,
                      ~ win'[v].initial
               PROVE  /\ srv'[win'[v].wsys] = <<v, "wsys">>
                      /\ \A f \in File : srv'[win'[v].fid[f]] = <<v, f>>
    BY DEF FidsNameFiles, Opened
  <2>1. v # cur /\ win'[v] = win[v]
    BY <1>3, <1>11
  <2>2. /\ Opened(v)
        /\ srv[win[v].wsys] = <<v, "wsys">> /\ \A f \in File : srv[win[v].fid[f]] = <<v, f>>
    BY <2>1, <1>0 DEF FidsNameFiles, Opened
  <2>3. win[v].wsys \in fidout /\ \A f \in File : win[v].fid[f] \in fidout
    <3>1. \A f \in File : win[v].fid[f] # -1
      BY <2>1, <2>2, <1>0 DEF WinsOK, WinOK
    <3>2. FidOf(v, "wsys") = win[v].wsys /\ \A f \in File : FidOf(v, f) = win[v].fid[f]
      BY Names DEF FidOf
    <3> QED
      BY <3>1, <3>2, <2>2, <1>0, Names DEF FidsOK, Opened
  <2>4. \A f \in fidout : srv'[f] = srv[f]
    BY <1>0, <1>8, <1>13
  <2> QED
    BY <2>1, <2>2, <2>3, <2>4
<1>21. TagsOK'
  BY <1>0, <1>1, <1>11, TagsStay
<1>22. ImagesOK'
  BY <1>0, <1>1, <1>11, ImagesStay
<1> QED
  BY <1>15, <1>16, <1>17, <1>19, <1>20, <1>21, <1>22 DEF IInv

LEMMA WinnewErrorInv ==
  ASSUME IInv, WinnewError
  PROVE  IInv'
<1> DEFINE F == [f \in File |-> -1]
           gone == {win[cur].wsys} \cup ErrorClunks
<1>0. /\ TypeOK /\ WinsOK /\ WinnewOK /\ FidsOK /\ FidsNameFiles /\ TagsOK /\ ImagesOK
      /\ win \in [Window -> StructWindow]
      /\ srv \in [Fid -> {None} \cup (Window \X (File \cup {"wsys"}))]
      /\ fidout \subseteq Fid /\ clunk \subseteq File
  BY DEF IInv, TypeOK
<1>1. /\ pc = "error" /\ armed' = armed /\ imgout' = imgout /\ img' = img
      /\ refused' = refused /\ io' = None /\ pc' = "idle"
      /\ cur' = None /\ n' = 1 /\ done' = {} /\ clunk' = {}
      /\ ftag' = [f \in Reader |-> NOTAG]
      /\ fidout' = fidout \ Walked
  BY DEF WinnewError, Quiet, LocalsEnd
<1>2. win' = [win EXCEPT ![cur].wsys = -1, ![cur].initial = FALSE, ![cur].fid = F]
  BY DEF WinnewError
<1>3. /\ cur \in Window /\ cur # None
      /\ win[cur].top /\ win[cur].initial /\ Opened(cur) /\ win[cur].image = -1
      /\ ~ Failed(cur)
  BY <1>0, <1>1, WindowAssumption DEF WinnewOK, Failed
<1>4. /\ F \in [File -> Fid \cup {-1}] /\ \A f \in File : F[f] = -1
  OBVIOUS
<1> HIDE DEF F
<1>5. win' \in [Window -> StructWindow]
  <2>1. [win[cur] EXCEPT !.wsys = -1, !.initial = FALSE, !.fid = F] \in StructWindow
    BY <1>0, <1>3, <1>4, FidSet
  <2> QED
    BY <2>1, <1>0, <1>2
<1>6. /\ \A v \in Window :
           /\ v # cur => win'[v] = win[v]
           /\ win'[v].state = win[v].state
           /\ win'[v].top = win[v].top /\ win'[v].roles = win[v].roles
           /\ win'[v].image = win[v].image /\ win'[v].tag = win[v].tag
      /\ win'[cur].fid = F /\ win'[cur].wsys = -1 /\ win'[cur].initial = FALSE
  <2>1. \A v \in Window :
          /\ v # cur => win'[v] = win[v]
          /\ win'[v].state = win[v].state
          /\ win'[v].top = win[v].top /\ win'[v].roles = win[v].roles
          /\ win'[v].image = win[v].image /\ win'[v].tag = win[v].tag
    BY <1>0, <1>2 DEF StructWindow
  <2>2. win'[cur].fid = F /\ win'[cur].wsys = -1 /\ win'[cur].initial = FALSE
    BY <1>0, <1>2, <1>3 DEF StructWindow
  <2> QED
    BY <2>1, <2>2
<1>7. \A f \in gone \cup Walked : \E a \in Slot : FidOf(cur, a) = f
  BY <1>0, Names DEF Walked, ErrorClunks, FidOf
<1>8. /\ srv' \in [Fid -> {None} \cup (Window \X (File \cup {"wsys"}))]
      /\ \A f \in Fid : /\ srv'[f] \in {srv[f], None}
                        /\ f \notin gone => srv'[f] = srv[f]
  <2>1. srv' = Clunked(gone)
    BY DEF WinnewError
  <2> HIDE DEF gone
  <2> QED
    BY <2>1, <1>0 DEF Clunked
<1> HIDE DEF gone
<1>9. ASSUME NEW v \in Window, NEW a \in Slot, v # cur, FidOf(v, a) # -1
      PROVE  FidOf(v, a) \in fidout' /\ FidOf(v, a) \notin gone
  <2>1. FidOf(v, a) \in fidout
    BY <1>9, <1>0 DEF FidsOK
  <2>2. FidOf(v, a) \notin gone \cup Walked
    BY <1>0, <1>3, <1>7, <1>9 DEF FidsOK
  <2> QED
    BY <2>1, <2>2, <1>1
<1>10. TypeOK'
  <2>1. 1 \in 1 .. Len(Files)
    BY <1>0, NextFile
  <2> QED
    BY <2>1, <1>0, <1>1, <1>5, <1>8 DEF TypeOK
<1>11. WinsOK'
  <2> SUFFICES ASSUME NEW v \in Window PROVE WinOK(v)'
    BY DEF WinsOK
  <2>1. WinOK(v)
    BY <1>0 DEF WinsOK
  <2>2. CASE v = cur
    <3>1. win'[cur].state # "new"
      <4>1. [Fresh EXCEPT !.state = "new"].top = FALSE
        BY DEF Fresh
      <4> QED
        BY <4>1, <2>1, <2>2, <1>3, <1>6 DEF WinOK
    <3>2. win'[cur].roles > 0
      BY <2>1, <2>2, <1>3, <1>6 DEF WinOK
    <3> QED
      BY <2>2, <3>1, <3>2, <1>4, <1>6 DEF WinOK, Opened
  <2>3. CASE v # cur
    <3>1. win'[v] = win[v]
      BY <2>3, <1>6
    <3> QED
      BY <2>1, <2>3, <3>1 DEF WinOK, Opened
  <2> QED
    BY <2>2, <2>3
<1>12. WinnewOK'
  <2>1. \A f \in Reader : ftag'[f] = NOTAG
    BY <1>1
  <2> QED
    BY <2>1, <1>1 DEF WinnewOK
<1>13. /\ \A v \in Window, a \in Slot : FidOf(v, a)' = IF v = cur THEN -1 ELSE FidOf(v, a)
       /\ \A v \in Window : v # cur => (Opened(v)' <=> Opened(v)) /\ (Failed(v)' <=> Failed(v))
       /\ \A v \in Window : v = cur => ~ Opened(v)' /\ Failed(v)'
  <2>1. \A v \in Window, a \in Slot : v = cur => FidOf(v, a)' = -1
    <3>1. \A a \in Slot : a # "wsys" => a \in File
      BY Names
    <3> QED
      BY <3>1, <1>4, <1>6 DEF FidOf
  <2>2. \A v \in Window, a \in Slot : v # cur => FidOf(v, a)' = FidOf(v, a)
    BY <1>6 DEF FidOf
  <2>3. \A v \in Window : v # cur => (Opened(v)' <=> Opened(v)) /\ (Failed(v)' <=> Failed(v))
    BY <1>6 DEF Opened, Failed
  <2>4. \A v \in Window : v = cur => ~ Opened(v)' /\ Failed(v)'
    BY <1>6 DEF Opened, Failed
  <2> QED
    BY <2>1, <2>2, <2>3, <2>4
<1>14. FidsOK'
  <2>1. \A v \in Window, a \in Slot : FidOf(v, a)' # -1 => FidOf(v, a)' \in fidout'
    BY <1>9, <1>13
  <2>2. \A u, v \in Window, a, b \in Slot :
          FidOf(u, a)' = FidOf(v, b)' /\ FidOf(u, a)' # -1 => u = v /\ a = b
    BY <1>0, <1>13 DEF FidsOK
  <2>3. ASSUME NEW f \in Fid, NEW v \in Window, NEW a \in Slot, srv'[f] = <<v, a>>
        PROVE  Failed(v)' \/ FidOf(v, a)' = f
    <3>1. CASE v = cur
      BY <3>1, <1>13
    <3>2. CASE v # cur
      <4>1. <<v, a>> # None
        BY Pairs
      <4>2. srv[f] = <<v, a>>
        BY <2>3, <4>1, <1>8
      <4>3. Failed(v) \/ FidOf(v, a) = f
        BY <4>2, <1>0 DEF FidsOK
      <4> QED
        BY <4>3, <3>2, <1>13
    <3> QED
      BY <3>1, <3>2
  <2> QED
    BY <2>1, <2>2, <2>3, <1>1 DEF FidsOK
<1>15. FidsNameFiles'
  <2> SUFFICES ASSUME NEW v \in Window, win'[v].top, win'[v].roles = 1, win'[v].wsys # -1,
                      ~ win'[v].initial
               PROVE  /\ srv'[win'[v].wsys] = <<v, "wsys">>
                      /\ \A f \in File : srv'[win'[v].fid[f]] = <<v, f>>
    BY DEF FidsNameFiles, Opened
  <2>1. v # cur /\ win'[v] = win[v]
    BY <1>6
  <2>2. /\ Opened(v)
        /\ srv[win[v].wsys] = <<v, "wsys">> /\ \A f \in File : srv[win[v].fid[f]] = <<v, f>>
    BY <2>1, <1>0 DEF FidsNameFiles, Opened
  <2>3. win[v].wsys \in Fid \ gone /\ \A f \in File : win[v].fid[f] \in Fid \ gone
    <3>1. \A f \in File : win[v].fid[f] # -1
      BY <2>1, <2>2, <1>0 DEF WinsOK, WinOK
    <3>2. FidOf(v, "wsys") = win[v].wsys /\ \A f \in File : FidOf(v, f) = win[v].fid[f]
      BY Names DEF FidOf
    <3>3. \A a \in Slot : FidOf(v, a) # -1 => FidOf(v, a) \in Fid \ gone
      BY <2>1, <1>0, <1>1, <1>9
    <3> QED
      BY <3>1, <3>2, <3>3, <2>2, Names DEF Opened
  <2>4. \A f \in Fid \ gone : srv'[f] = srv[f]
    BY <1>8
  <2> QED
    BY <2>1, <2>2, <2>3, <2>4
<1>16. ImagesOK'
  BY <1>0, <1>1, <1>6, ImagesStay
<1>17. TagsOK'
  <2>0. \A v \in Window : v # cur'
    BY <1>1, WindowAssumption
  <2>1. OneReadPerFile'
    BY <1>0, <1>1 DEF TagsOK, OneReadPerFile
  <2>2. ASSUME NEW s \in Tag, NEW v \in Window, NEW f \in Reader, armed'[s] = <<v, f>>
        PROVE  Failed(v)' \/ (win'[v].top /\ TagOf(v, f)' = s)
    <3>1. CASE v = cur
      BY <3>1, <1>13
    <3>2. CASE v # cur
      <4>1. Failed(v) \/ (win[v].top /\ TagOf(v, f) = s)
        BY <2>2, <1>0, <1>1 DEF TagsOK
      <4>2. TagOf(v, f) = win[v].tag[f] /\ TagOf(v, f)' = win[v].tag[f]
        BY <3>2, <2>0, <1>6 DEF TagOf
      <4>3. win'[v].top = win[v].top
        BY <1>6
      <4> QED
        BY <4>1, <4>2, <4>3, <3>2, <1>13
    <3> QED
      BY <3>1, <3>2
  <2>3. ASSUME NEW s \in Tag, NEW v \in Window, armed'[s] = <<v, "wctl">>
        PROVE  Opened(v)' /\ v # cur'
    <3>1. Opened(v) /\ v # cur
      BY <2>3, <1>0, <1>1 DEF TagsOK
    <3> QED
      BY <3>1, <2>0, <1>13
  <2>4. ASSUME \A v \in Window : ~ Again(v)',
               NEW v \in Window, NEW f \in Reader,
               win'[v].top, Opened(v)', v # cur', win'[v].tag[f] # NOTAG
        PROVE  armed'[win'[v].tag[f]] = <<v, f>>
    <3>1. v # cur /\ win'[v] = win[v]
      BY <2>4, <1>6, <1>13
    <3>2. \A u \in Window : ~ Again(u)
      BY <2>4, <1>6 DEF Again
    <3>3. win[v].top /\ Opened(v) /\ win[v].tag[f] # NOTAG
      BY <2>4, <3>1 DEF Opened
    <3>4. armed[win[v].tag[f]] = <<v, f>>
      BY <3>1, <3>2, <3>3, <1>0 DEF TagsOK
    <3> QED
      BY <3>1, <3>4, <1>1
  <2> QED
    BY <2>1, <2>2, <2>3, <2>4, <1>1 DEF TagsOK
<1> QED
  BY <1>10, <1>11, <1>12, <1>14, <1>15, <1>16, <1>17 DEF IInv

LEMMA WctlSet ==
  ASSUME NEW v \in StructWindow, NEW T \in [Reader -> Tag \cup {NOTAG}],
         NEW K \in BOOLEAN, NEW i \in Image \cup {-1}
  PROVE  [v EXCEPT !.tag = T, !.known = K, !.image = i] \in StructWindow
BY DEF StructWindow

(* wctlread, called by a reader or by winnew, which has the window's tags. *)
LEMMA WctlreadInv ==
  ASSUME IInv, NEW w \in Window, NEW v \in StructWindow, NEW reply, NEW busy,
         Wctlread(w, v, reply, busy),
         v.state = win[w].state, v.top = win[w].top, v.roles = win[w].roles,
         v.initial = FALSE, v.wsys = win[w].wsys, v.fid = win[w].fid,
         v.image = win[w].image,
         \A f \in Reader : v.tag[f] = TagOf(w, f),
         cur \in {None, w}, cur' = None, done' = {},
         ftag' \in [Reader -> {NOTAG}], n' \in 1 .. Len(Files), clunk' \subseteq File,
         fidout' = fidout, srv' = srv,
         Opened(w), win[w].top, \A f \in File : win[w].fid[f] # -1,
         win[w].roles = 1 => /\ srv[win[w].wsys] = <<w, "wsys">>
                             /\ \A f \in File : srv[win[w].fid[f]] = <<w, f>>,
         \A t \in Tag : t \in busy <=> armed[t] = <<w, "wctl">>,
         (\A x \in Window : ~ Again(x)) =>
           \A f \in Input : v.tag[f] # NOTAG => armed[v.tag[f]] = <<w, f>>
  PROVE  IInv'
<1> DEFINE u == NewTag(busy)
           names == reply \in {"moved", "resized", "nobind"}
           i == IF win[w].image >= 0 THEN win[w].image ELSE Min(Image \ imgout)
           T == [v.tag EXCEPT !["wctl"] = u]
           K == v.known \/ reply # "short"
           I == IF names THEN i ELSE v.image
           r == [v EXCEPT !.tag = T, !.known = K, !.image = I]
<1>0. /\ TypeOK /\ WinsOK /\ WinnewOK /\ FidsOK /\ FidsNameFiles /\ TagsOK /\ ImagesOK
      /\ OneReadPerFile
      /\ win \in [Window -> StructWindow]
      /\ armed \in [Tag -> {None} \cup (Window \X Reader)]
      /\ img \in [Image -> Window \cup {"screen", "none"}]
      /\ imgout \subseteq Image
  BY DEF IInv, TypeOK, TagsOK
<1>1. /\ win' = [win EXCEPT ![w] = r]
      /\ armed' = [t \in Tag |-> IF t = u THEN <<w, "wctl">>
                                 ELSE IF t \in busy THEN None ELSE armed[t]]
      /\ imgout' = IF names THEN imgout \cup {i} ELSE imgout
      /\ img' = IF names
                THEN [img EXCEPT ![i] = IF reply = "nobind" THEN "none" ELSE w]
                ELSE img
      /\ io' \in {None, <<w, "configure">>}
      /\ pc' \in {"idle", "abort"}
      /\ Does(reply \notin {"short", "noname", "nobind"})
  <2>1. win' = [win EXCEPT ![w] = r]
    BY DEF Wctlread
  <2>2. io' \in CASE reply \in {"focus", "resized"} -> {<<w, "configure">>}
                  [] reply = "moved" -> {<<w, "configure">>, None}
                  [] OTHER -> {None}
    BY DEF Wctlread
  <2>3. io' \in {None, <<w, "configure">>}
    BY <2>2
  <2>4. pc' \in {"idle", "abort"}
    BY DEF Wctlread
  <2> QED
    BY <2>1, <2>3, <2>4 DEF Wctlread
<1>2. u \in Tag /\ armed[u] = None
  <2> DEFINE S == {t \in Tag : armed[t] = None} \ busy
  <2>0. <<w, "wctl">> # None
    BY Pairs
  <2>1. \A t \in Tag : armed[t] = None => t \notin busy
    BY <2>0
  <2>2. \E t \in Tag : armed[t] = None
    BY <1>0, FreeTag
  <2>3. S # {} /\ S \subseteq Nat
    BY <2>1, <2>2 DEF Tag
  <2>4. Min(S) \in S
    <3> HIDE DEF S
    <3> QED
      BY <2>3, MinIn
  <2> QED
    BY <2>4 DEF NewTag
<1> HIDE DEF u
<1>3. /\ v.tag \in [Reader -> Tag \cup {NOTAG}] /\ v.known \in BOOLEAN
      /\ v.image \in Image \cup {-1}
  BY DEF StructWindow
<1>4. /\ i \in Image /\ i > 0
      /\ \/ i = win[w].image
         \/ i \notin imgout
      /\ win[w].image > 0 => i = win[w].image
  <2>1. win[w].image # 0
    BY <1>0 DEF WinsOK, WinOK
  <2>2. CASE win[w].image = -1
    <3>1. /\ Min(Image \ imgout) \in Image /\ Min(Image \ imgout) \notin imgout
          /\ Min(Image \ imgout) > 0
      BY <2>2, <1>0, FreeImage
    <3>2. i = Min(Image \ imgout)
      BY <2>2
    <3> HIDE DEF i
    <3>3. ~ win[w].image > 0
      BY <2>2
    <3> QED
      BY <3>1, <3>2, <3>3
  <2>3. CASE win[w].image # -1
    <3>1. win[w].image \in Image /\ win[w].image > 0
      BY <2>1, <2>3, <1>0, Fields
    <3>2. win[w].image >= 0
      BY <3>1 DEF Image
    <3>3. i = win[w].image
      BY <3>2
    <3> HIDE DEF i
    <3> QED
      BY <3>1, <3>3
  <2> QED
    BY <2>2, <2>3
<1> HIDE DEF i
<1>5. /\ T \in [Reader -> Tag \cup {NOTAG}] /\ T["wctl"] = u
      /\ \A f \in Reader : f # "wctl" => T[f] = v.tag[f]
  BY <1>2, <1>3, Names
<1>6. I \in Image \cup {-1}
  BY <1>3, <1>4
<1>7. K \in BOOLEAN
  BY <1>3
<1>8. /\ r \in StructWindow
      /\ r.state = v.state /\ r.top = v.top /\ r.roles = v.roles
      /\ r.initial = v.initial /\ r.wsys = v.wsys /\ r.fid = v.fid
      /\ r.tag = T /\ r.image = I
  <2>1. T \in [Reader -> Tag \cup {NOTAG}]
    BY <1>5
  <2> HIDE DEF T, I, K
  <2>2. r \in StructWindow
    BY <2>1, <1>6, <1>7, WctlSet
  <2>3. r.tag = T /\ r.image = I
    BY DEF StructWindow
  <2>4. /\ r.state = v.state /\ r.top = v.top /\ r.roles = v.roles
        /\ r.initial = v.initial /\ r.wsys = v.wsys /\ r.fid = v.fid
    BY DEF StructWindow
  <2> QED
    BY <2>2, <2>3, <2>4
<1> HIDE DEF T, K, r
<1>9. /\ win' \in [Window -> StructWindow]
      /\ win'[w] = r /\ \A x \in Window : x # w => win'[x] = win[x]
  BY <1>0, <1>1, <1>8
<1>10. /\ win'[w].state = win[w].state /\ win'[w].top /\ win'[w].roles = win[w].roles
       /\ win'[w].wsys = win[w].wsys /\ win'[w].fid = win[w].fid
       /\ win'[w].initial = FALSE /\ win'[w].tag = T /\ win'[w].image = I
  BY <1>8, <1>9
<1>11. \A x \in Window : x # None
  BY WindowAssumption
<1>12. TypeOK'
  <2>1. armed' \in [Tag -> {None} \cup (Window \X Reader)]
    <3>1. <<w, "wctl">> \in Window \X Reader
      BY Names
    <3> QED
      BY <3>1, <1>0, <1>1
  <2>2. img' \in [Image -> Window \cup {"screen", "none"}] /\ imgout' \subseteq Image
    BY <1>0, <1>1, <1>4
  <2>3. refused' \in 0 .. MaxRefusals
    <3>1. refused \in 0 .. MaxRefusals
      BY <1>0 DEF TypeOK
    <3> QED
      BY <3>1, <1>1, MaxAssumption DEF Does
  <2>4. ftag' \in [Reader -> Tag \cup {NOTAG}] /\ done' \subseteq File
    OBVIOUS
  <2>5. /\ fidout' \subseteq Fid
        /\ srv' \in [Fid -> {None} \cup (Window \X (File \cup {"wsys"}))]
    BY <1>0 DEF TypeOK
  <2>6. /\ io' \in {None} \cup
              (Window \X {"initial commit", "commit", "title", "lost title", "configure",
                          "close"})
        /\ pc' \in {"idle", "walk", "open", "read", "wctl", "error", "abort"}
        /\ cur' \in Window \cup {None}
    <3>1. io' \in {None, <<w, "configure">>}
      BY <1>1
    <3>2. <<w, "configure">> \in Window \X {"initial commit", "commit", "title", "lost title",
                                            "configure", "close"}
      OBVIOUS
    <3>3. io' \in {None} \cup
            (Window \X {"initial commit", "commit", "title", "lost title", "configure",
                        "close"})
      BY <3>1, <3>2
    <3>4. pc' \in {"idle", "abort"}
      BY <1>1
    <3>5. cur' = None
      OBVIOUS
    <3> QED
      BY <3>3, <3>4, <3>5
  <2>7. win' \in [Window -> StructWindow]
    BY <1>9
  <2>8. n' \in 1 .. Len(Files) /\ clunk' \subseteq File
    OBVIOUS
  <2> QED
    BY <2>1, <2>2, <2>3, <2>4, <2>5, <2>6, <2>7, <2>8 DEF TypeOK
<1>13. WinsOK'
  <2> SUFFICES ASSUME NEW x \in Window PROVE WinOK(x)'
    BY DEF WinsOK
  <2>1. WinOK(x)
    BY <1>0 DEF WinsOK
  <2>2. CASE x = w
    <3>1. win'[w].state # "new" /\ win'[w].roles > 0
      <4>1. [Fresh EXCEPT !.state = "new"].top = FALSE
        BY DEF Fresh
      <4> QED
        BY <4>1, <2>1, <2>2, <1>10 DEF WinOK
    <3>2. win'[w].image # 0 /\ win'[w].wsys # -1
      BY <2>1, <2>2, <1>4, <1>10 DEF WinOK, Opened
    <3>3. \A f \in File : win'[w].fid[f] # -1
      BY <1>10
    <3> QED
      BY <2>2, <3>1, <3>2, <3>3, <1>10 DEF WinOK, Opened
  <2>3. CASE x # w
    <3>1. win'[x] = win[x] /\ x # cur
      BY <2>3, <1>9, <1>11
    <3> QED
      BY <2>1, <3>1 DEF WinOK, Opened
  <2> QED
    BY <2>2, <2>3
<1>14. WinnewOK'
  <2>1. \A f \in Reader : ftag'[f] = NOTAG
    OBVIOUS
  <2> QED
    BY <2>1, <1>1 DEF WinnewOK
<1>15. /\ \A x \in Window, a \in Slot : FidOf(x, a)' = FidOf(x, a)
       /\ \A x \in Window : Opened(x)' <=> Opened(x)
       /\ \A x \in Window : Failed(x)' <=> Failed(x)
       /\ \A x \in Window : Again(x)' <=> Again(x)
  <2>1. \A x \in Window, a \in Slot : FidOf(x, a)' = FidOf(x, a)
    BY <1>9, <1>10 DEF FidOf
  <2>2. \A x \in Window : Opened(x)' <=> Opened(x)
    BY <1>9, <1>10 DEF Opened
  <2>3. ASSUME NEW x \in Window PROVE Failed(x)' <=> Failed(x)
    BY <2>2, <1>9 DEF Failed
  <2>4. \A x \in Window : Again(x)' <=> Again(x)
    BY <1>9, <1>10 DEF Again
  <2> QED
    BY <2>1, <2>2, <2>3, <2>4
<1>16. FidsOK'
  <2>1. \A x \in Window, a \in Slot : FidOf(x, a)' # -1 => FidOf(x, a)' \in fidout'
    BY <1>0, <1>15 DEF FidsOK
  <2>2. \A x, y \in Window, a, b \in Slot :
          FidOf(x, a)' = FidOf(y, b)' /\ FidOf(x, a)' # -1 => x = y /\ a = b
    BY <1>0, <1>15 DEF FidsOK
  <2>3. \A f \in Fid, x \in Window, a \in Slot :
          srv'[f] = <<x, a>> => Failed(x)' \/ FidOf(x, a)' = f
    BY <1>0, <1>15 DEF FidsOK
  <2> QED
    BY <2>1, <2>2, <2>3 DEF FidsOK
<1>17. FidsNameFiles'
  <2> SUFFICES ASSUME NEW x \in Window, win'[x].top, win'[x].roles = 1, win'[x].wsys # -1,
                      ~ win'[x].initial
               PROVE  /\ srv'[win'[x].wsys] = <<x, "wsys">>
                      /\ \A f \in File : srv'[win'[x].fid[f]] = <<x, f>>
    BY DEF FidsNameFiles, Opened
  <2>1. CASE x = w
    BY <2>1, <1>10
  <2>2. CASE x # w
    <3>1. win'[x] = win[x]
      BY <2>2, <1>9
    <3>2. srv[win[x].wsys] = <<x, "wsys">> /\ \A f \in File : srv[win[x].fid[f]] = <<x, f>>
      BY <3>1, <1>0 DEF FidsNameFiles, Opened
    <3> QED
      BY <3>1, <3>2
  <2> QED
    BY <2>1, <2>2
<1>18. /\ armed'[u] = <<w, "wctl">>
       /\ \A t \in Tag : t # u /\ t \notin busy => armed'[t] = armed[t]
       /\ \A t \in Tag : t # u /\ armed'[t] # None => armed'[t] = armed[t] /\ t \notin busy
  BY <1>1, <1>2
<1>19. TagsOK'
  <2>0. /\ \A x \in Window, f \in Reader : TagOf(x, f)' = win'[x].tag[f]
        /\ \A x \in Window, f \in Reader : x # w => win'[x].tag[f] = TagOf(x, f)
        /\ \A f \in Reader : f # "wctl" => win'[w].tag[f] = TagOf(w, f)
        /\ win'[w].tag["wctl"] = u
    <3>1. \A x \in Window, f \in Reader : TagOf(x, f)' = win'[x].tag[f]
      BY <1>11 DEF TagOf
    <3>2. \A x \in Window, f \in Reader : x # w => win'[x].tag[f] = TagOf(x, f)
      BY <1>9, <1>11 DEF TagOf
    <3>3. \A f \in Reader : f # "wctl" => win'[w].tag[f] = TagOf(w, f)
      BY <1>5, <1>10
    <3> QED
      BY <3>1, <3>2, <3>3, <1>5, <1>10
  <2>1. OneReadPerFile'
    <3> SUFFICES ASSUME NEW t \in Tag, NEW z \in Tag, armed'[t] # None, armed'[t] = armed'[z]
                 PROVE  t = z
      BY DEF OneReadPerFile
    <3>1. CASE t # u /\ z # u
      BY <3>1, <1>0, <1>18 DEF OneReadPerFile
    <3>2. CASE t # u /\ z = u
      BY <3>2, <1>18
    <3>3. CASE t = u /\ z # u
      BY <3>3, <1>18
    <3> QED
      BY <3>1, <3>2, <3>3
  <2>2. ASSUME NEW t \in Tag, NEW x \in Window, NEW f \in Reader, armed'[t] = <<x, f>>
        PROVE  Failed(x)' \/ (win'[x].top /\ TagOf(x, f)' = t)
    <3>1. CASE t = u
      <4>1. x = w /\ f = "wctl"
        BY <2>2, <3>1, <1>18, Pairs
      <4> QED
        BY <4>1, <3>1, <2>0, <1>10
    <3>2. CASE t # u
      <4>0. <<x, f>> # None
        BY Pairs
      <4>1. armed[t] = <<x, f>> /\ t \notin busy
        BY <2>2, <3>2, <4>0, <1>18
      <4>2. x = w => f # "wctl"
        BY <4>1
      <4>3. Failed(x) \/ (win[x].top /\ TagOf(x, f) = t)
        BY <4>1, <1>0 DEF TagsOK
      <4>4. win[x].top => win'[x].top
        BY <1>9, <1>10
      <4>5. TagOf(x, f)' = TagOf(x, f)
        BY <4>2, <2>0
      <4> QED
        BY <4>3, <4>4, <4>5, <1>15
    <3> QED
      BY <3>1, <3>2
  <2>3. ASSUME NEW t \in Tag, NEW x \in Window, armed'[t] = <<x, "wctl">>
        PROVE  Opened(x)' /\ x # cur'
    <3>1. CASE t = u
      <4>1. x = w
        BY <2>3, <3>1, <1>18, Pairs
      <4> QED
        BY <4>1, <1>11, <1>15
    <3>2. CASE t # u
      <4>0. <<x, "wctl">> # None
        BY Pairs
      <4>1. armed[t] = <<x, "wctl">>
        BY <2>3, <3>2, <4>0, <1>18
      <4> QED
        BY <4>1, <1>0, <1>11, <1>15 DEF TagsOK
    <3> QED
      BY <3>1, <3>2
  <2>4. ASSUME \A x \in Window : ~ Again(x)',
               NEW x \in Window, NEW f \in Reader,
               win'[x].top, Opened(x)', x # cur', win'[x].tag[f] # NOTAG
        PROVE  armed'[win'[x].tag[f]] = <<x, f>>
    <3>0. \A y \in Window : ~ Again(y)
      BY <2>4, <1>15
    <3>1. CASE x = w /\ f = "wctl"
      BY <3>1, <2>0, <1>18
    <3>2. CASE ~ (x = w /\ f = "wctl")
      <4>1. win'[x].tag[f] \in Tag
        <5>1. win'[x].tag \in [Reader -> Tag \cup {NOTAG}]
          BY <1>9 DEF StructWindow
        <5> QED
          BY <5>1, <2>4
      <4>2. armed[win'[x].tag[f]] = <<x, f>>
        <5>1. CASE x = w
          <6>1. f \in Input /\ win'[w].tag[f] = v.tag[f]
            BY <5>1, <3>2, <1>5, <1>10, Names
          <6> QED
            BY <5>1, <6>1, <2>4, <3>0
        <5>2. CASE x # w
          <6>1. win'[x] = win[x] /\ x # cur
            BY <5>2, <1>9, <1>11
          <6>2. win[x].top /\ Opened(x) /\ win[x].tag[f] # NOTAG
            BY <6>1, <2>4, <1>15
          <6> QED
            BY <6>1, <6>2, <3>0, <1>0 DEF TagsOK
        <5> QED
          BY <5>1, <5>2
      <4>3. win'[x].tag[f] # u /\ win'[x].tag[f] \notin busy
        <5>1. <<x, f>> # None /\ <<x, f>> # <<w, "wctl">>
          BY <3>2, Pairs
        <5> QED
          BY <4>1, <4>2, <5>1, <1>2
      <4> QED
        BY <4>1, <4>2, <4>3, <1>18
    <3> QED
      BY <3>1, <3>2
  <2> QED
    BY <2>1, <2>2, <2>3, <2>4 DEF TagsOK
<1>20. ImagesOK'
  <2>0. /\ \A x \in Window : win[x].image \in Int
        /\ \A x \in Window : x # "none"
        /\ \A x \in Window : x # w => win'[x].image = win[x].image
        /\ Image \subseteq Int
    BY <1>0, <1>9, Fields, WindowAssumption
  <2>1. CASE ~ names
    <3>1. \A x \in Window : win'[x].image = win[x].image
      BY <2>0, <2>1, <1>10
    <3> QED
      BY <3>1, <2>1, <1>0, <1>1, ImagesStay
  <2>2. CASE names
    <3>1. /\ imgout' = imgout \cup {i} /\ win'[w].image = i
          /\ \A j \in Image : j # i => img'[j] = img[j]
          /\ img'[i] \in {"none", w}
      BY <2>2, <1>0, <1>1, <1>4, <1>10
    <3>2. 0 \in imgout' /\ \A x \in Window : win'[x].image > 0 => win'[x].image \in imgout'
      BY <3>1, <2>0, <1>0 DEF ImagesOK
    <3>3. \A x \in Window : x # w => win[x].image # i
      BY <1>0, <1>4 DEF ImagesOK
    <3>4. \A x, y \in Window : win'[x].image = win'[y].image /\ win'[x].image > 0 => x = y
      BY <3>1, <3>3, <2>0, <1>0 DEF ImagesOK
    <3>5. ASSUME NEW j \in imgout' \ {0} PROVE \E x \in Window : win'[x].image = j
      <4>1. CASE j = i
        BY <4>1, <3>1
      <4>2. CASE j # i
        <5>1. PICK x \in Window : win[x].image = j
          BY <4>2, <3>1, <1>0 DEF ImagesOK
        <5>2. x # w
          <6>1. j > 0
            BY <4>2, <3>1, <1>0, Fields
          <6> QED
            BY <6>1, <5>1, <4>2, <1>4
        <5> QED
          BY <5>1, <5>2, <2>0
      <4> QED
        BY <4>1, <4>2
    <3>6. ASSUME NEW j \in Image, NEW x \in Window, img'[j] = x
          PROVE  j > 0 /\ win'[x].image = j
      <4>1. CASE j = i
        BY <4>1, <3>1, <3>6, <2>0, <1>4
      <4>2. CASE j # i
        <5>1. img[j] = x /\ j > 0 /\ win[x].image = j
          BY <4>2, <3>1, <3>6, <1>0 DEF ImagesOK
        <5>2. x # w
          BY <5>1, <4>2, <1>4
        <5> QED
          BY <5>1, <5>2, <2>0
      <4> QED
        BY <4>1, <4>2
    <3> QED
      BY <3>2, <3>4, <3>5, <3>6 DEF ImagesOK
  <2> QED
    BY <2>1, <2>2
<1> QED
  BY <1>12, <1>13, <1>14, <1>16, <1>17, <1>19, <1>20 DEF IInv
LEMMA FireWctlInv ==
  ASSUME IInv, NEW t \in Tag, FireWctl(t)
  PROVE  IInv'
<1>0. /\ TypeOK /\ WinsOK /\ WinnewOK /\ FidsOK /\ FidsNameFiles /\ TagsOK /\ OneReadPerFile
      /\ win \in [Window -> StructWindow]
  BY DEF IInv, TypeOK, TagsOK
<1>1. PICK w \in Window :
        /\ pc = "idle" /\ armed[t] = <<w, "wctl">>
        /\ \E reply \in WctlReply(w) : Wctlread(w, win[w], reply, {t})
        /\ UNCHANGED <<fidout, srv, locals>>
  BY DEF FireWctl
<1>2. PICK reply \in WctlReply(w) : Wctlread(w, win[w], reply, {t})
  BY <1>1
<1>3. cur = None /\ done = {} /\ (\A f \in Reader : ftag[f] = NOTAG)
  BY <1>0, <1>1 DEF WinnewOK
<1>4. \A f \in Reader : win[w].tag[f] = TagOf(w, f)
  <2>1. w # cur
    BY <1>3, WindowAssumption
  <2> QED
    BY <2>1 DEF TagOf
<1>5. Opened(w) /\ win[w].top /\ TagOf(w, "wctl") = t
  <2>1. Opened(w)
    BY <1>0, <1>1 DEF TagsOK
  <2>2. "wctl" \in Reader
    BY Names
  <2>3. Failed(w) \/ (win[w].top /\ TagOf(w, "wctl") = t)
    BY <2>2, <1>0, <1>1 DEF TagsOK
  <2> QED
    BY <2>1, <2>3 DEF Failed
<1>6. win[w].initial = FALSE
  <2>1. win[w].tag["wctl"] = t /\ "wctl" \in Reader
    BY <1>4, <1>5, Names
  <2>2. t # NOTAG
    BY Sizes DEF Tag, NOTAG
  <2>3. w # cur
    BY <1>3, WindowAssumption
  <2>4. WinOK(w)
    BY <1>0 DEF WinsOK
  <2>5. ~ win[w].initial
    BY <2>1, <2>2, <2>3, <2>4 DEF WinOK
  <2>6. win[w].initial \in BOOLEAN
    BY <1>0, Fields
  <2> QED
    BY <2>5, <2>6
<1>7. \A f \in File : win[w].fid[f] # -1
  <2>1. WinOK(w)
    BY <1>0 DEF WinsOK
  <2> QED
    BY <2>1, <1>5, <1>6 DEF WinOK
<1>8. win[w].roles = 1 => /\ srv[win[w].wsys] = <<w, "wsys">>
                          /\ \A f \in File : srv[win[w].fid[f]] = <<w, f>>
  BY <1>0, <1>5, <1>6 DEF FidsNameFiles
<1>9. \A y \in Tag : y \in {t} <=> armed[y] = <<w, "wctl">>
  BY <1>0, <1>1, Pairs DEF OneReadPerFile
<1>11. (\A x \in Window : ~ Again(x)) =>
         \A f \in Input : win[w].tag[f] # NOTAG => armed[win[w].tag[f]] = <<w, f>>
  <2>1. w # cur
    BY <1>3, WindowAssumption
  <2> QED
    BY <2>1, <1>0, <1>5, Names DEF TagsOK
<1>12. /\ ftag \in [Reader -> {NOTAG}] /\ n \in 1 .. Len(Files) /\ clunk \subseteq File
  BY <1>0, <1>3 DEF TypeOK
<1>13. /\ cur' = cur /\ done' = done /\ ftag' = ftag /\ n' = n /\ clunk' = clunk
       /\ fidout' = fidout /\ srv' = srv
  BY <1>1 DEF locals
<1>14. /\ cur \in {None, w} /\ cur' = None /\ done' = {}
       /\ ftag' \in [Reader -> {NOTAG}] /\ n' \in 1 .. Len(Files) /\ clunk' \subseteq File
       /\ fidout' = fidout /\ srv' = srv
  BY <1>3, <1>12, <1>13
<1>15. win[w] \in StructWindow
  BY <1>0
<1> QED
  BY <1>2, <1>4, <1>5, <1>6, <1>7, <1>8, <1>9, <1>11, <1>14, <1>15, WctlreadInv

LEMMA Made ==
  ASSUME NEW r \in StructWindow, NEW T \in [Reader -> Tag \cup {NOTAG}]
  PROVE  [r EXCEPT !.tag = T, !.initial = FALSE] \in StructWindow
BY DEF StructWindow

LEMMA WinnewWctlInv ==
  ASSUME IInv, WinnewWctl
  PROVE  IInv'
<1>0. /\ TypeOK /\ WinsOK /\ WinnewOK /\ FidsOK /\ FidsNameFiles /\ TagsOK /\ OneReadPerFile
      /\ win \in [Window -> StructWindow] /\ ftag \in [Reader -> Tag \cup {NOTAG}]
  BY DEF IInv, TypeOK, TagsOK
<1>1. pc = "wctl" /\ LocalsEnd /\ fidout' = fidout /\ srv' = srv
  BY DEF WinnewWctl
<1>3. /\ cur \in Window /\ win[cur].top /\ win[cur].initial
      /\ Opened(cur) /\ win[cur].image = -1 /\ File \subseteq done
  BY <1>0, <1>1 DEF WinnewOK
<1>4. [win[cur] EXCEPT !.tag = ftag, !.initial = FALSE] \in StructWindow
  BY <1>0, <1>3, Made
<1>5. ASSUME NEW w \in Window, w = cur,
             NEW v \in StructWindow, v = [win[w] EXCEPT !.tag = ftag, !.initial = FALSE]
      PROVE  IInv'
  <2> DEFINE busy == {}
  <2>0. PICK reply \in WctlReply(cur) :
          Wctlread(cur, [win[cur] EXCEPT !.tag = ftag, !.initial = FALSE], reply, {})
    BY DEF WinnewWctl
  <2>1. Wctlread(w, v, reply, busy)
    <3>1. v = [win[cur] EXCEPT !.tag = ftag, !.initial = FALSE]
      BY <1>5
    <3>2. Wctlread(cur, v, reply, {})
      BY <2>0, <3>1, Zenon DEF Wctlread
    <3> QED
      BY <3>2, <1>5, Zenon DEF Wctlread, MessageSize
  <2>2. /\ win[w].top /\ win[w].initial /\ Opened(w) /\ win[w].image = -1
        /\ w # None
    BY <1>3, <1>5, WindowAssumption
  <2>3. /\ v.state = win[w].state /\ v.top = win[w].top /\ v.roles = win[w].roles
        /\ v.initial = FALSE /\ v.wsys = win[w].wsys /\ v.fid = win[w].fid
        /\ v.image = win[w].image /\ v.tag = ftag
    <3>1. win[w] \in StructWindow
      BY <1>0
    <3> QED
      BY <3>1, <1>5 DEF StructWindow
  <2>4. \A f \in Reader : v.tag[f] = TagOf(w, f)
    BY <2>3, <1>5 DEF TagOf
  <2>5. /\ srv[win[w].wsys] = <<w, "wsys">>
        /\ \A f \in File : win[w].fid[f] # -1 /\ srv[win[w].fid[f]] = <<w, f>>
    BY <1>0, <1>1, <1>3, <1>5, <2>2 DEF FidsOK
  <2>6. \A y \in Tag : y \in busy <=> armed[y] = <<w, "wctl">>
    BY <1>0, <1>5 DEF TagsOK
  <2>8. \A f \in Input : v.tag[f] # NOTAG => armed[v.tag[f]] = <<w, f>>
    BY <1>0, <1>5, <2>2, <2>3 DEF TagsOK
  <2>9. /\ cur' = None /\ done' = {} /\ ftag' \in [Reader -> {NOTAG}]
        /\ n' \in 1 .. Len(Files) /\ clunk' \subseteq File
    <3>1. Len(Files) \in Nat /\ Len(Files) >= 1
      BY Names
    <3> QED
      BY <3>1, <1>1 DEF LocalsEnd
  <2>10. cur \in {None, w}
    BY <1>5
  <2>11. fidout' = fidout /\ srv' = srv
    BY <1>1
  <2>12. /\ v.state = win[w].state /\ v.top = win[w].top /\ v.roles = win[w].roles
         /\ v.initial = FALSE /\ v.wsys = win[w].wsys /\ v.fid = win[w].fid
         /\ v.image = win[w].image
    BY <2>3
  <2> HIDE DEF busy
  <2> QED
    BY <2>1, <2>2, <2>4, <2>5, <2>6, <2>8, <2>9, <2>10, <2>11, <2>12, WctlreadInv
<1> QED
  BY <1>3, <1>4, <1>5

LEMMA StutterInv ==
  ASSUME IInv, UNCHANGED vars
  PROVE  IInv'
<1>1. /\ win' = win /\ fidout' = fidout /\ armed' = armed /\ imgout' = imgout /\ srv' = srv
      /\ img' = img /\ io' = io /\ pc' = pc /\ cur' = cur /\ n' = n /\ done' = done
      /\ clunk' = clunk /\ ftag' = ftag /\ refused' = refused
  BY DEF vars, locals
<1>2. TypeOK' /\ WinnewOK' /\ ImagesOK'
  BY <1>1 DEF IInv, TypeOK, WinnewOK, ImagesOK, Passed, Room, Opened
<1>3. WinsOK'
  BY <1>1 DEF IInv, WinsOK, WinOK, Opened
<1>4. FidsOK'
  BY <1>1 DEF IInv, FidsOK, FidOf, Failed, Opened
<1>5. FidsNameFiles'
  BY <1>1 DEF IInv, FidsNameFiles, Opened
<1>6. TagsOK'
  BY <1>1 DEF IInv, TagsOK, OneReadPerFile, TagOf, Failed, Opened, Again
<1> QED
  BY <1>2, <1>3, <1>4, <1>5, <1>6 DEF IInv

LEMMA NextInv == IInv /\ [Next]_vars => IInv'
<1> SUFFICES ASSUME IInv, [Next]_vars PROVE IInv'
  OBVIOUS
<1>1. ASSUME NEW w \in Window,
             GetXdgSurface(w) \/ GetToplevel(w) \/ SetTitle(w) \/ Commit(w)
               \/ WinnewAttach(w) \/ ToplevelDestroy(w) \/ XdgSurfaceDestroy(w)
      PROVE  IInv'
  BY <1>1, GetXdgSurfaceInv, GetToplevelInv, SetTitleInv, CommitInv, WinnewAttachInv,
     ToplevelDestroyInv, XdgSurfaceDestroyInv
<1>2. ASSUME Winnew
      PROVE  IInv'
  BY <1>2, WinnewWalkInv, WinnewOpenInv, WinnewReadInv, WinnewWctlInv, WinnewWctlErrorInv,
     WinnewErrorInv DEF Winnew
<1>3. ASSUME NEW t \in Tag, FireWctl(t) \/ FireInput(t) \/ FireError(t)
      PROVE  IInv'
  BY <1>3, FireWctlInv, FireInputInv, FireErrorInv
<1>4. ASSUME UNCHANGED vars
      PROVE  IInv'
  BY <1>4, StutterInv
<1> QED
  BY <1>1, <1>2, <1>3, <1>4 DEF Next

(* IInv holds in every reachable state, for any windows, files and refusals*)
(* of the server (wl9.c:378-491, 693-792, 1112-1185).                      *)
THEOREM Invariance == Spec => []IInv
BY InitInv, NextInv, PTL DEF Spec

(* Whatever other windows walked, clunked or returned meanwhile, the fids  *)
(* of a window name its own files at the server, and a fid the server has  *)
(* in use is handed out, unless winnew failed (wl9.c:731-792, 1155-1185).  *)
THEOREM FidsAreRight == Spec => []FidsAgree
<1>1. IInv => FidsAgree
  <2> SUFFICES ASSUME IInv PROVE PoolAgrees
    BY DEF IInv, FidsAgree
  <2>0. TypeOK /\ FidsOK /\ srv \in [Fid -> {None} \cup (Window \X (File \cup {"wsys"}))]
    BY DEF IInv, TypeOK
  <2> SUFFICES ASSUME NEW f \in Fid, srv[f] # None
               PROVE  f \in fidout \/ Failed(srv[f][1])
    BY DEF PoolAgrees
  <2>1. PICK w \in Window, a \in File \cup {"wsys"} : srv[f] = <<w, a>>
    BY <2>0
  <2>2. a \in Slot
    BY DEF Slot
  <2>3. Failed(w) \/ FidOf(w, a) = f
    BY <2>0, <2>1, <2>2 DEF FidsOK
  <2>4. f # -1
    BY MaxFidAssumption DEF Fid
  <2>5. FidOf(w, a) = f => f \in fidout
    BY <2>0, <2>2, <2>4 DEF FidsOK
  <2>6. srv[f][1] = w
    BY <2>1
  <2> QED
    BY <2>3, <2>5, <2>6
<1> QED
  BY <1>1, Invariance, PTL

(* An armed reader is the only one of its file, and its toplevel is there  *)
(* and has its tag, but for what winnew leaves when it fails               *)
(* (wl9.c:752-792, 1155-1185).                                             *)
THEOREM ReadersAreKnown == Spec => []ReadersKnown
<1>1. IInv => ReadersKnown
  <2> SUFFICES ASSUME IInv PROVE ReadersKnown
    OBVIOUS
  <2>1. TagsOK /\ OneReadPerFile /\ WinnewOK
    BY DEF IInv, TagsOK
  <2>2. pc = "idle" => cur = None
    BY <2>1 DEF WinnewOK
  <2>3. ASSUME pc = "idle", NEW t \in Tag, NEW w \in Window, NEW f \in Reader,
               armed[t] = <<w, f>>
        PROVE  Failed(w) \/ (win[w].top /\ win[w].tag[f] = t)
    BY <2>1, <2>2, <2>3, IdleTagsNow DEF Failed, Opened
  <2> QED
    BY <2>1, <2>3 DEF ReadersKnown
<1> QED
  BY <1>1, Invariance, PTL

-----------------------------------------------------------------------------
(* What a step takes from other windows.                                   *)

(* The new read of wctl takes the place of the one whose reply this is.    *)
LEMMA WctlreadArms ==
  ASSUME IInv, NEW x \in Window, NEW v, NEW reply, NEW busy, NEW s,
         busy \subseteq {s}, s \in Tag => armed[s] = <<x, "wctl">>,
         Wctlread(x, v, reply, busy),
         NEW w \in Window, NEW f \in Reader, Armed(w, f)
  PROVE  Armed(w, f)'
<1> DEFINE u == NewTag(busy)
<1>0. TypeOK /\ OneReadPerFile
  BY DEF IInv, TagsOK
<1>1. <<x, "wctl">> # None
  BY Pairs
<1>2. u \in Tag /\ armed[u] = None
  BY <1>0, <1>1, NewTagOK
<1>3. armed' = [t \in Tag |-> IF t = u THEN <<x, "wctl">>
                              ELSE IF t \in busy THEN None ELSE armed[t]]
  BY DEF Wctlread
<1> HIDE DEF u
<1>4. PICK t \in Tag : armed[t] = <<w, f>>
  BY DEF Armed
<1>5. <<w, f>> # None
  BY Pairs
<1>6. t # u
  BY <1>2, <1>4, <1>5
<1>7. CASE t \in busy
  <2>1. <<w, f>> = <<x, "wctl">>
    BY <1>4, <1>7
  <2>2. armed'[u] = <<w, f>>
    BY <1>2, <1>3, <2>1
  <2> QED
    BY <1>2, <2>2 DEF Armed
<1>8. CASE t \notin busy
  <2>1. armed'[t] = <<w, f>>
    BY <1>3, <1>4, <1>6, <1>8
  <2> QED
    BY <2>1 DEF Armed
<1> QED
  BY <1>7, <1>8

(* Flushing a window's tags ends no reader of another one.                 *)
LEMMA GivenArms ==
  ASSUME IInv, NEW v \in Window, pc = "idle", win[v].top, Given(v),
         \A x \in Window : ~ Again(x),
         NEW w \in Window, w # v, NEW f \in Reader, Armed(w, f)
  PROVE  Armed(w, f)'
<1>0. /\ TypeOK /\ TagsOK /\ WinnewOK
      /\ armed \in [Tag -> {None} \cup (Window \X Reader)]
  BY DEF IInv, TypeOK
<1>1. v # cur
  BY <1>0, WindowAssumption DEF WinnewOK
<1>2. PICK t \in Tag : armed[t] = <<w, f>>
  BY DEF Armed
<1>3. armed'[t] = armed[t]
  <2> SUFFICES ASSUME armed'[t] # armed[t] PROVE FALSE
    OBVIOUS
  <2>1. Opened(v) /\ \E g \in Reader : win[v].tag[g] = t
    BY <1>0, GivenTypes
  <2>2. PICK g \in Reader : win[v].tag[g] = t
    BY <2>1
  <2>3. t # NOTAG
    BY Sizes DEF Tag, NOTAG
  <2>4. armed[t] = <<v, g>>
    BY <1>0, <1>1, <2>1, <2>2, <2>3 DEF TagsOK
  <2> QED
    BY <1>2, <2>4, Pairs
<1> QED
  BY <1>2, <1>3 DEF Armed

LEMMA StepGoesOn ==
  ASSUME IInv, Next, NEW w \in Window, NEW f \in Reader, Armed(w, f), ~ Armed(w, f)'
  PROVE  \/ win'[w].tag[f] = NOTAG
         \/ win[w].top /\ ~ win'[w].top
         \/ \E v \in Window : Again(v)
<1>0. /\ TypeOK /\ TagsOK /\ OneReadPerFile /\ WinnewOK
      /\ win \in [Window -> StructWindow]
      /\ armed \in [Tag -> {None} \cup (Window \X Reader)]
  BY DEF IInv, TypeOK, TagsOK
<1>1. <<w, f>> # None
  BY Pairs
<1>2. PICK t \in Tag : armed[t] = <<w, f>>
  BY DEF Armed
<1>3. armed'[t] # <<w, f>>
  BY DEF Armed
<1>4. ASSUME NEW v \in Window,
             GetXdgSurface(v) \/ GetToplevel(v) \/ SetTitle(v) \/ Commit(v) \/ WinnewAttach(v)
      PROVE  FALSE
  <2>1. armed' = armed
    BY <1>4 DEF GetXdgSurface, GetToplevel, SetTitle, Commit, WinnewAttach
  <2> QED
    BY <2>1, <1>2, <1>3
<1>5. ASSUME WinnewWalk \/ WinnewOpen \/ WinnewWctlError \/ WinnewError
      PROVE  FALSE
  <2>1. armed' = armed
    BY <1>5 DEF WinnewWalk, WinnewOpen, WinnewWctlError, WinnewError
  <2> QED
    BY <2>1, <1>2, <1>3
<1>6. ASSUME NEW v \in Window, win[v].top, Given(v), pc = "idle", ~ win'[v].top
      PROVE  \/ win[w].top /\ ~ win'[w].top
             \/ \E x \in Window : Again(x)
  <2>1. CASE v = w
    BY <2>1, <1>6
  <2>2. CASE v # w
    BY <2>2, <1>6, GivenArms
  <2> QED
    BY <2>1, <2>2
<1>7. ASSUME NEW v \in Window, ToplevelDestroy(v)
      PROVE  \/ win[w].top /\ ~ win'[w].top
             \/ \E x \in Window : Again(x)
  <2>1. win[v].top /\ Given(v) /\ pc = "idle"
    BY <1>7 DEF ToplevelDestroy
  <2>2. ~ win'[v].top
    BY <1>0, <1>7 DEF ToplevelDestroy, StructWindow
  <2> QED
    BY <2>1, <2>2, <1>6
<1>8. ASSUME NEW v \in Window, XdgSurfaceDestroy(v)
      PROVE  \/ win[w].top /\ ~ win'[w].top
             \/ \E x \in Window : Again(x)
  <2>1. pc = "idle"
    BY <1>8 DEF XdgSurfaceDestroy
  <2>2. ~ win'[v].top
    BY <1>0, <1>8 DEF XdgSurfaceDestroy, StructWindow
  <2>3. CASE win[v].top
    <3>1. Given(v)
      BY <1>8, <2>3 DEF XdgSurfaceDestroy
    <3> QED
      BY <3>1, <2>1, <2>2, <2>3, <1>6
  <2>4. CASE ~ win[v].top
    <3>1. armed' = armed
      BY <1>8, <2>4 DEF XdgSurfaceDestroy
    <3> QED
      BY <3>1, <1>2, <1>3
  <2> QED
    BY <2>3, <2>4
<1>9. ASSUME WinnewRead
      PROVE  FALSE
  <2> DEFINE u == NewTag({ftag[g] : g \in Reader})
  <2>1. CASE armed' = armed
    BY <2>1, <1>2, <1>3
  <2>2. CASE armed' # armed
    <3>1. armed' = [armed EXCEPT ![u] = <<cur, Files[n]>>]
      BY <1>9, <2>2 DEF WinnewRead
    <3>2. pc = "read"
      BY <1>9 DEF WinnewRead
    <3>3. armed[u] = None
      BY <3>2, ReadTagOK
    <3> HIDE DEF u
    <3>4. t # u
      BY <3>3, <1>1, <1>2
    <3> QED
      BY <3>1, <3>4, <1>2, <1>3
  <2> QED
    BY <2>1, <2>2
<1>10. ASSUME WinnewWctl
       PROVE  FALSE
  <2>1. pc = "wctl"
    BY <1>10 DEF WinnewWctl
  <2>2. cur \in Window
    BY <2>1, <1>0 DEF WinnewOK
  <2>3. PICK reply \in WctlReply(cur) :
          Wctlread(cur, [win[cur] EXCEPT !.tag = ftag, !.initial = FALSE], reply, {})
    BY <1>10 DEF WinnewWctl
  <2> DEFINE u == NewTag({})
  <2>4. armed' = [y \in Tag |-> IF y = u THEN <<cur, "wctl">> ELSE armed[y]]
    BY <2>3 DEF Wctlread
  <2>5. armed[u] = None
    <3>1. NOTAG \in Tag => armed[NOTAG] # None
      BY Sizes DEF Tag, NOTAG
    <3> QED
      BY <3>1, <1>0, NewTagOK
  <2> HIDE DEF u
  <2>6. t # u
    BY <2>5, <1>1, <1>2
  <2> QED
    BY <2>4, <2>6, <1>2, <1>3
<1>11. ASSUME NEW s \in Tag, FireWctl(s)
       PROVE  FALSE
  <2>1. PICK x \in Window : /\ armed[s] = <<x, "wctl">>
                            /\ \E reply \in WctlReply(x) : Wctlread(x, win[x], reply, {s})
    BY <1>11 DEF FireWctl
  <2>2. PICK reply \in WctlReply(x) : Wctlread(x, win[x], reply, {s})
    BY <2>1
  <2>3. {s} \subseteq {s}
    OBVIOUS
  <2> QED
    BY <2>1, <2>2, <2>3, WctlreadArms
<1>12. ASSUME NEW s \in Tag, FireInput(s)
       PROVE  FALSE
  <2> DEFINE u == NewTag({s})
  <2>1. PICK x \in Window, g \in Input :
          /\ armed[s] = <<x, g>>
          /\ armed' = [armed EXCEPT ![s] = None, ![u] = <<x, g>>]
    BY <1>12 DEF FireInput
  <2>2. <<x, g>> # None
    BY Pairs
  <2>3. u \in Tag /\ armed[u] = None /\ u # s
    BY <1>0, <2>1, <2>2, NewTagOK
  <2> HIDE DEF u
  <2>4. t # u
    BY <2>3, <1>1, <1>2
  <2>5. CASE t = s
    <3>1. armed'[u] = <<w, f>>
      BY <2>1, <2>3, <2>5, <1>0, <1>2
    <3> QED
      BY <3>1, <2>3 DEF Armed
  <2>6. CASE t # s
    BY <2>1, <2>4, <2>6, <1>0, <1>2, <1>3
  <2> QED
    BY <2>5, <2>6
<1>13. ASSUME NEW s \in Tag, FireError(s)
       PROVE  win'[w].tag[f] = NOTAG
  <2>1. PICK x \in Window, g \in Reader :
          /\ armed[s] = <<x, g>> /\ armed' = [armed EXCEPT ![s] = None]
          /\ win' = [win EXCEPT ![x].tag[g] = NOTAG]
    BY <1>13 DEF FireError
  <2>2. t = s
    BY <2>1, <1>0, <1>2, <1>3
  <2>3. x = w /\ g = f
    BY <2>1, <2>2, <1>2, Pairs
  <2>4. win[w].tag \in [Reader -> Tag \cup {NOTAG}]
    BY <1>0, Fields
  <2> QED
    BY <2>1, <2>3, <2>4, <1>0 DEF StructWindow
<1> QED
  BY <1>4, <1>5, <1>7, <1>8, <1>9, <1>10, <1>11, <1>12, <1>13 DEF Next, Winnew

(* A reader ends with an error reply or with its toplevel, whatever        *)
(* happens to other windows, where none had a second toplevel              *)
(* (wl9.c:378-491, 669-690, 1155-1185).                                    *)
THEOREM ReadersDoGoOn == Spec => ReadersGoOn
<1> DEFINE GoesOn == \A w \in Window, f \in Reader :
                       Armed(w, f) /\ ~ Armed(w, f)' =>
                         \/ win'[w].tag[f] = NOTAG
                         \/ win[w].top /\ ~ win'[w].top
                         \/ \E v \in Window : Again(v)
<1>1. IInv /\ [Next]_vars => [GoesOn]_vars
  <2> SUFFICES ASSUME IInv, Next PROVE GoesOn
    OBVIOUS
  <2> QED
    BY StepGoesOn
<1> HIDE DEF GoesOn
<1>2. Spec => [][GoesOn]_vars
  BY <1>1, Invariance, PTL DEF Spec
<1> QED
  BY <1>2 DEF GoesOn, ReadersGoOn

LEMMA StepKeepsImage ==
  ASSUME IInv, Next, NEW i \in Image, NEW w \in Window, img[i] = w, img'[i] # w
  PROVE  win'[w] # win[w] /\ win[w].image = i
<1>0. /\ TypeOK /\ TagsOK /\ OneReadPerFile /\ WinnewOK /\ ImagesOK
      /\ win \in [Window -> StructWindow]
      /\ img \in [Image -> Window \cup {"screen", "none"}]
  BY DEF IInv, TypeOK, TagsOK
<1>1. i > 0 /\ win[w].image = i
  BY <1>0 DEF ImagesOK
<1>2. ASSUME NEW v \in Window,
             GetXdgSurface(v) \/ GetToplevel(v) \/ SetTitle(v) \/ Commit(v) \/ WinnewAttach(v)
      PROVE  FALSE
  <2>1. img' = img
    BY <1>2 DEF GetXdgSurface, GetToplevel, SetTitle, Commit, WinnewAttach
  <2> QED
    BY <2>1
<1>3. ASSUME WinnewWalk \/ WinnewOpen \/ WinnewRead \/ WinnewWctlError \/ WinnewError
      PROVE  FALSE
  <2>1. img' = img
    BY <1>3 DEF WinnewWalk, WinnewOpen, WinnewRead, WinnewWctlError, WinnewError
  <2> QED
    BY <2>1
<1>4. ASSUME NEW s \in Tag, FireInput(s) \/ FireError(s)
      PROVE  FALSE
  <2>1. img' = img
    BY <1>4 DEF FireInput, FireError
  <2> QED
    BY <2>1
<1>5. ASSUME NEW v \in Window, win[v].top, Given(v), ~ win'[v].top
      PROVE  win'[w] # win[w]
  <2>1. img' = [img EXCEPT ![win[v].image] = "none"]
    BY <1>5 DEF Given, Released
  <2>2. win[v].image = i
    BY <2>1, <1>0
  <2>3. v = w
    BY <2>2, <1>0, <1>1 DEF ImagesOK
  <2> QED
    BY <2>3, <1>5
<1>6. ASSUME NEW v \in Window, ToplevelDestroy(v)
      PROVE  win'[w] # win[w]
  <2>1. win[v].top /\ Given(v)
    BY <1>6 DEF ToplevelDestroy
  <2>2. ~ win'[v].top
    BY <1>0, <1>6 DEF ToplevelDestroy, StructWindow
  <2> QED
    BY <2>1, <2>2, <1>5
<1>7. ASSUME NEW v \in Window, XdgSurfaceDestroy(v)
      PROVE  win'[w] # win[w]
  <2>1. ~ win'[v].top
    BY <1>0, <1>7 DEF XdgSurfaceDestroy, StructWindow
  <2>2. CASE win[v].top
    <3>1. Given(v)
      BY <1>7, <2>2 DEF XdgSurfaceDestroy
    <3> QED
      BY <3>1, <2>1, <2>2, <1>5
  <2>3. CASE ~ win[v].top
    <3>1. img' = img
      BY <1>7, <2>3 DEF XdgSurfaceDestroy
    <3> QED
      BY <3>1
  <2> QED
    BY <2>2, <2>3
(* An image that wctlread names is that of its window, or no one's.        *)
<1>8. ASSUME NEW x \in Window, NEW v, NEW reply, NEW busy, Wctlread(x, v, reply, busy)
      PROVE  x = w /\ reply = "nobind" /\ win[w].image >= 0
  <2> DEFINE j == IF win[x].image >= 0 THEN win[x].image ELSE Min(Image \ imgout)
  <2>1. img' = IF reply \in {"moved", "resized", "nobind"}
               THEN [img EXCEPT ![j] = IF reply = "nobind" THEN "none" ELSE x]
               ELSE img
    BY <1>8 DEF Wctlread
  <2>2. reply \in {"moved", "resized", "nobind"}
    BY <2>1
  <2>3. i = j /\ (reply = "nobind" \/ x # w)
    <3> HIDE DEF j
    <3> QED
      BY <2>1, <2>2, <1>0
  <2>4. x = w
    <3>1. CASE win[x].image >= 0
      BY <2>3, <3>1, <1>0, <1>1 DEF ImagesOK
    <3>2. CASE ~ win[x].image >= 0
      <4>1. win[x].image = -1
        BY <3>2, <1>0, Fields DEF Image
      <4>2. Min(Image \ imgout) \notin imgout
        BY <4>1, <1>0, FreeImage
      <4>3. i \in imgout
        BY <1>0, <1>1 DEF ImagesOK
      <4>4. i = Min(Image \ imgout)
        BY <2>3, <3>2
      <4> QED
        BY <4>2, <4>3, <4>4
    <3> QED
      BY <3>1, <3>2
  <2>5. i \in Int
    BY Sizes DEF Image
  <2> QED
    BY <2>3, <2>4, <2>5, <1>1
<1>9. ASSUME WinnewWctl
      PROVE  FALSE
  <2>1. pc = "wctl"
    BY <1>9 DEF WinnewWctl
  <2>2. cur \in Window /\ win[cur].image = -1
    BY <2>1, <1>0 DEF WinnewOK
  <2>3. PICK reply \in WctlReply(cur) :
          Wctlread(cur, [win[cur] EXCEPT !.tag = ftag, !.initial = FALSE], reply, {})
    BY <1>9 DEF WinnewWctl
  <2> DEFINE j == Min(Image \ imgout)
             a == IF reply = "nobind" THEN "none" ELSE cur
  <2>4. \A x \in Window : win[x].image = -1 => j \notin imgout
    BY <1>0, FreeImage
  <2>5. j \notin imgout
    BY <2>2, <2>4
  <2>6. \/ img' = img
        \/ img' = [img EXCEPT ![j] = a]
    <3>1. img' = IF reply \in {"moved", "resized", "nobind"}
                 THEN [img EXCEPT ![IF win[cur].image >= 0 THEN win[cur].image ELSE j] = a]
                 ELSE img
      BY <2>3 DEF Wctlread
    <3>2. ~ win[cur].image >= 0
      BY <2>2
    <3> HIDE DEF j, a
    <3> QED
      BY <3>1, <3>2
  <2>7. i \in imgout
    BY <1>0, <1>1 DEF ImagesOK
  <2> HIDE DEF j, a
  <2> QED
    BY <2>5, <2>6, <2>7, <1>0
<1>10. ASSUME NEW s \in Tag, FireWctl(s)
       PROVE  win'[w] # win[w]
  <2>1. PICK x \in Window : /\ pc = "idle" /\ armed[s] = <<x, "wctl">>
                            /\ \E reply \in WctlReply(x) : Wctlread(x, win[x], reply, {s})
    BY <1>10 DEF FireWctl
  <2>2. PICK reply \in WctlReply(x) : Wctlread(x, win[x], reply, {s})
    BY <2>1
  <2>3. x = w
    BY <2>2, <1>8
  <2>4. <<x, "wctl">> # None
    BY Pairs
  <2> DEFINE u == NewTag({s})
  <2>5. u \in Tag /\ u # s
    BY <1>0, <2>1, <2>4, NewTagOK
  <2>6. win'[w].tag["wctl"] = u
    <3> DEFINE K == win[x].known \/ reply # "short"
               j == IF reply \in {"moved", "resized", "nobind"}
                    THEN IF win[x].image >= 0 THEN win[x].image ELSE Min(Image \ imgout)
                    ELSE win[x].image
    <3>2. win' = [win EXCEPT ![x] =
                    [win[x] EXCEPT !.tag["wctl"] = u, !.known = K, !.image = j]]
      BY <2>2 DEF Wctlread
    <3> HIDE DEF u, K, j
    <3>3. win[x] \in StructWindow
      BY <1>0
    <3>4. win'[x] = [win[x] EXCEPT !.tag["wctl"] = u, !.known = K, !.image = j]
      BY <3>2, <1>0
    <3> QED
      <4>1. win[x].tag \in [Reader -> Tag \cup {NOTAG}] /\ "wctl" \in Reader
        BY <1>0, Fields, Names
      <4>2. [win[x].tag EXCEPT !["wctl"] = u]["wctl"] = u
        BY <4>1
      <4>3. win'[x].tag = [win[x].tag EXCEPT !["wctl"] = u]
        BY <3>3, <3>4 DEF StructWindow
      <4> QED
        BY <4>2, <4>3, <2>3
  <2>7. win[w].tag["wctl"] = s
    <3>1. cur = None /\ "wctl" \in Reader
      BY <2>1, <1>0, Names DEF WinnewOK
    <3>2. Opened(w)
      BY <2>1, <2>3, <1>0 DEF TagsOK
    <3> QED
      BY <3>1, <3>2, <2>1, <2>3, <1>0, IdleTagsNow DEF Opened
  <2> QED
    BY <2>5, <2>6, <2>7
<1> QED
  BY <1>1, <1>2, <1>3, <1>4, <1>6, <1>7, <1>9, <1>10 DEF Next, Winnew

(* What an image id names at the server changes only with the window it    *)
(* names: no other window names an image by that id or frees it            *)
(* (wl9.c:425-437, 1176-1181).                                             *)
THEOREM ImagesAreKept == Spec => ImagesKept
<1> DEFINE Kept == \A i \in Image, w \in Window :
                     img[i] = w /\ img'[i] # w => win'[w] # win[w] /\ win[w].image = i
<1>1. IInv /\ [Next]_vars => [Kept]_vars
  <2> SUFFICES ASSUME IInv, Next PROVE Kept
    OBVIOUS
  <2> QED
    BY StepKeepsImage
<1> HIDE DEF Kept
<1>2. Spec => [][Kept]_vars
  BY <1>1, Invariance, PTL DEF Spec
<1> QED
  BY <1>2 DEF Kept, ImagesKept

=============================================================================
