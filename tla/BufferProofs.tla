---------------------------- MODULE BufferProofs ----------------------------
(***************************************************************************)
(* What NumTab, RecvBuf, SendBuf and DrawCopy promise of their arrays, for *)
(* every size of word, buffer, pipe, message, window and rectangle.        *)
(***************************************************************************)
EXTENDS NumTab, RecvBuf, SendBuf, DrawCopy, WellFoundedInduction, TLAPS

-----------------------------------------------------------------------------
(* numget and numput implement the id pool for every word size.            *)

(* A word index and a bit index determine a number and the other way       *)
(* round, in the order of the numbers.                                     *)
LEMMA MulMono ==
  ASSUME NEW p \in Nat, NEW q \in Nat, NEW w \in Nat, p < q
  PROVE  p * w + w <= q * w
<1> DEFINE k == q - (p + 1)
<1>1. k \in Nat /\ q = p + 1 + k
  OBVIOUS
<1>2. k * w \in Nat
  BY <1>1
<1>3. q * w = p * w + w + k * w
  BY <1>1
<1> QED
  BY <1>2, <1>3

LEMMA SplitUnique ==
  ASSUME NEW p \in Nat, NEW q \in Nat, NEW b \in Bit, NEW c \in Bit,
         p * ENTBIT + b <= q * ENTBIT + c
  PROVE  p < q \/ (p = q /\ b <= c)
<1>1. CASE q < p
  <2>1. q * ENTBIT + ENTBIT <= p * ENTBIT
    BY <1>1, MulMono, EntBitAssumption
  <2>2. q * ENTBIT \in Nat /\ p * ENTBIT \in Nat
    BY EntBitAssumption
  <2> QED
    BY <2>1, <2>2, EntBitAssumption DEF Bit
<1>2. CASE p = q
  <2>1. p * ENTBIT \in Nat
    BY EntBitAssumption
  <2> QED
    BY <1>2, <2>1, EntBitAssumption DEF Bit
<1> QED
  BY <1>1, <1>2

LEMMA DivMod ==
  ASSUME NEW n \in Nat
  PROVE  /\ n \div ENTBIT \in Nat
         /\ n % ENTBIT \in Bit
         /\ n = (n \div ENTBIT) * ENTBIT + (n % ENTBIT)
BY EntBitAssumption DEF Bit

LEMMA NumberSplit ==
  ASSUME NEW i \in Nat \ {0}, NEW b \in Bit
  PROVE  /\ NumberOf(i, b) \in Nat
         /\ NumberOf(i, b) \div ENTBIT = i - 1
         /\ NumberOf(i, b) % ENTBIT = b
<1> DEFINE n == NumberOf(i, b)
<1>1. (i - 1) * ENTBIT \in Nat
  BY EntBitAssumption
<1>2. n \in Nat
  BY <1>1 DEF NumberOf, Bit
<1>3. (n \div ENTBIT) * ENTBIT + (n % ENTBIT) = (i - 1) * ENTBIT + b
  BY <1>2, DivMod DEF NumberOf
<1>4. n \div ENTBIT \in Nat /\ n % ENTBIT \in Bit /\ i - 1 \in Nat
  BY <1>2, DivMod
<1>5. (i - 1) * ENTBIT + b \in Int
  BY <1>1 DEF Bit
<1> HIDE DEF n
<1>6. n \div ENTBIT < i - 1 \/ (n \div ENTBIT = i - 1 /\ n % ENTBIT <= b)
  BY <1>3, <1>4, <1>5, SplitUnique
<1>7. i - 1 < n \div ENTBIT \/ (i - 1 = n \div ENTBIT /\ b <= n % ENTBIT)
  BY <1>3, <1>4, <1>5, SplitUnique
<1>8. n \div ENTBIT = i - 1 /\ n % ENTBIT = b
  BY <1>4, <1>6, <1>7 DEF Bit
<1> QED
  BY <1>2, <1>8 DEF n
(* Every set of natural numbers has a least element.                       *)
LEMMA LowestExists ==
  ASSUME NEW S, S \subseteq Nat, S # {}
  PROVE  Lowest(S) \in S /\ \A y \in S : Lowest(S) <= y
<1>1. \E x \in S : \A y \in S : <<y, x>> \notin OpToRel(<, Nat)
  BY NatLessThanWellFounded, WFMin
<1>2. PICK x \in S : \A y \in S : <<y, x>> \notin OpToRel(<, Nat)
  BY <1>1
<1>3. \A y \in S : x <= y
  <2> TAKE y \in S
  <2>1. ~ (y < x)
    BY <1>2 DEF OpToRel
  <2> QED
    BY <2>1
<1> QED
  BY <1>3 DEF Lowest

Table == Seq(SUBSET Bit)

(* A number is out exactly when its bit is clear.                          *)
LEMMA OutBit ==
  ASSUME NEW words \in Table, NEW n \in Int
  PROVE  n \in OutOf(words) <=>
           /\ n >= 0
           /\ n \div ENTBIT < Len(words)
           /\ n % ENTBIT \notin words[(n \div ENTBIT) + 1]
<1>1. ASSUME n \in OutOf(words)
      PROVE  /\ n >= 0
             /\ n \div ENTBIT < Len(words)
             /\ n % ENTBIT \notin words[(n \div ENTBIT) + 1]
  <2>0. PICK i \in 1 .. Len(words) : n \in {NumberOf(i, b) : b \in Bit \ words[i]}
    BY <1>1 DEF OutOf
  <2>1. PICK b \in Bit \ words[i] : n = NumberOf(i, b)
    BY <2>0
  <2>2. i \in Nat \ {0} /\ Len(words) \in Nat
    BY DEF Table
  <2>3. n \in Nat /\ n \div ENTBIT = i - 1 /\ n % ENTBIT = b
    BY <2>1, <2>2, NumberSplit
  <2>4. (n \div ENTBIT) + 1 = i
    BY <2>2, <2>3
  <2> QED
    BY <2>2, <2>3, <2>4
<1>2. ASSUME n >= 0, n \div ENTBIT < Len(words),
             n % ENTBIT \notin words[(n \div ENTBIT) + 1]
      PROVE  n \in OutOf(words)
  <2> DEFINE i == (n \div ENTBIT) + 1
             b == n % ENTBIT
  <2>1. n \in Nat /\ Len(words) \in Nat
    BY <1>2 DEF Table
  <2>2. n \div ENTBIT \in Nat /\ b \in Bit
        /\ n = (n \div ENTBIT) * ENTBIT + b
    BY <2>1, DivMod
  <2>3. i \in 1 .. Len(words) /\ i - 1 = n \div ENTBIT
    BY <1>2, <2>1, <2>2
  <2>4. n = NumberOf(i, b)
    BY <2>2, <2>3 DEF NumberOf
  <2>5. b \in Bit \ words[i]
    BY <1>2, <2>2
  <2> HIDE DEF i, b
  <2> QED
    BY <2>3, <2>4, <2>5 DEF OutOf
<1> QED
  BY <1>1, <1>2

LEMMA ExceptTable ==
  ASSUME NEW words \in Table, NEW i \in 1 .. Len(words), NEW w \in SUBSET Bit
  PROVE  LET new == [words EXCEPT ![i] = w]
         IN  /\ new \in Table
             /\ Len(new) = Len(words)
             /\ new[i] = w
             /\ \A j \in 1 .. Len(words) : j # i => new[j] = words[j]
BY DEF Table

LEMMA AppendTable ==
  ASSUME NEW words \in Table, NEW w \in SUBSET Bit
  PROVE  LET new == Append(words, w)
         IN  /\ new \in Table
             /\ Len(new) = Len(words) + 1
             /\ new[Len(words) + 1] = w
             /\ \A j \in 1 .. Len(words) : new[j] = words[j]
BY DEF Table

(* Clearing or setting one bit takes out or puts back one number.          *)
LEMMA OneBit ==
  ASSUME NEW words \in Table, NEW i \in 1 .. Len(words), NEW b \in Bit
  PROVE  /\ OutOf([words EXCEPT ![i] = words[i] \ {b}]) =
              OutOf(words) \cup {NumberOf(i, b)}
         /\ OutOf([words EXCEPT ![i] = words[i] \cup {b}]) =
              OutOf(words) \ {NumberOf(i, b)}
<1>1. Len(words) \in Nat /\ words[i] \in SUBSET Bit
  BY DEF Table
<1>2. ASSUME NEW w \in SUBSET Bit
      PROVE  OutOf([words EXCEPT ![i] = w]) \subseteq Nat /\ OutOf(words) \subseteq Nat
  BY SMTT(20), <1>1, NumberSplit, ExceptTable DEF OutOf
<1>3. NumberOf(i, b) \in Nat
  BY <1>1, NumberSplit
<1>4. ASSUME NEW n \in Nat
      PROVE  n = NumberOf(i, b) <=> (n \div ENTBIT) + 1 = i /\ n % ENTBIT = b
  <2>1. CASE n = NumberOf(i, b)
    BY <1>1, <2>1, NumberSplit
  <2>2. CASE (n \div ENTBIT) + 1 = i /\ n % ENTBIT = b
    <3> DEFINE q == n \div ENTBIT
    <3>1. q \in Nat /\ n = q * ENTBIT + (n % ENTBIT)
      BY DivMod
    <3> HIDE DEF q
    <3>2. q + 1 = i /\ n % ENTBIT = b
      BY <2>2 DEF q
    <3>3. i - 1 = q
      BY <3>1, <3>2
    <3>4. NumberOf(i, b) = q * ENTBIT + b
      BY <3>3 DEF NumberOf
    <3> QED
      BY <3>1, <3>2, <3>4 DEF q
  <2> QED
    BY <2>1, <2>2
<1>5. ASSUME NEW n \in Nat, NEW w \in SUBSET Bit
      PROVE  n \in OutOf([words EXCEPT ![i] = w]) <=>
               IF (n \div ENTBIT) + 1 = i THEN n % ENTBIT \notin w ELSE n \in OutOf(words)
  <2> DEFINE new == [words EXCEPT ![i] = w]
             q == n \div ENTBIT
  <2>1. new \in Table /\ Len(new) = Len(words) /\ new[i] = w
        /\ \A j \in 1 .. Len(words) : j # i => new[j] = words[j]
    BY ExceptTable
  <2>2. q \in Nat /\ n \in Int /\ n >= 0
    BY DivMod
  <2> HIDE DEF new
  <2>3. n \in OutOf(new) <=> q < Len(words) /\ n % ENTBIT \notin new[q + 1]
    BY <2>1, <2>2, OutBit
  <2>4. n \in OutOf(words) <=> q < Len(words) /\ n % ENTBIT \notin words[q + 1]
    BY <2>2, OutBit
  <2> HIDE DEF q
  <2>5. q + 1 = i => q < Len(words) /\ new[q + 1] = w
    BY <1>1, <2>1, <2>2
  <2>6. q + 1 # i /\ q < Len(words) => new[q + 1] = words[q + 1]
    BY <1>1, <2>1, <2>2
  <2>7. n \in OutOf(new) <=>
          IF q + 1 = i THEN n % ENTBIT \notin w ELSE n \in OutOf(words)
    BY <2>3, <2>4, <2>5, <2>6
  <2> QED
    BY <2>7 DEF new, q
<1>6. ASSUME NEW n \in Nat
      PROVE  n \in OutOf([words EXCEPT ![i] = words[i] \ {b}]) <=>
               n \in OutOf(words) \/ n = NumberOf(i, b)
  <2>1. n \in OutOf(words) /\ (n \div ENTBIT) + 1 = i => n % ENTBIT \notin words[i]
    BY OutBit
  <2>2. n % ENTBIT \in Bit /\ n \div ENTBIT \in Nat
    BY DivMod
  <2>3. (n \div ENTBIT) + 1 = i /\ n % ENTBIT \notin words[i] => n \in OutOf(words)
    BY <1>1, <2>2, OutBit
  <2> QED
    BY <1>1, <1>4, <1>5, <2>1, <2>2, <2>3
<1>7. ASSUME NEW n \in Nat
      PROVE  n \in OutOf([words EXCEPT ![i] = words[i] \cup {b}]) <=>
               n \in OutOf(words) /\ n # NumberOf(i, b)
  <2>1. n \in OutOf(words) /\ (n \div ENTBIT) + 1 = i => n % ENTBIT \notin words[i]
    BY OutBit
  <2>2. n % ENTBIT \in Bit /\ n \div ENTBIT \in Nat
    BY DivMod
  <2>3. (n \div ENTBIT) + 1 = i /\ n % ENTBIT \notin words[i] => n \in OutOf(words)
    BY <1>1, <2>2, OutBit
  <2> QED
    BY <1>1, <1>4, <1>5, <2>1, <2>2, <2>3
<1>8. words[i] \ {b} \in SUBSET Bit /\ words[i] \cup {b} \in SUBSET Bit
  BY <1>1
<1> QED
  BY <1>2, <1>3, <1>6, <1>7, <1>8

(* A new word with its first bit clear puts out the number after the last. *)
LEMMA NewWord ==
  ASSUME NEW words \in Table
  PROVE  OutOf(Append(words, Bit \ {0})) = OutOf(words) \cup {Len(words) * ENTBIT}
<1> DEFINE new == Append(words, Bit \ {0})
           l == Len(words)
<1>1. l \in Nat /\ 0 \in Bit
  BY EntBitAssumption DEF Table, Bit
<1>2. new \in Table /\ Len(new) = l + 1 /\ new[l + 1] = Bit \ {0}
      /\ \A j \in 1 .. l : new[j] = words[j]
  BY AppendTable
<1>3. l * ENTBIT = NumberOf(l + 1, 0)
  <2>1. (l + 1) - 1 = l /\ l * ENTBIT \in Nat
    BY <1>1, EntBitAssumption
  <2> QED
    BY <2>1 DEF NumberOf
<1> HIDE DEF new
<1>4. OutOf(new) = (UNION {{NumberOf(i, b) : b \in Bit \ new[i]} : i \in 1 .. l})
                     \cup {NumberOf(l + 1, b) : b \in Bit \ new[l + 1]}
  BY <1>1, <1>2 DEF OutOf
<1>5. Bit \ new[l + 1] = {0}
  BY <1>1, <1>2
<1>6. \A i \in 1 .. l : {NumberOf(i, b) : b \in Bit \ new[i]}
                        = {NumberOf(i, b) : b \in Bit \ words[i]}
  BY <1>2
<1>7. {NumberOf(l + 1, b) : b \in Bit \ new[l + 1]} = {l * ENTBIT}
  BY <1>3, <1>5
<1>8. UNION {{NumberOf(i, b) : b \in Bit \ new[i]} : i \in 1 .. l} = OutOf(words)
  <2> DEFINE F(i) == {NumberOf(i, b) : b \in Bit \ new[i]}
             G(i) == {NumberOf(i, b) : b \in Bit \ words[i]}
  <2>1. \A i \in 1 .. l : F(i) = G(i)
    BY <1>6
  <2>2. OutOf(words) = UNION {G(i) : i \in 1 .. l}
    BY DEF OutOf
  <2>3. UNION {F(i) : i \in 1 .. l} = UNION {G(i) : i \in 1 .. l}
    <3> HIDE DEF F, G
    <3> QED
      BY <2>1
  <2> QED
    BY <2>2, <2>3
<1> QED
  BY <1>4, <1>7, <1>8 DEF new

-----------------------------------------------------------------------------
(* Typing.                                                                 *)

LEMMA NumberBound ==
  ASSUME NEW i \in 1 .. MaxLen, NEW b \in Bit
  PROVE  NumberOf(i, b) \in 0 .. MaxLen * ENTBIT
<1>1. i - 1 \in Nat /\ i - 1 < MaxLen
  BY MaxLenAssumption
<1>2. (i - 1) * ENTBIT + ENTBIT <= MaxLen * ENTBIT
  BY <1>1, MulMono, EntBitAssumption, MaxLenAssumption
<1>3. (i - 1) * ENTBIT \in Nat /\ MaxLen * ENTBIT \in Nat
  BY <1>1, EntBitAssumption, MaxLenAssumption
<1> QED
  BY <1>2, <1>3, EntBitAssumption DEF NumberOf, Bit

(* What numget finds is a word of the table and a bit of that word.        *)
LEMMA Found ==
  ASSUME NumTypeOK, NEW words, words = {i \in 1 .. Len(ent) : ent[i] # {}},
         words # {}
  PROVE  LET i == Lowest(words)
             b == Lowest(ent[i])
         IN  /\ i \in 1 .. Len(ent) /\ b \in ent[i] /\ b \in Bit
             /\ \A j \in 1 .. i - 1 : ent[j] = {}
             /\ \A c \in ent[i] : b <= c
<1> DEFINE i == Lowest(words)
<1>1. words \subseteq Nat /\ Len(ent) \in Nat
  BY DEF NumTypeOK
<1>2. i \in words /\ \A j \in words : i <= j
  BY <1>1, LowestExists
<1>7. i \in 1 .. Len(ent) /\ ent[i] # {}
  BY <1>2
<1> HIDE DEF i
<1>3. i \in 1 .. Len(ent) /\ ent[i] # {} /\ ent[i] \subseteq Bit
  BY <1>7 DEF NumTypeOK
<1>4. Bit \subseteq Nat
  BY DEF Bit
<1>5. Lowest(ent[i]) \in ent[i] /\ \A c \in ent[i] : Lowest(ent[i]) <= c
  BY <1>3, <1>4, LowestExists
<1>6. \A j \in 1 .. i - 1 : ent[j] = {}
  BY <1>1, <1>2, <1>3
<1> QED
  BY <1>3, <1>5, <1>6 DEF i

LEMMA SmallBit ==
  ASSUME NEW b \in Bit
  PROVE  Shl1(b) = {b}
BY EntBitAssumption DEF Shl1, Bit

LEMMA InitTyped == NumInit => NumTypeOK
<1> USE EntBitAssumption, MaxLenAssumption
<1>1. MaxLen * ENTBIT \in Nat
  OBVIOUS
<1> QED
  BY <1>1 DEF NumInit, NumTypeOK, Argument

(* A step of the search clears the lowest bit of the first word with one   *)
(* and returns its number.                                                 *)
LEMMA FoundStep ==
  ASSUME NumTypeOK, NumgetFound
  PROVE  \E i \in 1 .. Len(ent) : \E b \in Bit :
           /\ b \in ent[i]
           /\ \A c \in ent[i] : b <= c
           /\ \A j \in 1 .. i - 1 : ent[j] = {}
           /\ ent' = [ent EXCEPT ![i] = ent[i] \ {b}]
           /\ res' = NumberOf(i, b)
           /\ call' = [op |-> "numget", num |-> 0]
<1> DEFINE words == {i \in 1 .. Len(ent) : ent[i] # {}}
           k == Lowest(words)
           l == Lowest(ent[k])
<1>1. k \in 1 .. Len(ent) /\ l \in ent[k] /\ l \in Bit
      /\ (\A j \in 1 .. k - 1 : ent[j] = {})
      /\ \A c \in ent[k] : l <= c
  BY Found DEF NumgetFound
<1>2. ent' = [ent EXCEPT ![k] = ent[k] \ Shl1(NumberOf(k, l))]
      /\ res' = NumberOf(k, l) /\ call' = [op |-> "numget", num |-> 0]
  BY DEF NumgetFound, Called
<1> HIDE DEF k, l
<1>3. Shl1(NumberOf(k, l)) = {l}
  <2>1. k \in Nat \ {0}
    BY <1>1 DEF NumTypeOK
  <2> QED
    BY <1>1, <2>1, NumberSplit DEF Shl1
<1> QED
  BY <1>1, <1>2, <1>3

LEMMA FoundTyped ==
  ASSUME NumTypeOK, NumgetFound
  PROVE  NumTypeOK'
<1>0. PICK i \in 1 .. Len(ent) : \E b \in Bit :
        /\ ent' = [ent EXCEPT ![i] = ent[i] \ {b}]
        /\ res' = NumberOf(i, b)
        /\ call' = [op |-> "numget", num |-> 0]
  BY FoundStep
<1>1. PICK b \in Bit :
        /\ ent' = [ent EXCEPT ![i] = ent[i] \ {b}]
        /\ res' = NumberOf(i, b)
        /\ call' = [op |-> "numget", num |-> 0]
  BY <1>0
<1>2. ent \in Table /\ ent[i] \ {b} \in SUBSET Bit
  BY DEF NumTypeOK, Table
<1>3. ent' \in Table /\ Len(ent') = Len(ent)
  BY <1>1, <1>2, ExceptTable
<1>4. i \in 1 .. MaxLen
  BY MaxLenAssumption DEF NumTypeOK
<1>5. res' \in 0 .. MaxLen * ENTBIT /\ MaxLen * ENTBIT \in Nat
  BY <1>1, <1>4, NumberBound, EntBitAssumption, MaxLenAssumption
<1>6. call' \in [op : {"none", "numget", "numput"}, num : Argument]
  BY <1>1, <1>5 DEF Argument
<1> QED
  BY <1>3, <1>5, <1>6 DEF NumTypeOK, Table

LEMMA GrowTyped ==
  ASSUME NumTypeOK, NumgetGrow
  PROVE  NumTypeOK'
<1>1. ent \in Table /\ Bit \ {0} \in SUBSET Bit
  BY DEF NumTypeOK, Table
<1>2. ent' = Append(ent, Bit \ {0}) /\ res' = Len(ent) * ENTBIT
      /\ call' = [op |-> "numget", num |-> 0] /\ Len(ent) < MaxLen
  BY DEF NumgetGrow, Called
<1>3. ent' \in Table /\ Len(ent') = Len(ent) + 1 /\ Len(ent) \in Nat
  BY <1>1, <1>2, AppendTable DEF Table
<1>4. Len(ent) * ENTBIT + ENTBIT <= MaxLen * ENTBIT
  BY <1>2, <1>3, MulMono, EntBitAssumption, MaxLenAssumption
<1>5. Len(ent) * ENTBIT \in Nat /\ MaxLen * ENTBIT \in Nat
  BY <1>3, EntBitAssumption, MaxLenAssumption
<1> QED
  BY <1>2, <1>3, <1>4, <1>5, EntBitAssumption, MaxLenAssumption
     DEF NumTypeOK, Table, Argument

(* The bit and the word of a number that numput accepts.                   *)
LEMMA NumputAccepted ==
  ASSUME NumTypeOK, NEW num \in Argument, NumputAccepts(num)
  PROVE  /\ num \in Nat
         /\ (num \div ENTBIT) + 1 \in 1 .. Len(ent)
         /\ num % ENTBIT \in Bit
         /\ num = NumberOf((num \div ENTBIT) + 1, num % ENTBIT)
<1> DEFINE q == num \div ENTBIT
           b == num % ENTBIT
<1>1. num \in Nat
  BY EntBitAssumption, MaxLenAssumption DEF NumputAccepts, Argument
<1>2. q \in Nat /\ b \in Bit /\ num = q * ENTBIT + b
  BY <1>1, DivMod
<1>3. q < Len(ent) /\ Len(ent) \in Nat
  BY DEF NumputAccepts, NumTypeOK
<1> HIDE DEF q, b
<1>4. (q + 1) - 1 = q /\ q + 1 \in 1 .. Len(ent)
  BY <1>2, <1>3
<1> QED
  BY <1>1, <1>2, <1>4 DEF NumberOf, q, b

LEMMA PutTyped ==
  ASSUME NumTypeOK, NEW num \in Argument, Numput(num)
  PROVE  NumTypeOK'
<1> DEFINE i == (num \div ENTBIT) + 1
           b == num % ENTBIT
<1>1. i \in 1 .. Len(ent) /\ b \in Bit
  BY NumputAccepted DEF Numput
<1>2. ent' = [ent EXCEPT ![i] = ent[i] \cup Shl1(b)] /\ res' = 0
      /\ call' = [op |-> "numput", num |-> num]
  BY DEF Numput, Called
<1> HIDE DEF i, b
<1>3. ent \in Table /\ ent[i] \cup Shl1(b) \in SUBSET Bit
  BY <1>1, SmallBit DEF NumTypeOK, Table
<1>4. ent' \in Table /\ Len(ent') = Len(ent)
  BY <1>1, <1>2, <1>3, ExceptTable
<1>5. MaxLen * ENTBIT \in Nat
  BY EntBitAssumption, MaxLenAssumption
<1> QED
  BY <1>2, <1>4, <1>5 DEF NumTypeOK, Table

LEMMA NextTyped == NumTypeOK /\ [NumNext]_numvars => NumTypeOK'
<1> SUFFICES ASSUME NumTypeOK, [NumNext]_numvars
             PROVE  NumTypeOK'
  OBVIOUS
<1>1. MaxLen * ENTBIT \in Nat
  BY EntBitAssumption, MaxLenAssumption
<1>2. CASE UNCHANGED numvars
  BY <1>2 DEF numvars, NumTypeOK
<1>3. CASE NumgetNoMemory
  BY <1>1, <1>3 DEF NumgetNoMemory, Called, NumTypeOK, Argument
<1>4. CASE \E num \in Argument : NumputRefused(num)
  BY <1>1, <1>4 DEF NumputRefused, Called, NumTypeOK
<1> QED
  BY <1>2, <1>3, <1>4, FoundTyped, GrowTyped, PutTyped DEF NumNext

(* The table only ever holds words, at most MaxLen of them.                *)
THEOREM NumTypeCorrect == NumSpec => []NumTypeOK
BY InitTyped, NextTyped, PTL DEF NumSpec

-----------------------------------------------------------------------------
(* Refinement.                                                             *)

LEMMA InitPool == NumInit => Pool!Init
<1> SUFFICES ASSUME NumInit PROVE Pool!Init
  OBVIOUS
<1>1. ent = <<>> /\ call = [op |-> "none", num |-> 0] /\ res = 0
  BY DEF NumInit
<1>2. OutOf(<<>>) = {}
  BY DEF OutOf
<1> QED
  BY <1>1, <1>2 DEF Pool!Init, Out

(* Whatever lies before the lowest free bit is out.                        *)
LEMMA BelowFound ==
  ASSUME NEW words \in Table, NEW i \in 1 .. Len(words), NEW b \in words[i],
         \A c \in words[i] : b <= c,
         \A j \in 1 .. i - 1 : words[j] = {}
  PROVE  \A n \in 0 .. NumberOf(i, b) - 1 : n \in OutOf(words)
<1>1. b \in Bit /\ Len(words) \in Nat /\ i \in Nat \ {0}
  BY DEF Table
<1>2. NumberOf(i, b) \in Nat
  BY <1>1, NumberSplit
<1> SUFFICES ASSUME NEW n \in Nat, n < NumberOf(i, b)
             PROVE  n \in OutOf(words)
  BY <1>2
<1> DEFINE q == n \div ENTBIT
           r == n % ENTBIT
<1>3. q \in Nat /\ r \in Bit /\ n = q * ENTBIT + r
  BY DivMod
<1>a. n \in OutOf(words) <=> q < Len(words) /\ r \notin words[q + 1]
  BY OutBit
<1> HIDE DEF q, r
<1>4. q * ENTBIT + r <= (i - 1) * ENTBIT + b
  BY <1>2, <1>3 DEF NumberOf
<1>5. q < i - 1 \/ (q = i - 1 /\ r <= b)
  BY <1>1, <1>3, <1>4, SplitUnique
<1>6. CASE q < i - 1
  <2>1. q + 1 \in 1 .. i - 1 /\ q < Len(words)
    BY <1>1, <1>3, <1>6
  <2> QED
    BY <1>a, <2>1
<1>7. CASE q = i - 1 /\ r <= b
  <2>1. r # b
    BY <1>2, <1>3, <1>7 DEF NumberOf
  <2>2. r < b
    BY <1>1, <1>3, <1>7, <2>1 DEF Bit
  <2>3. r \notin words[i]
    BY <1>1, <1>3, <2>2 DEF Bit
  <2>4. q + 1 = i /\ q < Len(words)
    BY <1>1, <1>7
  <2> QED
    BY <1>a, <2>3, <2>4
<1> QED
  BY <1>5, <1>6, <1>7

LEMMA FoundGets ==
  ASSUME NumTypeOK, NumgetFound
  PROVE  Pool!Get
<1>1. PICK i \in 1 .. Len(ent) : \E b \in Bit :
        /\ b \in ent[i]
        /\ \A c \in ent[i] : b <= c
        /\ \A j \in 1 .. i - 1 : ent[j] = {}
        /\ ent' = [ent EXCEPT ![i] = ent[i] \ {b}]
        /\ res' = NumberOf(i, b)
        /\ call' = [op |-> "numget", num |-> 0]
  BY FoundStep
<1>2. PICK b \in Bit :
        /\ b \in ent[i]
        /\ \A c \in ent[i] : b <= c
        /\ \A j \in 1 .. i - 1 : ent[j] = {}
        /\ ent' = [ent EXCEPT ![i] = ent[i] \ {b}]
        /\ res' = NumberOf(i, b)
        /\ call' = [op |-> "numget", num |-> 0]
  BY <1>1
<1>3. ent \in Table /\ i \in Nat \ {0}
  BY DEF NumTypeOK, Table
<1>4. res' \in Nat /\ res' \div ENTBIT = i - 1 /\ res' % ENTBIT = b
  BY <1>2, <1>3, NumberSplit
<1>5. res' \notin OutOf(ent)
  <2>1. res' \in Int /\ (res' \div ENTBIT) + 1 = i
    BY <1>3, <1>4
  <2> QED
    BY <1>2, <1>3, <1>4, <2>1, OutBit
<1>6. \A n \in 0 .. res' - 1 : n \in OutOf(ent)
  BY <1>2, <1>3, BelowFound
<1>7. OutOf(ent') = OutOf(ent) \cup {res'}
  BY ZenonT(40), <1>2, <1>3, OneBit
<1> QED
  BY <1>2, <1>4, <1>5, <1>6, <1>7 DEF Pool!Get, Out

LEMMA GrowGets ==
  ASSUME NumTypeOK, NumgetGrow
  PROVE  Pool!Get
<1>1. ent \in Table /\ Len(ent) \in Nat /\ Len(ent) * ENTBIT \in Nat
  BY EntBitAssumption DEF NumTypeOK, Table
<1>2. ent' = Append(ent, Bit \ {0}) /\ res' = Len(ent) * ENTBIT
      /\ call' = [op |-> "numget", num |-> 0]
      /\ \A j \in 1 .. Len(ent) : ent[j] = {}
  BY DEF NumgetGrow, Called
<1>3. OutOf(ent') = OutOf(ent) \cup {res'}
  BY <1>1, <1>2, NewWord
<1>4. res' \in Nat /\ 0 \in Bit /\ res' = Len(ent) * ENTBIT + 0
  BY <1>1, <1>2, EntBitAssumption DEF Bit
<1>5. ASSUME NEW n \in Nat
      PROVE  n \in OutOf(ent) <=> n < res'
  <2> DEFINE q == n \div ENTBIT
             r == n % ENTBIT
  <2>1. q \in Nat /\ r \in Bit /\ n = q * ENTBIT + r
    BY DivMod
  <2>2. n \in OutOf(ent) <=> q < Len(ent) /\ r \notin ent[q + 1]
    BY <1>1, OutBit
  <2> HIDE DEF q, r
  <2>3. q < Len(ent) => ent[q + 1] = {}
    BY <1>1, <1>2, <2>1
  <2>4. q < Len(ent) => q * ENTBIT + ENTBIT <= Len(ent) * ENTBIT
    BY <1>1, <2>1, MulMono, EntBitAssumption
  <2>5. q * ENTBIT \in Nat
    BY <2>1, EntBitAssumption
  <2>6. q < Len(ent) => n < res'
    BY <1>1, <1>2, <2>1, <2>4, <2>5, EntBitAssumption DEF Bit
  <2>7. ~ (q < Len(ent)) => ~ (n < res')
    <3>1. Len(ent) < q => Len(ent) * ENTBIT + ENTBIT <= q * ENTBIT
      BY <1>1, <2>1, MulMono, EntBitAssumption
    <3>2. Len(ent) = q => res' = q * ENTBIT
      BY <1>2
    <3> QED
      BY <1>1, <1>2, <2>1, <2>5, <3>1, <3>2, EntBitAssumption DEF Bit
  <2> QED
    BY <2>2, <2>3, <2>6, <2>7
<1>6. res' \notin OutOf(ent)
  BY <1>4, <1>5
<1>7. \A n \in 0 .. res' - 1 : n \in OutOf(ent)
  BY <1>4, <1>5
<1> QED
  BY <1>2, <1>3, <1>4, <1>6, <1>7 DEF Pool!Get, Out

LEMMA PutPuts ==
  ASSUME NumTypeOK, NEW num \in Argument, Numput(num)
  PROVE  Pool!Put
<1> DEFINE i == (num \div ENTBIT) + 1
           b == num % ENTBIT
<1>1. NumputAccepts(num)
  BY DEF Numput
<1>2. i \in 1 .. Len(ent) /\ b \in Bit /\ num \in Nat /\ num = NumberOf(i, b)
  BY <1>1, NumputAccepted
<1>3. ent' = [ent EXCEPT ![i] = ent[i] \cup Shl1(b)] /\ res' = 0
      /\ call' = [op |-> "numput", num |-> num]
  BY DEF Numput, Called
<1>4. ent \in Table
  BY DEF NumTypeOK, Table
<1>5. num \in OutOf(ent)
  BY <1>1, <1>2, <1>4, OutBit DEF NumputAccepts
<1> HIDE DEF i, b
<1>6. ent' = [ent EXCEPT ![i] = ent[i] \cup {b}]
  BY <1>2, <1>3, SmallBit
<1>7. OutOf(ent') = OutOf(ent) \ {num}
  BY <1>2, <1>4, <1>6, OneBit
<1> QED
  BY <1>3, <1>5, <1>7 DEF Pool!Put, Out

LEMMA RefusedRefuses ==
  ASSUME NumTypeOK, NEW num \in Argument, NumputRefused(num)
  PROVE  Pool!PutRefused
<1>1. ent \in Table /\ num \in Int
  BY DEF NumTypeOK, Table, Argument
<1>2. num \notin OutOf(ent)
  BY <1>1, OutBit DEF NumputRefused, NumputAccepts
<1>3. call' = [op |-> "numput", num |-> num] /\ res' = -1 /\ ent' = ent
  BY DEF NumputRefused, Called
<1> QED
  BY <1>1, <1>2, <1>3 DEF Pool!PutRefused, Out

LEMMA NextPool == NumTypeOK /\ [NumNext]_numvars => [Pool!Next]_(Pool!vars)
<1> SUFFICES ASSUME NumTypeOK, [NumNext]_numvars
             PROVE  Pool!Next \/ UNCHANGED Pool!vars
  OBVIOUS
<1>1. CASE UNCHANGED numvars
  BY <1>1 DEF numvars, Pool!vars, Out
<1>2. CASE NumgetFound
  BY <1>2, FoundGets DEF Pool!Next
<1>3. CASE NumgetGrow
  BY <1>3, GrowGets DEF Pool!Next
<1>4. CASE NumgetNoMemory
  <2>1. Pool!GetFails
    BY <1>4 DEF NumgetNoMemory, Called, Pool!GetFails, Out
  <2> QED
    BY <2>1 DEF Pool!Next
<1>5. CASE \E num \in Argument : Numput(num)
  BY <1>5, PutPuts DEF Pool!Next
<1>6. CASE \E num \in Argument : NumputRefused(num)
  BY <1>6, RefusedRefuses DEF Pool!Next
<1> QED
  BY <1>1, <1>2, <1>3, <1>4, <1>5, <1>6 DEF NumNext

(* numget and numput are the id pool their callers rely on: no number is   *)
(* with two holders, the smallest free one is handed out, and a number     *)
(* that is out can always be returned, whatever the width of a word and    *)
(* the size of the table.                                                  *)
THEOREM ImplementsIdPool == NumSpec => ImplementsPool
<1>1. NumInit => Pool!Init
  BY InitPool
<1>2. NumTypeOK /\ [NumNext]_numvars => [Pool!Next]_(Pool!vars)
  BY NextPool
<1> QED
  BY <1>1, <1>2, NumTypeCorrect, PTL DEF NumSpec, ImplementsPool, Pool!Spec

-----------------------------------------------------------------------------
(* The framing of RecvBuf is right for every size of rbuf, every msize     *)
(* that fits it, and every stream.                                         *)
(*                                                                         *)
(* The idea: rpos always stands at a known byte of the stream, the start   *)
(* of the next message or, once its size is read, its body, and rbuf holds *)
(* from there on consecutive bytes up to the one read() returns next.      *)

(* The stream is cut into messages without gaps, and at is one of the cuts.*)
StreamOK ==
  /\ \A m \in DOMAIN len :
       /\ m < sent
       /\ m + len[m] \in DOMAIN len \cup {sent}
  /\ at \in DOMAIN len \cup {sent}

HeaderRead == IF sz = 0 THEN 0 ELSE HEADER

(* rbuf is a window of the stream.                                         *)
WindowOK ==
  /\ got = at + HeaderRead + Available
  /\ Holds(at + HeaderRead, Available)

SizeOK == sz # 0 => at \in DOMAIN len /\ sz = len[at]

WantOK ==
  /\ pc # "c9proc" => want = IF sz = 0 THEN HEADER ELSE sz - HEADER
  /\ pc = "read" => rpos + want <= BUF

RecvIInv == TypeOK /\ StreamOK /\ WindowOK /\ SizeOK /\ WantOK

(* The invariant holds at first.                                           *)
LEMMA RecvInitInv == Init => RecvIInv
BY SizeAssumption DEF Init, RecvIInv, TypeOK, StreamOK, WindowOK, SizeOK, WantOK,
     HeaderRead, Available, Holds, Size, HEADER

(* The server appends a message: what is before stays as it is.            *)
LEMMA SrvSendInv ==
  ASSUME RecvIInv, NEW s \in Size, Send(s)
  PROVE  RecvIInv'
<1> USE SizeAssumption DEF RecvIInv, Send, bufv, Size
<1>1. TypeOK'
  BY DEF TypeOK
<1>2. \A m \in DOMAIN len : m # sent /\ len'[m] = len[m]
  BY DEF StreamOK, TypeOK
<1>3. StreamOK'
  BY <1>2 DEF StreamOK, TypeOK
<1>4. WindowOK'
  BY DEF WindowOK, HeaderRead, Available, Holds
<1>5. SizeOK'
  BY <1>2 DEF SizeOK
<1>6. WantOK'
  BY DEF WantOK
<1> QED
  BY <1>1, <1>3, <1>4, <1>5, <1>6

(* c9proc asks for the size, or for the body if it knows the size.         *)
LEMMA C9procInv ==
  ASSUME RecvIInv, C9proc
  PROVE  RecvIInv'
BY SizeAssumption DEF RecvIInv, C9proc, srvv, bufv, Size, HEADER, TypeOK, StreamOK,
     WindowOK, SizeOK, WantOK, HeaderRead, Available, Holds

(* read9p shifts the window to the front if it must, and then what it      *)
(* wants fits behind rpos: no request is larger than rbuf.                 *)
LEMMA Read9pInv ==
  ASSUME RecvIInv, Read9p
  PROVE  RecvIInv'
<1> USE SizeAssumption DEF RecvIInv, Read9p, srvv, Size, HEADER
<1>1. Available \in 0 .. BUF /\ Available' = Available
  BY DEF TypeOK, Shift, Available
<1>2. rbuf' \in [0 .. BUF - 1 -> Nat]
  BY SMTT(20), <1>1 DEF TypeOK, Shift, Available
<1>3. TypeOK'
  BY <1>1, <1>2 DEF TypeOK, Shift, Available
<1>4. StreamOK' /\ SizeOK'
  BY DEF StreamOK, SizeOK
<1>5. \A i \in 0 .. Available - 1 : rbuf'[rpos' + i] = rbuf[rpos + i]
  BY <1>1 DEF TypeOK, Shift, Available
<1>6. WindowOK'
  BY <1>1, <1>5 DEF WindowOK, HeaderRead, Holds
<1>7. WantOK'
  BY DEF WantOK, Shift, ShiftNeeded, TypeOK
<1> QED
  BY <1>3, <1>4, <1>6, <1>7

(* read() continues the window.                                            *)
LEMMA ReadSomeInv ==
  ASSUME RecvIInv, NEW n \in 1 .. BUF, ReadSome(n)
  PROVE  RecvIInv'
<1> USE SizeAssumption DEF RecvIInv, ReadSome, srvv, Size, HEADER
<1>1. TypeOK'
  BY DEF TypeOK
<1>2. StreamOK' /\ SizeOK' /\ WantOK'
  BY DEF StreamOK, SizeOK, WantOK
<1>3. Available \in Nat /\ Available' = Available + n /\ rpos' = rpos
  BY DEF TypeOK, Available
<1>4. \A i \in 0 .. Available + n - 1 :
        rbuf'[rpos + i] = at + HeaderRead + i
  <2> TAKE i \in 0 .. Available + n - 1
  <2>1. CASE i < Available
    BY <2>1 DEF TypeOK, Available, WindowOK, Holds
  <2>2. CASE i >= Available
    BY <2>2 DEF TypeOK, Available, WindowOK, HeaderRead
  <2> QED
    BY <1>3, <2>1, <2>2
<1>5. Holds(at + HeaderRead, Available)'
  BY <1>3, <1>4 DEF HeaderRead, Holds
<1>6. got' = (at + HeaderRead + Available)'
  BY <1>3 DEF WindowOK, HeaderRead, TypeOK
<1>7. WindowOK'
  BY <1>5, <1>6 DEF WindowOK
<1> QED
  BY <1>1, <1>2, <1>7

LEMMA ReadAgainInv ==
  ASSUME RecvIInv, ReadAgain
  PROVE  RecvIInv'
BY DEF RecvIInv, ReadAgain, srvv, bufv, TypeOK, StreamOK, WindowOK, SizeOK, WantOK,
     HeaderRead, Available, Holds

(* A size field that is complete is one that the server sent.              *)
LEMMA SizeKnown ==
  ASSUME RecvIInv, pc = "read", Available >= want
  PROVE  at \in DOMAIN len
<1>1. want > 0
  BY SizeAssumption DEF RecvIInv, WantOK, TypeOK, Size, HEADER
<1>2. got > at
  BY <1>1 DEF RecvIInv, TypeOK, WindowOK, HeaderRead, HEADER, Available
<1> QED
  BY <1>2 DEF RecvIInv, TypeOK, StreamOK

LEMMA GotSizeInv ==
  ASSUME RecvIInv, GotSize
  PROVE  RecvIInv'
<1> USE SizeAssumption DEF RecvIInv, GotSize, srvv, Size, HEADER
<1>1. at \in DOMAIN len
  BY SizeKnown
<1>2. Available \in Nat /\ Available >= HEADER /\ HeaderRead = 0 /\ at \in Nat
  BY DEF WantOK, HeaderRead, TypeOK, Available
<1>8. \A i \in 0 .. Available - 1 : rbuf[rpos + i] = at + i
  BY <1>2 DEF WindowOK, Holds
<1>9. Holds(at, HEADER)
  BY <1>2, <1>8 DEF Holds
<1>3. sz' \in Size /\ sz' = len[at]
  BY <1>1, <1>9 DEF SizeField
<1>4. TypeOK'
  BY SMTT(20), <1>2, <1>3 DEF TypeOK, Available
<1>5. StreamOK' /\ SizeOK' /\ WantOK'
  BY <1>1, <1>3 DEF StreamOK, SizeOK, WantOK
<1>6. HeaderRead' = HEADER /\ HeaderRead = 0 /\ Available' = Available - HEADER
  BY <1>3 DEF HeaderRead, Available, TypeOK
<1>7. Holds(at + HeaderRead, Available)'
  <2> SUFFICES ASSUME NEW i \in 0 .. Available - HEADER - 1
               PROVE  rbuf[rpos + HEADER + i] = at + HEADER + i
    BY <1>6 DEF Holds
  <2>1. HEADER + i \in 0 .. Available - 1
    BY <1>2
  <2>2. rbuf[rpos + (HEADER + i)] = at + (HEADER + i)
    BY <1>8, <2>1
  <2> QED
    BY <1>2, <2>2 DEF TypeOK
<1>10. got' = (at + HeaderRead + Available)'
  BY <1>2, <1>6 DEF WindowOK, TypeOK
<1> QED
  BY <1>4, <1>5, <1>7, <1>10 DEF WindowOK

LEMMA GotBodyInv ==
  ASSUME RecvIInv, GotBody
  PROVE  RecvIInv'
<1> USE SizeAssumption DEF RecvIInv, GotBody, srvv, Size, HEADER
<1>1. at \in DOMAIN len /\ sz = len[at] /\ want = sz - HEADER /\ sz \in Size
  BY DEF SizeOK, WantOK, TypeOK
<1>2. Available \in Nat /\ Available >= want /\ want \in Nat /\ at \in Nat
  BY <1>1 DEF TypeOK, Available
<1>3. Available' = Available - want /\ HeaderRead' = 0 /\ HeaderRead = HEADER
  BY SMTT(20), <1>1, <1>2 DEF HeaderRead, Available, TypeOK
<1>4. at' = at + HEADER + want
  BY <1>1, <1>2
<1>9. rpos' \in 0 .. rend' /\ at' \in Nat
  BY <1>2, <1>4 DEF TypeOK, Available
<1>5. TypeOK'
  BY <1>9 DEF TypeOK
<1>6. StreamOK' /\ SizeOK' /\ WantOK'
  BY <1>1 DEF StreamOK, SizeOK, WantOK
<1>7. Holds(at + HeaderRead, Available)'
  <2> SUFFICES ASSUME NEW i \in 0 .. Available - want - 1
               PROVE  rbuf[rpos + want + i] = at + HEADER + want + i
    BY <1>2, <1>3, <1>4 DEF Holds
  <2>1. want + i \in 0 .. Available - 1
    BY <1>2
  <2>2. rbuf[rpos + (want + i)] = at + HEADER + (want + i)
    BY <1>3, <2>1 DEF WindowOK, Holds
  <2> QED
    BY <1>2, <2>2 DEF TypeOK
<1>8. got' = (at + HeaderRead + Available)'
  BY <1>2, <1>3, <1>4 DEF WindowOK, TypeOK
<1> QED
  BY <1>5, <1>6, <1>7, <1>8 DEF WindowOK

LEMMA RecvNextInv == RecvIInv /\ [Next]_vars => RecvIInv'
<1> SUFFICES ASSUME RecvIInv, [Next]_vars
             PROVE  RecvIInv'
  OBVIOUS
<1>1. CASE UNCHANGED vars
  BY <1>1 DEF vars, srvv, bufv, RecvIInv, TypeOK, StreamOK, WindowOK, SizeOK, WantOK,
       HeaderRead, Available, Holds
<1>2. CASE \E s \in Size : Send(s)
  BY <1>2, SrvSendInv
<1>3. CASE \E n \in 1 .. BUF : ReadSome(n)
  BY <1>3, ReadSomeInv
<1> QED
  BY <1>1, <1>2, <1>3, C9procInv, Read9pInv, ReadAgainInv, GotSizeInv, GotBodyInv
     DEF Next

(* RecvIInv holds in every reachable state, however the stream is cut      *)
(* (fs.c:87-113, c9.c:395-425).                                            *)
THEOREM RecvInvariance == Spec => []RecvIInv
BY RecvInitInv, RecvNextInv, PTL DEF Spec

(* rbuf and its two pointers keep to their ranges.                         *)
THEOREM RecvTypeCorrect == Spec => []TypeOK
BY RecvInvariance, PTL DEF RecvIInv

(* read9p always has room behind rend when it calls read(), so that a      *)
(* return of 0 can only mean the end of the stream.                        *)
THEOREM AlwaysRoom == Spec => []RoomToRead
<1>1. RecvIInv => RoomToRead
  BY SizeAssumption DEF RecvIInv, TypeOK, WantOK, RoomToRead, Available
<1> QED
  BY <1>1, RecvInvariance, PTL

(* c9proc hands every message to r() whole, in order and once.             *)
THEOREM MessagesArrive == Spec => MessagesWhole
<1> DEFINE Whole == /\ at \in DOMAIN len
                    /\ sz = len[at]
                    /\ Holds(at + HEADER, sz - HEADER)
<1>1. ASSUME RecvIInv, [Next]_vars, at' # at
      PROVE  Whole
  <2>1. GotBody
    BY <1>1 DEF Next, vars, Send, C9proc, Read9p, ReadSome, ReadAgain, GotSize
  <2>2. at \in DOMAIN len /\ sz = len[at] /\ want = sz - HEADER
    BY <1>1, <2>1 DEF RecvIInv, SizeOK, WantOK, GotBody
  <2>3. want <= Available /\ want \in Nat /\ Available \in Nat
    BY <1>1, <2>1, <2>2, SizeAssumption
       DEF RecvIInv, GotBody, TypeOK, Available, Size, HEADER
  <2>4. Holds(at + HEADER, Available)
    BY <1>1, <2>1 DEF RecvIInv, WindowOK, HeaderRead, GotBody
  <2>5. Holds(at + HEADER, want)
    BY <2>3, <2>4 DEF Holds
  <2> QED
    BY <2>2, <2>5
<1>2. RecvIInv /\ [Next]_vars => [at' # at => Whole]_vars
  BY <1>1
<1> QED
  BY <1>2, RecvInvariance, PTL DEF Spec, MessagesWhole

-----------------------------------------------------------------------------
(* wbuf keeps the unwritten requests intact and never overflows, for every *)
(* size of buffer and pipe and every msize that fits the buffer.           *)

(* T has checked the size, so an empty wbuf has room for it.               *)
NeedOK == need <= TSIZE

SendIInv == SendTypeOK /\ UnsentIntact /\ FitsWbuf /\ NeedOK

LEMMA SendInitInv == SendInit => SendIInv
BY WbufAssumption, CapAssumption
   DEF SendInit, SendIInv, SendTypeOK, UnsentIntact, FitsWbuf, NeedOK

(* The steps that leave the buffer alone.                                  *)
LEMMA CallInv ==
  ASSUME SendIInv,
         \/ \E size \in 0 .. TSIZE : T(size)
         \/ Begin \/ Wait \/ Write9p \/ WriteAgain
         \/ \E n \in 1 .. CAP : SrvRead(n)
  PROVE  SendIInv'
<1> USE WbufAssumption, CapAssumption
    DEF SendIInv, SendTypeOK, UnsentIntact, FitsWbuf, NeedOK, wbufv
<1>1. CASE \E size \in 0 .. TSIZE : T(size)
  BY <1>1 DEF T, Accepted, THEADER
<1>2. CASE Begin
  BY <1>2 DEF Begin, HasRoom
<1>3. CASE Wait \/ Write9p \/ WriteAgain
  BY <1>3 DEF Wait, Write9p, WriteAgain
<1>4. CASE \E n \in 1 .. CAP : SrvRead(n)
  BY <1>4 DEF SrvRead
<1> QED
  BY <1>1, <1>2, <1>3, <1>4

(* The new request goes behind the bytes not yet written.                  *)
LEMMA FillInv ==
  ASSUME SendIInv, Fill
  PROVE  SendIInv'
<1> USE WbufAssumption DEF SendIInv, Fill
<1>1. wend + need <= WBUF
  BY DEF FitsWbuf, SendTypeOK
<1>2. SendTypeOK'
  BY <1>1, CapAssumption DEF SendTypeOK
<1>3. \A i \in wpos .. wend + need - 1 : wbuf'[i] = out + (i - wpos)
  <2> TAKE i \in wpos .. wend + need - 1
  <2>1. CASE i < wend
    BY <1>1, <2>1 DEF SendTypeOK, UnsentIntact
  <2>2. CASE i >= wend
    BY <1>1, <2>2 DEF SendTypeOK, UnsentIntact
  <2> QED
    BY <2>1, <2>2 DEF SendTypeOK
<1>4. UnsentIntact'
  BY <1>3 DEF UnsentIntact, SendTypeOK
<1>5. FitsWbuf' /\ NeedOK'
  BY DEF FitsWbuf, NeedOK
<1> QED
  BY <1>2, <1>4, <1>5

LEMMA WriteSomeInv ==
  ASSUME SendIInv, NEW n \in 1 .. WBUF, WriteSome(n)
  PROVE  SendIInv'
<1> USE WbufAssumption, CapAssumption DEF SendIInv, WriteSome
<1>1. SendTypeOK'
  BY DEF SendTypeOK, UnsentIntact
<1>2. UnsentIntact'
  BY DEF SendTypeOK, UnsentIntact
<1>3. FitsWbuf' /\ NeedOK'
  BY DEF FitsWbuf, NeedOK
<1> QED
  BY <1>1, <1>2, <1>3

(* All is written: the buffer starts afresh.                               *)
LEMMA WriteEndsInv ==
  ASSUME SendIInv, WriteEnds
  PROVE  SendIInv'
BY WbufAssumption, CapAssumption
   DEF SendIInv, WriteEnds, SendTypeOK, UnsentIntact, FitsWbuf, NeedOK

LEMMA SendNextInv == SendIInv /\ [SendNext]_sendvars => SendIInv'
<1> SUFFICES ASSUME SendIInv, [SendNext]_sendvars
             PROVE  SendIInv'
  OBVIOUS
<1>1. CASE UNCHANGED sendvars
  BY <1>1 DEF sendvars, wbufv, SendIInv, SendTypeOK, UnsentIntact, FitsWbuf, NeedOK
<1>2. CASE \E n \in 1 .. WBUF : WriteSome(n)
  BY <1>2, WriteSomeInv
<1> QED
  BY <1>1, <1>2, CallInv, FillInv, WriteEndsInv DEF SendNext

(* SendIInv holds in every reachable state, whatever the pipe takes        *)
(* (fs.c:60-86, 115-127).                                                  *)
THEOREM SendInvariance == SendSpec => []SendIInv
BY SendInitInv, SendNextInv, PTL DEF SendSpec

(* The two pointers keep to their ranges; write() never takes more bytes   *)
(* than were put in.                                                       *)
THEOREM SendTypeCorrect == SendSpec => []SendTypeOK
BY SendInvariance, PTL DEF SendIInv

(* The bytes between wpos and wend are exactly those still to be written.  *)
THEOREM UnsentStaysIntact == SendSpec => []UnsentIntact
BY SendInvariance, PTL DEF SendIInv

(* begin's pointer always has room behind it for the whole request.        *)
THEOREM RequestsFit == SendSpec => []FitsWbuf
BY SendInvariance, PTL DEF SendIInv

-----------------------------------------------------------------------------
(* drawcopy draws all the damage and never more than fits a message, for   *)
(* every size of window, buffer and draw.buf, but for the exceptions that  *)
(* the properties name.                                                    *)
(*                                                                         *)
(* The idea: the loop has drawn the rows before y and of row y what lies   *)
(* before x, and what a piece may hold was divided up by the width.        *)

(* The damage is a box around what the client damaged in the window: a     *)
(* side of -1 is none that was asked for.                                  *)
BoxOK ==
  \/ minus
  \/ damage = NoDamage /\ asked = {}
  \/ /\ damage.x0 # -1 /\ damage.y0 # -1
     /\ \A p \in asked : /\ damage.x0 <= p[1] /\ p[1] < damage.x1
                         /\ damage.y0 <= p[2] /\ p[2] < damage.y1

Wide == d.x1 - d.x0

(* What is drawn, and how it is cut.                                       *)
PieceOK ==
  dpc \in {"draw", "wait"} =>
    /\ d.x0 < d.x1
    /\ ~ minus => \A p \in asked : p \in Inside
    /\ dx = Width(Wide) /\ dy = Height(Wide)

(* Where the loop is.  Rows that are not split are drawn from their start. *)
LoopOK ==
  dpc = "draw" =>
    /\ d.x0 <= px /\ px < d.x1
    /\ d.y0 < d.y1 => d.y0 <= py /\ py < d.y1
    /\ ~ Split(Wide) => px = d.x0 /\ src = px + py * STRIDE

DrawIInv ==
  /\ DrawTypeOK /\ (Fits(Wide) => dlen <= BUFLEN)
  /\ BoxOK /\ PieceOK /\ LoopOK
  /\ dpc \in {"idle", "trap"} => DOMAIN drawn = {} /\ dlen = 0
  /\ Covered /\ NoGaps /\ RightPixels /\ TrapsOnEmpty

(* Multiplication, which the solver knows little of.                       *)
LEMMA MulLe ==
  ASSUME NEW a \in Nat, NEW b \in Nat, NEW c \in Nat, NEW e \in Nat, a <= c, b <= e
  PROVE  a * b <= c * e
<1> DEFINE k == c - a
           m == e - b
<1>1. k \in Nat /\ m \in Nat /\ c = a + k /\ e = b + m
  OBVIOUS
<1> HIDE DEF k, m
<1>2. c * e = a * b + a * m + k * e
  <2>1. c * e = a * e + k * e
    BY <1>1
  <2>2. a * e = a * b + a * m
    BY <1>1
  <2> QED
    BY <2>1, <2>2
<1>3. a * m \in Nat /\ k * e \in Nat /\ a * b \in Nat
  BY <1>1
<1> QED
  BY <1>2, <1>3

LEMMA Distributes ==
  ASSUME NEW a \in Int, NEW b \in Int, NEW s \in Int
  PROVE  (a + b) * s = a * s + b * s /\ (a - b) * s = a * s - b * s
OBVIOUS

LEMMA Quotient ==
  ASSUME NEW a \in Nat, NEW b \in Nat \ {0}
  PROVE  /\ a \div b \in Nat
         /\ b * (a \div b) <= a /\ a < b * (a \div b) + b
OBVIOUS

LEMMA RoomSize == Room \in Nat /\ Room >= 4 /\ BUFLEN = Room + 22
BY DrawAssumption DEF Room, DHEADER

(* A piece is not empty and fits.                                          *)
LEMMA Cut ==
  ASSUME NEW w \in Nat \ {0}
  PROVE  /\ Width(w) \in 1 .. w /\ Height(w) \in 1 .. Room
         /\ Fits(w) => 4 * (Width(w) * Height(w)) <= Room
         /\ ~ Split(w) => Width(w) = w
         /\ Split(w) => Height(w) = 1
<1>0. w \in Nat /\ w >= 1
  OBVIOUS
<1>1. CASE Split(w)
  <2> DEFINE q == (4 * w + Room - 1) \div Room
  <2>1. Width(w) = q /\ Height(w) = 1
    BY <1>1 DEF Width, Height, CeilDiv
  <2>2. q \in Nat /\ Room * q <= 4 * w + Room - 1 /\ 4 * w + Room - 1 < Room * q + Room
    <3>1. 4 * w + Room - 1 \in Nat /\ Room \in Nat \ {0}
      BY <1>0, RoomSize
    <3> QED
      BY <3>1, Quotient
  <2> HIDE DEF q
  <2>3. q # 0
    <3>1. q = 0 => Room * q = 0
      BY RoomSize
    <3> QED
      BY <3>1, <2>2, <1>0, RoomSize
  <2>4. q <= w
    <3> SUFFICES ASSUME w < q PROVE FALSE
      BY <2>2, <1>0
    <3>1. w * Room + Room <= q * Room
      BY <1>0, <2>2, RoomSize, MulMono
    <3>2. w * 4 <= w * Room
      BY <1>0, RoomSize, MulLe
    <3>3. q * Room = Room * q /\ w * 4 = 4 * w /\ w * Room \in Nat /\ Room * q \in Nat
      BY <1>0, <2>2, RoomSize
    <3> QED
      BY <3>1, <3>2, <3>3, <2>2, <1>0, RoomSize
  <2>5. ASSUME Fits(w) PROVE 4 * q <= Room
    <3> DEFINE k == Room \div 4
    <3>1. k \in Nat /\ 4 * k <= Room
      BY RoomSize, Quotient
    <3>2. 4 * w <= Room * k
      BY <2>5 DEF Fits
    <3> HIDE DEF k
    <3>3. ASSUME k < q PROVE FALSE
      <4>1. k * Room + Room <= q * Room
        BY <3>1, <3>3, <2>2, RoomSize, MulMono
      <4>2. q * Room = Room * q /\ k * Room = Room * k /\ Room * k \in Nat /\ Room * q \in Nat
        BY <3>1, <2>2, RoomSize
      <4> QED
        BY <3>2, <4>1, <4>2, <2>2, <1>0, RoomSize
    <3>4. q <= k
      BY <3>1, <3>3, <2>2
    <3> QED
      BY <3>1, <3>4, <2>2, RoomSize
  <2>6. q * 1 = q
    BY <2>2
  <2> QED
    BY <2>1, <2>2, <2>3, <2>4, <2>5, <2>6, <1>0, <1>1, RoomSize
<1>2. CASE ~ Split(w)
  <2> DEFINE q == Room \div (4 * w)
  <2>1. Width(w) = w /\ Height(w) = q
    BY <1>2 DEF Width, Height
  <2>2. 4 * w \in Nat \ {0} /\ 4 * w <= Room
    BY <1>0, <1>2, RoomSize DEF Split
  <2>3. q \in Nat /\ (4 * w) * q <= Room /\ Room < (4 * w) * q + 4 * w
    BY <2>2, RoomSize, Quotient
  <2> HIDE DEF q
  <2>4. q # 0
    <3>1. q = 0 => (4 * w) * q = 0
      BY <1>0
    <3> QED
      BY <3>1, <2>2, <2>3, RoomSize
  <2>5. q <= Room
    <3>1. 1 * q <= (4 * w) * q
      BY <2>2, <2>3, <1>0, MulLe
    <3>2. (4 * w) * q \in Nat
      BY <2>2, <2>3
    <3> QED
      BY <3>1, <3>2, <2>3, RoomSize
  <2>6. 4 * (w * q) = (4 * w) * q
    BY <1>0, <2>3
  <2> QED
    BY <2>1, <2>3, <2>4, <2>5, <2>6, <1>0, <1>2, RoomSize
<1> QED
  BY <1>1, <1>2

LEMMA DrawBounds ==
  /\ W \in Nat \ {0} /\ H \in Nat \ {0} /\ STRIDE \in Nat /\ ROWS \in Nat
  /\ Coord \subseteq Int /\ Extent \subseteq Int /\ MaxRequests \in Nat
BY DrawAssumption

(* Between draws there is only the damage to look after.                   *)
LEMMA IdleInv ==
  ASSUME DrawTypeOK, BoxOK, dpc = "idle", DOMAIN drawn = {}, dlen = 0
  PROVE  DrawIInv
<1>1. Covered
  BY DEF Covered, BoxOK
<1> QED
  BY <1>1, RoomSize DEF DrawIInv, PieceOK, LoopOK, NoGaps, RightPixels, TrapsOnEmpty

LEMMA DrawInitInv == DrawInit => DrawIInv
<1> SUFFICES ASSUME DrawInit PROVE DrawIInv
  OBVIOUS
<1>1. NoDamage \in Rectangle
  BY DEF NoDamage, Rectangle
<1>2. 0 \in 0 .. Room /\ 0 \in 0 .. MaxRequests
  BY DrawBounds, RoomSize
<1>3. drawn \in [DOMAIN drawn -> Int] /\ DOMAIN drawn = {}
  BY DEF DrawInit
<1>4. DrawTypeOK
  <2>1. /\ damage = NoDamage /\ d = NoDamage /\ asked = {} /\ requests = 0 /\ minus = FALSE
        /\ dx = 0 /\ dy = 0 /\ px = 0 /\ py = 0 /\ src = 0 /\ dlen = 0
        /\ tag = "none" /\ dpc = "idle"
    BY DEF DrawInit
  <2>2. minus \in BOOLEAN /\ asked \subseteq Pixels
    BY <2>1
  <2>3. dx \in Nat /\ {px, py, src, dlen} \subseteq Int
    BY <2>1
  <2> QED
    BY <1>1, <1>2, <1>3, <2>1, <2>2, <2>3 DEF DrawTypeOK
<1>5. BoxOK /\ dlen = 0 /\ dpc = "idle"
  BY DEF DrawInit, BoxOK
<1> QED
  BY <1>3, <1>4, <1>5, IdleInv

LEMMA IdleInvNext ==
  ASSUME DrawTypeOK', BoxOK', dpc' = "idle", DOMAIN drawn' = {}, dlen' = 0
  PROVE  DrawIInv'
<1>1. Covered'
  BY DEF Covered, BoxOK
<1> QED
  BY <1>1, RoomSize DEF DrawIInv, PieceOK, LoopOK, NoGaps, RightPixels, TrapsOnEmpty

(* The damage that a client adds.  A right or lower side of -1 is replaced *)
(* too, but no pixel of the window is on its left.                         *)
LEMMA DamageInv ==
  ASSUME DrawIInv, NEW x0 \in Coord, NEW y0 \in Coord, NEW w \in Extent, NEW h \in Extent,
         Damage(x0, y0, w, h)
  PROVE  DrawIInv'
<1>1. DrawTypeOK /\ BoxOK /\ dpc = "idle" /\ DOMAIN drawn = {} /\ dlen = 0
  BY DEF DrawIInv, Damage
<1>2. x0 \in Int /\ y0 \in Int /\ w \in Int /\ h \in Int
  BY DrawBounds
<1>3. /\ damage' = [x0 |-> Lower(damage.x0, x0), y0 |-> Lower(damage.y0, y0),
                    x1 |-> Upper(damage.x1, x0 + w), y1 |-> Upper(damage.y1, y0 + h)]
      /\ asked' = asked \cup {p \in Pixels : /\ x0 <= p[1] /\ p[1] < x0 + w
                                             /\ y0 <= p[2] /\ p[2] < y0 + h}
      /\ requests < MaxRequests /\ requests' = requests + 1
      /\ minus' = (minus \/ -1 \in {x0, y0})
      /\ d' = d /\ dx' = dx /\ dy' = dy /\ px' = px /\ py' = py /\ src' = src
      /\ drawn' = drawn /\ dlen' = dlen /\ tag' = tag /\ dpc' = dpc
  BY DEF Damage, rectv, loopv
<1>4. /\ damage'.x0 = Lower(damage.x0, x0) /\ damage'.y0 = Lower(damage.y0, y0)
      /\ damage'.x1 = Upper(damage.x1, x0 + w) /\ damage'.y1 = Upper(damage.y1, y0 + h)
  BY <1>3
<1>5. /\ \A p \in Pixels : p[1] \in Nat /\ p[2] \in Nat
      /\ asked \subseteq Pixels
  <2>1. \A p \in Pixels : p[1] \in Nat /\ p[2] \in Nat
    BY DrawBounds DEF Pixels
  <2>2. asked \subseteq Pixels
    BY <1>1 DEF DrawTypeOK
  <2> QED
    BY <2>1, <2>2
<1>6. damage.x0 \in Int /\ damage.y0 \in Int /\ damage.x1 \in Int /\ damage.y1 \in Int
  BY <1>1 DEF DrawTypeOK, Rectangle
<1>7. BoxOK'
  <2> SUFFICES ASSUME ~ minus'
               PROVE  /\ damage'.x0 # -1 /\ damage'.y0 # -1
                      /\ \A p \in asked' : /\ damage'.x0 <= p[1] /\ p[1] < damage'.x1
                                           /\ damage'.y0 <= p[2] /\ p[2] < damage'.y1
    BY DEF BoxOK
  <2>1. ~ minus /\ x0 # -1 /\ y0 # -1
    BY <1>3
  <2>2. CASE damage = NoDamage /\ asked = {}
    <3>1. damage'.x0 = x0 /\ damage'.y0 = y0 /\ damage'.x1 = x0 + w /\ damage'.y1 = y0 + h
      BY <1>4, <2>2 DEF Lower, Upper, NoDamage
    <3>2. \A p \in asked' : /\ x0 <= p[1] /\ p[1] < x0 + w
                            /\ y0 <= p[2] /\ p[2] < y0 + h
      BY <1>3, <2>2
    <3> QED
      BY <3>1, <3>2, <2>1
  <2>3. CASE ~ (damage = NoDamage /\ asked = {})
    <3>1. /\ damage.x0 # -1 /\ damage.y0 # -1
          /\ \A p \in asked : /\ damage.x0 <= p[1] /\ p[1] < damage.x1
                              /\ damage.y0 <= p[2] /\ p[2] < damage.y1
      BY <1>1, <2>1, <2>3 DEF BoxOK
    <3>2. /\ damage'.x0 # -1 /\ damage'.x0 <= damage.x0 /\ damage'.x0 <= x0
          /\ damage'.y0 # -1 /\ damage'.y0 <= damage.y0 /\ damage'.y0 <= y0
      BY <1>2, <1>4, <1>6, <2>1, <3>1 DEF Lower
    <3>3. /\ damage'.x1 >= x0 + w /\ damage.x1 # -1 => damage'.x1 >= damage.x1
          /\ damage'.y1 >= y0 + h /\ damage.y1 # -1 => damage'.y1 >= damage.y1
          /\ damage'.x1 >= x0 + w /\ damage'.y1 >= y0 + h
      BY <1>2, <1>4, <1>6 DEF Upper
    <3>4. \A p \in asked' : p[1] \in Nat /\ p[2] \in Nat
      BY <1>3, <1>5
    <3>5. /\ damage'.x0 \in Int /\ damage'.y0 \in Int /\ damage'.x1 \in Int /\ damage'.y1 \in Int
      BY <1>2, <1>4, <1>6 DEF Lower, Upper
    <3>6. ASSUME NEW p \in asked'
          PROVE  /\ damage'.x0 <= p[1] /\ p[1] < damage'.x1
                 /\ damage'.y0 <= p[2] /\ p[2] < damage'.y1
      <4>1. p[1] \in Nat /\ p[2] \in Nat
        BY <3>4
      <4>2. CASE p \in asked
        <5>1. /\ damage.x0 <= p[1] /\ p[1] < damage.x1
              /\ damage.y0 <= p[2] /\ p[2] < damage.y1
          BY <4>2, <3>1
        <5> QED
          BY <5>1, <4>1, <3>2, <3>3, <3>5, <1>6, <1>2
      <4>3. CASE p \notin asked
        <5>1. x0 <= p[1] /\ p[1] < x0 + w /\ y0 <= p[2] /\ p[2] < y0 + h
          BY <1>3, <4>3, <3>6
        <5> QED
          BY <5>1, <4>1, <3>2, <3>3, <3>5, <1>6, <1>2
      <4> QED
        BY <4>2, <4>3
    <3> QED
      BY <3>2, <3>6
  <2> QED
    BY <2>2, <2>3
<1>8. DrawTypeOK'
  <2>1. damage' \in Rectangle
    BY <1>2, <1>3, <1>6 DEF Rectangle, Lower, Upper
  <2>2. asked' \subseteq Pixels
    BY <1>3, <1>5
  <2>3. requests' \in 0 .. MaxRequests
    <3>1. requests \in 0 .. MaxRequests
      BY <1>1 DEF DrawTypeOK
    <3> QED
      BY <3>1, <1>3, DrawBounds
  <2>4. minus' \in BOOLEAN
    BY <1>1, <1>3 DEF DrawTypeOK
  <2> QED
    BY <2>1, <2>2, <2>3, <2>4, <1>1, <1>3 DEF DrawTypeOK
<1> QED
  BY <1>1, <1>3, <1>7, <1>8, IdleInvNext

(* A draw starts: of the damage, or of the whole window.                   *)
LEMMA StartDrawInv ==
  ASSUME DrawIInv, dpc = "idle", UNCHANGED damagev,
         NEW r \in Rectangle, StartDraw(r),
         ~ minus => \A p \in asked : /\ r.x0 <= p[1] /\ p[1] < r.x1
                                     /\ r.y0 <= p[2] /\ p[2] < r.y1
  PROVE  DrawIInv'
<1>1. /\ DrawTypeOK /\ BoxOK /\ dlen = 0 /\ DOMAIN drawn = {}
      /\ damage' = damage /\ asked' = asked /\ requests' = requests /\ minus' = minus
      /\ asked \subseteq Pixels
      /\ ~ minus /\ damage.x0 = -1 => asked = {}
  BY DEF DrawIInv, DrawTypeOK, damagev, Covered
<1>2. BoxOK'
  BY <1>1 DEF BoxOK
<1>3. \A p \in asked : p \in (0 .. W - 1) \X (0 .. H - 1)
  BY <1>1 DEF Pixels
<1> DEFINE w == r.x1 - r.x0
<1>4. d' = r /\ r.x0 \in Int /\ r.y0 \in Int /\ r.x1 \in Int /\ r.y1 \in Int
  BY DEF StartDraw, Rectangle
<1>5. CASE w <= 0
  <2>1. /\ dpc' = "trap" /\ dx' = dx /\ dy' = dy
        /\ px' = px /\ py' = py /\ src' = src /\ drawn' = drawn /\ dlen' = dlen /\ tag' = tag
    BY <1>5 DEF StartDraw, loopv
  <2>2. ASSUME ~ minus PROVE asked = {}
    <3> SUFFICES ASSUME NEW p \in asked PROVE FALSE
      OBVIOUS
    <3>1. r.x0 <= p[1] /\ p[1] < r.x1 /\ p[1] \in Int
      BY <1>3, <2>2, DrawBounds
    <3> QED
      BY <3>1, <1>4, <1>5
  <2>3. DrawTypeOK'
    BY <1>1, <1>4, <2>1 DEF DrawTypeOK
  <2>4. Covered' /\ TrapsOnEmpty'
    BY <1>1, <2>1, <2>2 DEF Covered, TrapsOnEmpty
  <2>5. dlen' = 0 /\ dlen' <= BUFLEN /\ DOMAIN drawn' = {}
    BY <1>1, <2>1, RoomSize
  <2> QED
    BY <1>2, <2>1, <2>3, <2>4, <2>5 DEF DrawIInv, PieceOK, LoopOK, NoGaps, RightPixels
<1>6. CASE ~ w <= 0
  <2>1. w \in Nat \ {0}
    BY <1>4, <1>6
  <2>2. /\ dpc' = "draw" /\ dx' = Width(w) /\ dy' = Height(w)
        /\ px' = r.x0 /\ py' = r.y0 /\ src' = Source(r)
        /\ drawn' = [p \in {} |-> 0] /\ dlen' = 0 /\ tag' = "none"
    BY <1>6 DEF StartDraw
  <2>3. Width(w) \in Nat /\ Height(w) \in 0 .. Room
    <3>1. Width(w) \in 1 .. w /\ Height(w) \in 1 .. Room
      BY <2>1, Cut
    <3> QED
      BY <3>1, RoomSize
  <2>4. d'.x1 - d'.x0 = w
    BY <1>4
  <2>5. r.x0 < r.x1
    BY <1>4, <1>6
  <2> HIDE DEF w
  <2>6. Source(r) = r.x0 + r.y0 * STRIDE /\ Source(r) \in Int
    BY <1>4, DrawBounds DEF Source
  <2>7. DOMAIN drawn' = {} /\ drawn' \in [DOMAIN drawn' -> Int]
    BY <2>2
  <2>8. DrawTypeOK'
    BY <1>1, <1>4, <2>2, <2>3, <2>6, <2>7 DEF DrawTypeOK
  <2>9. PieceOK'
    <3>1. ASSUME ~ minus, NEW p \in asked PROVE p \in (r.x0 .. r.x1 - 1) \X (r.y0 .. r.y1 - 1)
      <4>1. /\ r.x0 <= p[1] /\ p[1] < r.x1 /\ r.y0 <= p[2] /\ p[2] < r.y1
        BY <3>1
      <4>2. PICK x \in 0 .. W - 1, y \in 0 .. H - 1 : p = <<x, y>>
        BY <1>3, <3>1
      <4>3. x \in r.x0 .. r.x1 - 1 /\ y \in r.y0 .. r.y1 - 1
        BY <4>1, <4>2, <1>4, DrawBounds
      <4> QED
        BY <4>2, <4>3
    <3>2. ~ minus' => \A p \in asked' : p \in Inside'
      BY <1>1, <1>4, <3>1 DEF Inside
    <3> QED
      BY <3>2, <1>4, <2>2, <2>4, <2>5 DEF PieceOK, Wide
  <2>10. LoopOK'
    BY <1>4, <2>2, <2>5, <2>6 DEF LoopOK
  <2>11. NoGaps'
    <3>1. ASSUME NEW p \in Inside', Before(p)'
          PROVE  FALSE
      <4>1. p \in (r.x0 .. r.x1 - 1) \X (r.y0 .. r.y1 - 1)
        BY <3>1, <1>4 DEF Inside
      <4>2. p[1] >= r.x0 /\ p[2] >= r.y0 /\ p[1] \in Int /\ p[2] \in Int
        BY <4>1, <1>4
      <4>3. p[2] < r.y0 \/ (p[2] = r.y0 /\ p[1] < r.x0)
        BY <3>1, <2>2 DEF Before
      <4> QED
        BY <4>2, <4>3, <1>4
    <3> QED
      BY <3>1, <2>7 DEF NoGaps
  <2>12. dlen' <= BUFLEN
    BY <2>2, RoomSize
  <2>13. Covered' /\ RightPixels' /\ TrapsOnEmpty'
    BY <1>1, <2>2, <2>7 DEF Covered, RightPixels, TrapsOnEmpty
  <2> QED
    BY <1>2, <2>2, <2>8, <2>9, <2>10, <2>11, <2>12, <2>13 DEF DrawIInv
<1> QED
  BY <1>5, <1>6

LEMMA ToplevelCommitInv ==
  ASSUME DrawIInv, ToplevelCommit
  PROVE  DrawIInv'
<1> DEFINE r == [damage EXCEPT !.x1 = AtMost(@, W), !.y1 = AtMost(@, H)]
<1>1. /\ dpc = "idle" /\ damage.x0 # -1 /\ StartDraw(r)
      /\ UNCHANGED damagev
  BY DEF ToplevelCommit
<1>2. BoxOK /\ damage \in Rectangle /\ asked \subseteq Pixels
  BY DEF DrawIInv, DrawTypeOK
<1>3. /\ damage.x0 \in Int /\ damage.y0 \in Int /\ damage.x1 \in Int /\ damage.y1 \in Int
      /\ ~ minus => \A p \in asked : /\ damage.x0 <= p[1] /\ p[1] < damage.x1
                                     /\ damage.y0 <= p[2] /\ p[2] < damage.y1
  BY <1>1, <1>2 DEF BoxOK, NoDamage, Rectangle
<1>4. /\ r.x0 = damage.x0 /\ r.y0 = damage.y0
      /\ r.x1 = AtMost(damage.x1, W) /\ r.y1 = AtMost(damage.y1, H)
      /\ r \in Rectangle
  <2>1. AtMost(damage.x1, W) \in Int /\ AtMost(damage.y1, H) \in Int
    BY <1>3, DrawBounds DEF AtMost
  <2> QED
    BY <1>2, <2>1 DEF Rectangle
<1> HIDE DEF r
<1>5. ASSUME ~ minus, NEW p \in asked
      PROVE  /\ r.x0 <= p[1] /\ p[1] < r.x1
             /\ r.y0 <= p[2] /\ p[2] < r.y1
  <2>1. p[1] \in 0 .. W - 1 /\ p[2] \in 0 .. H - 1
    BY <1>2, <1>5 DEF Pixels
  <2> QED
    BY <2>1, <1>3, <1>4, <1>5, DrawBounds DEF AtMost
<1> QED
  BY <1>1, <1>4, <1>5, StartDrawInv

LEMMA MovedInv ==
  ASSUME DrawIInv, Moved
  PROVE  DrawIInv'
<1> DEFINE r == [x0 |-> 0, y0 |-> 0, x1 |-> W, y1 |-> H]
<1>1. dpc = "idle" /\ StartDraw(r) /\ UNCHANGED damagev
  BY DEF Moved
<1>2. r \in Rectangle /\ r.x0 = 0 /\ r.y0 = 0 /\ r.x1 = W /\ r.y1 = H
  BY DrawBounds DEF Rectangle
<1> HIDE DEF r
<1>3. \A p \in asked : /\ r.x0 <= p[1] /\ p[1] < r.x1
                       /\ r.y0 <= p[2] /\ p[2] < r.y1
  <2>1. asked \subseteq Pixels
    BY DEF DrawIInv, DrawTypeOK
  <2>2. \A p \in Pixels : p[1] \in 0 .. W - 1 /\ p[2] \in 0 .. H - 1
    BY DEF Pixels
  <2> QED
    BY <2>1, <2>2, <1>2, DrawBounds
<1> QED
  BY <1>1, <1>2, <1>3, StartDrawInv

(* Where a piece of the loop lies.                                         *)
LEMMA PieceLies ==
  ASSUME DrawIInv, dpc = "draw"
  PROVE  /\ px \in Int /\ py \in Int /\ src \in Int
         /\ d.x0 \in Int /\ d.y0 \in Int /\ d.x1 \in Int /\ d.y1 \in Int
         /\ d.x0 <= px /\ px < X1 /\ X1 <= d.x1 /\ X1 \in Int
         /\ Rows \in Nat /\ 4 * ((X1 - px) * Rows) \in Nat
         /\ Fits(Wide) => 4 * ((X1 - px) * Rows) <= Room
         /\ Y1 \in Int /\ Y1 <= d.y1
         /\ Rows > 0 => Y1 = py + Rows
         /\ d.y0 < d.y1 => d.y0 <= py /\ Rows > 0
         /\ Split(Wide) => Rows <= 1
         /\ ~ Split(Wide) => RowEnds /\ px = d.x0 /\ src = px + py * STRIDE
<1>1. /\ px \in Int /\ py \in Int /\ src \in Int
      /\ d.x0 \in Int /\ d.y0 \in Int /\ d.x1 \in Int /\ d.y1 \in Int
      /\ d.x0 < d.x1 /\ dx = Width(Wide) /\ dy = Height(Wide)
      /\ d.x0 <= px /\ px < d.x1
      /\ d.y0 < d.y1 => d.y0 <= py /\ py < d.y1
      /\ ~ Split(Wide) => px = d.x0 /\ src = px + py * STRIDE
  <2>1. px \in Int /\ py \in Int /\ src \in Int /\ d \in Rectangle
    BY DEF DrawIInv, DrawTypeOK
  <2>2. PieceOK /\ LoopOK
    BY DEF DrawIInv
  <2> QED
    BY <2>1, <2>2 DEF PieceOK, LoopOK, Rectangle
<1>2. Wide \in Nat \ {0} /\ Wide = d.x1 - d.x0
  BY <1>1 DEF Wide
<1>3. /\ dx \in 1 .. Wide /\ dy \in 1 .. Room
      /\ Fits(Wide) => 4 * (dx * dy) <= Room
      /\ ~ Split(Wide) => dx = Wide
      /\ Split(Wide) => dy = 1
  BY <1>1, <1>2, Cut
<1>4. X1 \in Int /\ px < X1 /\ X1 <= d.x1 /\ X1 - px <= dx
  BY <1>1, <1>2, <1>3 DEF X1, AtMost
<1>5. Y1 \in Int /\ Y1 <= d.y1 /\ Y1 - py <= dy
  BY <1>1, <1>3, RoomSize DEF Y1, AtMost
<1>6. /\ Rows \in Nat /\ Rows <= dy
      /\ Rows > 0 => Y1 = py + Rows
  BY <1>1, <1>3, <1>5, RoomSize DEF Rows
<1>7. d.y0 < d.y1 => Rows > 0
  <2> SUFFICES ASSUME d.y0 < d.y1 PROVE Rows > 0
    OBVIOUS
  <2>1. py < Y1
    BY <1>1, <1>3, RoomSize DEF Y1, AtMost
  <2> QED
    BY <2>1, <1>1, <1>5 DEF Rows
<1>8. /\ 4 * ((X1 - px) * Rows) \in Nat
      /\ Fits(Wide) => 4 * ((X1 - px) * Rows) <= Room
  <2> DEFINE a == X1 - px
  <2>1. a \in Nat /\ a <= dx /\ dx \in Nat /\ dy \in Nat
    BY <1>1, <1>2, <1>3, <1>4, RoomSize
  <2> HIDE DEF a
  <2>2. a * Rows <= dx * dy
    BY <2>1, <1>6, MulLe
  <2>3. a * Rows \in Nat /\ dx * dy \in Nat
    BY <2>1, <1>6
  <2>4. 4 * (a * Rows) \in Nat /\ (Fits(Wide) => 4 * (a * Rows) <= Room)
    BY <2>2, <2>3, <1>3, RoomSize
  <2> QED
    BY <2>4 DEF a
<1>9. ~ Split(Wide) => RowEnds
  BY <1>1, <1>2, <1>3 DEF RowEnds, X1, AtMost
<1>10. Split(Wide) => Rows <= 1
  BY <1>3, <1>6
<1> QED
  BY <1>1, <1>4, <1>5, <1>6, <1>7, <1>8, <1>9, <1>10

LEMMA DrawPieceInv ==
  ASSUME DrawIInv, DrawPiece
  PROVE  DrawIInv'
<1> DEFINE bytes == DHEADER - 1 + 4 * (X1 - px) * Rows + IF LastMessage THEN 1 ELSE 0
<1>0. DrawTypeOK /\ BoxOK /\ PieceOK /\ NoGaps /\ RightPixels /\ Covered /\ dpc = "draw"
  BY DEF DrawIInv, DrawPiece
<1>1. /\ drawn' = [p \in DOMAIN drawn \cup Piece |->
                     IF p \in Piece THEN src + (p[1] - px) + (p[2] - py) * STRIDE
                     ELSE drawn[p]]
      /\ src' = src + Rows * STRIDE
      /\ px' = IF RowEnds THEN d.x0 ELSE X1
      /\ py' = NextY
      /\ dlen' = bytes
      /\ tag' = IF bytes <= LIMIT THEN "given" ELSE "none"
      /\ dpc' = IF LastMessage \/ bytes > LIMIT THEN "wait" ELSE "draw"
      /\ damage' = damage /\ asked' = asked /\ requests' = requests /\ minus' = minus
      /\ d' = d /\ dx' = dx /\ dy' = dy
  BY DEF DrawPiece, rectv, damagev
<1>2. /\ px \in Int /\ py \in Int /\ src \in Int
      /\ d.x0 \in Int /\ d.y0 \in Int /\ d.x1 \in Int /\ d.y1 \in Int
      /\ d.x0 <= px /\ px < X1 /\ X1 <= d.x1 /\ X1 \in Int
      /\ Rows \in Nat /\ 4 * ((X1 - px) * Rows) \in Nat
      /\ Fits(Wide) => 4 * ((X1 - px) * Rows) <= Room
      /\ Y1 \in Int /\ Y1 <= d.y1
      /\ Rows > 0 => Y1 = py + Rows
      /\ d.y0 < d.y1 => d.y0 <= py /\ Rows > 0
      /\ Split(Wide) => Rows <= 1
      /\ ~ Split(Wide) => RowEnds /\ px = d.x0 /\ src = px + py * STRIDE
  BY <1>0, PieceLies
<1>3. bytes \in Nat /\ (Fits(Wide) => bytes <= BUFLEN)
  <2> DEFINE b == 4 * ((X1 - px) * Rows)
  <2>1. 4 * (X1 - px) * Rows = b
    BY <1>2
  <2>2. b \in Nat /\ (Fits(Wide) => b <= Room)
    BY <1>2
  <2> HIDE DEF b
  <2>3. bytes = 21 + b + IF LastMessage THEN 1 ELSE 0
    BY <2>1 DEF DHEADER
  <2> HIDE DEF bytes
  <2> QED
    BY <2>2, <2>3, RoomSize
<1> HIDE DEF bytes
<1>4. /\ dpc' \in {"draw", "wait"} /\ tag' \in {"none", "given"}
      /\ dpc' = "draw" => ~ LastMessage
      /\ dpc' = "wait" /\ tag' = "given" => LastMessage
  BY <1>1, <1>3, DrawBounds, DrawAssumption
<1>5. \A p \in Piece : p[1] \in px .. X1 - 1 /\ p[2] \in py .. Y1 - 1
  BY DEF Piece
<1>6. NextY \in Int /\ py' \in Int /\ NextY = IF RowEnds THEN py + Rows ELSE py + Rows - 1
  BY <1>1, <1>2 DEF NextY
<1>7. RowEnds <=> X1 = d.x1
  BY DEF RowEnds
<1>8. DrawTypeOK'
  <2>1. drawn \in [DOMAIN drawn -> Int]
    BY <1>0 DEF DrawTypeOK
  <2>2. \A p \in Piece : src + (p[1] - px) + (p[2] - py) * STRIDE \in Int
    BY <1>2, <1>5, DrawBounds
  <2>3. drawn' \in [DOMAIN drawn' -> Int]
    BY <2>1, <2>2, <1>1
  <2>4. src' \in Int /\ px' \in Int /\ dlen' \in Int
    BY <1>1, <1>2, <1>3, <1>7, DrawBounds, RoomSize
  <2>5. dpc' \in {"idle", "draw", "wait", "trap"}
    BY <1>4
  <2>6. /\ damage' \in Rectangle /\ d' \in Rectangle
        /\ asked' \subseteq Pixels /\ requests' \in 0 .. MaxRequests /\ minus' \in BOOLEAN
        /\ dx' \in Nat /\ dy' \in 0 .. Room
    BY <1>0, <1>1 DEF DrawTypeOK
  <2> QED
    BY <2>3, <2>4, <2>5, <2>6, <1>4, <1>6 DEF DrawTypeOK
<1>9. BoxOK'
  BY <1>0, <1>1 DEF BoxOK
<1>10. PieceOK'
  BY <1>0, <1>1 DEF PieceOK, Inside, Wide
<1>11. LoopOK'
  <2> SUFFICES ASSUME dpc' = "draw"
               PROVE  /\ d.x0 <= px' /\ px' < d.x1
                      /\ d.y0 < d.y1 => d.y0 <= py' /\ py' < d.y1
                      /\ ~ Split(Wide) => px' = d.x0 /\ src' = px' + py' * STRIDE
    BY <1>1 DEF LoopOK, Wide
  <2>1. d.x0 <= px' /\ px' < d.x1
    BY <1>1, <1>2, <1>7
  <2>2. ASSUME d.y0 < d.y1 PROVE d.y0 <= py' /\ py' < d.y1
    <3>1. py' # d.y1
      BY <1>1, <1>4 DEF LastMessage
    <3> QED
      BY <2>2, <3>1, <1>1, <1>2, <1>6
  <2>3. ASSUME ~ Split(Wide) PROVE px' = d.x0 /\ src' = px' + py' * STRIDE
    <3>1. py' = py + Rows /\ px' = px /\ src = px + py * STRIDE
      BY <2>3, <1>1, <1>2, <1>6
    <3>2. (py + Rows) * STRIDE = py * STRIDE + Rows * STRIDE
      BY <1>2, DrawBounds, Distributes
    <3>3. py * STRIDE \in Int /\ Rows * STRIDE \in Int
      BY <1>2, DrawBounds
    <3> QED
      BY <3>1, <3>2, <3>3, <2>3, <1>1, <1>2
  <2> QED
    BY <2>1, <2>2, <2>3
(* What is drawn after the piece.                                          *)
<1>12. ASSUME d.y0 < d.y1
       PROVE  DOMAIN drawn' = {p \in Inside : Before(p)'}
  <2>0. DOMAIN drawn = {p \in Inside : Before(p)}
    BY <1>0, <1>12 DEF NoGaps
  <2>1. DOMAIN drawn' = DOMAIN drawn \cup Piece
    BY <1>1
  <2>2. Y1 = py + Rows /\ Rows > 0 /\ d.y0 <= py
    BY <1>2, <1>12
  <2>3. ASSUME NEW x \in d.x0 .. d.x1 - 1, NEW y \in d.y0 .. d.y1 - 1
        PROVE  <<x, y>> \in DOMAIN drawn \cup Piece <=> Before(<<x, y>>)'
    <3>1. <<x, y>> \in Piece <=> px <= x /\ x < X1 /\ py <= y /\ y < py + Rows
      BY <1>2, <2>2, <2>3 DEF Piece
    <3>2. <<x, y>> \in DOMAIN drawn <=> y < py \/ (y = py /\ x < px)
      BY <2>0, <2>3 DEF Inside, Before
    <3>3. Before(<<x, y>>)' <=> y < py' \/ (y = py' /\ x < px')
      BY DEF Before
    <3>4. d.x0 <= x /\ x < d.x1 /\ d.y0 <= y /\ y < d.y1
      BY <1>2
    <3>5. x \in Int /\ y \in Int
      BY <1>2
    <3>6. CASE RowEnds
      <4>1. py' = py + Rows /\ px' = d.x0 /\ X1 = d.x1
        BY <3>6, <1>1, <1>6, <1>7
      <4>2. CASE Split(Wide)
        <5>1. Rows = 1
          BY <4>2, <1>2, <2>2
        <5> QED
          BY <3>1, <3>2, <3>3, <3>4, <3>5, <4>1, <5>1, <1>2, <2>2
      <4>3. CASE ~ Split(Wide)
        <5>1. px = d.x0
          BY <4>3, <1>2
        <5> QED
          BY <3>1, <3>2, <3>3, <3>4, <3>5, <4>1, <5>1, <1>2, <2>2
      <4> QED
        BY <4>2, <4>3
    <3>7. CASE ~ RowEnds
      <4>1. Rows = 1
        BY <3>7, <1>2, <2>2
      <4>2. py' = py /\ px' = X1
        BY <3>7, <4>1, <1>1, <1>2, <1>6
      <4> QED
        BY <3>1, <3>2, <3>3, <3>4, <3>5, <4>1, <4>2, <1>2, <2>2
    <3> QED
      BY <3>6, <3>7
  <2>4. Piece \subseteq Inside
    <3> SUFFICES ASSUME NEW x \in px .. X1 - 1, NEW y \in py .. Y1 - 1
                 PROVE  <<x, y>> \in Inside
      BY DEF Piece
    <3>1. x \in d.x0 .. d.x1 - 1 /\ y \in d.y0 .. d.y1 - 1
      BY <1>2, <2>2
    <3> QED
      BY <3>1 DEF Inside
  <2>5. \A p \in Inside : p \in DOMAIN drawn' <=> Before(p)'
    <3> SUFFICES ASSUME NEW x \in d.x0 .. d.x1 - 1, NEW y \in d.y0 .. d.y1 - 1
                 PROVE  <<x, y>> \in DOMAIN drawn' <=> Before(<<x, y>>)'
      BY DEF Inside
    <3> QED
      BY <2>1, <2>3
  <2>6. DOMAIN drawn' \subseteq Inside
    BY <2>0, <2>1, <2>4
  <2> QED
    BY <2>5, <2>6
<1>13. NoGaps'
  BY <1>1, <1>12 DEF NoGaps, Inside
<1>14. Covered'
  <2> SUFFICES ASSUME ~ minus, dpc' = "wait", tag' = "given", NEW p \in asked
               PROVE  p \in DOMAIN drawn'
    BY <1>0, <1>1 DEF Covered
  <2>1. p \in Inside
    BY <1>0 DEF PieceOK
  <2>2. p[1] \in Int /\ p[2] \in Int /\ d.y0 <= p[2] /\ p[2] < d.y1
    BY <2>1, <1>2 DEF Inside
  <2>3. d.y0 < d.y1
    BY <2>2, <1>2
  <2>4. py' = d.y1
    BY <1>1, <1>4 DEF LastMessage
  <2>5. Before(p)'
    BY <2>2, <2>4 DEF Before
  <2> QED
    BY <2>1, <2>3, <2>5, <1>12
<1>15. RightPixels'
  <2> SUFFICES ASSUME ~ Split(Wide), NEW p \in DOMAIN drawn'
               PROVE  drawn'[p] = p[1] + p[2] * STRIDE
    BY <1>1 DEF RightPixels, Wide
  <2>1. CASE p \in Piece
    <3>1. p[1] \in Int /\ p[2] \in Int
      BY <2>1, <1>5
    <3>2. drawn'[p] = src + (p[1] - px) + (p[2] - py) * STRIDE
      BY <2>1, <1>1
    <3>3. src = px + py * STRIDE
      BY <1>2
    <3>4. (p[2] - py) * STRIDE = p[2] * STRIDE - py * STRIDE
      BY <3>1, <1>2, DrawBounds, Distributes
    <3>5. p[2] * STRIDE \in Int /\ py * STRIDE \in Int
      BY <3>1, <1>2, DrawBounds
    <3> QED
      BY <3>1, <3>2, <3>3, <3>4, <3>5, <1>2
  <2>2. CASE p \notin Piece
    <3>1. p \in DOMAIN drawn /\ drawn'[p] = drawn[p]
      BY <2>2, <1>1
    <3> QED
      BY <3>1, <1>0 DEF RightPixels, Wide
  <2> QED
    BY <2>1, <2>2
<1>16. TrapsOnEmpty' /\ (Fits(Wide)' => dlen' <= BUFLEN)
  <2>1. Fits(Wide)' => dlen' <= BUFLEN
    BY <1>1, <1>3, RoomSize DEF Fits, Wide
  <2> QED
    BY <2>1, <1>4 DEF TrapsOnEmpty
<1> QED
  BY <1>4, <1>8, <1>9, <1>10, <1>11, <1>13, <1>14, <1>15, <1>16 DEF DrawIInv

LEMMA DrawDoneInv ==
  ASSUME DrawIInv, DrawDone
  PROVE  DrawIInv'
<1>1. /\ damage' = NoDamage /\ asked' = {} /\ requests' = 0 /\ minus' = FALSE
      /\ d' = NoDamage /\ dx' = 0 /\ dy' = 0
      /\ px' = 0 /\ py' = 0 /\ src' = 0 /\ drawn' = [p \in {} |-> 0] /\ dlen' = 0
      /\ tag' = "none" /\ dpc' = "idle"
  BY DEF DrawDone, Return
<1>2. NoDamage \in Rectangle
  BY DEF NoDamage, Rectangle
<1>3. 0 \in 0 .. Room /\ 0 \in 0 .. MaxRequests
  BY DrawBounds, RoomSize
<1>4. drawn' \in [DOMAIN drawn' -> Int] /\ DOMAIN drawn' = {}
  BY <1>1
<1>5. DrawTypeOK'
  <2>1. minus' \in BOOLEAN /\ asked' \subseteq Pixels
    BY <1>1
  <2>2. dx' \in Nat /\ {px', py', src', dlen'} \subseteq Int
    BY <1>1
  <2> QED
    BY <1>1, <1>2, <1>3, <1>4, <2>1, <2>2 DEF DrawTypeOK
<1>6. BoxOK'
  BY <1>1 DEF BoxOK
<1> QED
  BY <1>1, <1>4, <1>5, <1>6, IdleInvNext

LEMMA DrawStutterInv ==
  ASSUME DrawIInv, UNCHANGED drawv
  PROVE  DrawIInv'
<1>1. /\ damage' = damage /\ asked' = asked /\ requests' = requests /\ minus' = minus
      /\ d' = d /\ dx' = dx /\ dy' = dy /\ px' = px /\ py' = py /\ src' = src
      /\ drawn' = drawn /\ dlen' = dlen /\ tag' = tag /\ dpc' = dpc
  BY DEF drawv, rectv, loopv, damagev
<1>2. DrawTypeOK' /\ BoxOK' /\ PieceOK' /\ LoopOK'
  BY <1>1 DEF DrawIInv, DrawTypeOK, BoxOK, PieceOK, LoopOK, Inside, Wide
<1>3. Covered' /\ NoGaps' /\ RightPixels' /\ TrapsOnEmpty'
  BY <1>1 DEF DrawIInv, Covered, NoGaps, RightPixels, TrapsOnEmpty, Inside, Before
<1>4. Fits(Wide)' => dlen' <= BUFLEN
  BY <1>1 DEF DrawIInv, Fits, Wide
<1> QED
  BY <1>1, <1>2, <1>3, <1>4 DEF DrawIInv

LEMMA DrawNextInv == DrawIInv /\ [DrawNext]_drawv => DrawIInv'
<1> SUFFICES ASSUME DrawIInv, [DrawNext]_drawv PROVE DrawIInv'
  OBVIOUS
<1>1. Trapped => UNCHANGED drawv
  BY DEF Trapped
<1> QED
  BY <1>1, DamageInv, ToplevelCommitInv, MovedInv, DrawPieceInv, DrawDoneInv, DrawStutterInv
  DEF DrawNext

LEMMA DrawInvariance == DrawSpec => []DrawIInv
BY DrawInitInv, DrawNextInv, PTL DEF DrawSpec

(* A pixel inside the buffer is none beside it: the rows before it are     *)
(* whole.                                                                  *)
LEMMA StaysInBuffer == DrawIInv => InBuffer
<1> SUFFICES ASSUME DrawIInv, ~ Split(d.x1 - d.x0), d.y0 < d.y1,
                    0 <= d.x0, d.x1 <= STRIDE, 0 <= d.y0, d.y1 <= ROWS,
                    NEW p \in DOMAIN drawn
             PROVE  0 <= drawn[p] /\ drawn[p] < STRIDE * ROWS
  BY DEF InBuffer
<1>1. d.x0 \in Int /\ d.x1 \in Int /\ d.y0 \in Int /\ d.y1 \in Int
  BY DEF DrawIInv, DrawTypeOK, Rectangle
<1>2. drawn[p] = p[1] + p[2] * STRIDE
  BY DEF DrawIInv, RightPixels
<1>3. dpc \in {"draw", "wait"}
  BY DEF DrawIInv, DrawTypeOK
<1>4. p \in Inside
  BY <1>3 DEF DrawIInv, NoGaps
<1>5. p[1] \in Nat /\ p[2] \in Nat /\ p[1] < STRIDE /\ p[2] < ROWS
  BY <1>1, <1>4, DrawBounds DEF Inside
<1>6. p[2] * STRIDE + STRIDE <= ROWS * STRIDE
  BY <1>5, DrawBounds, MulMono
<1>7. p[2] * STRIDE \in Nat /\ ROWS * STRIDE = STRIDE * ROWS /\ STRIDE * ROWS \in Nat
  BY <1>5, DrawBounds
<1> QED
  BY <1>2, <1>5, <1>6, <1>7, DrawBounds

(* What was damaged is drawn, whatever the rectangles, the sizes of window *)
(* and buffer and draw.buf: all of it, in order, each pixel its own, and   *)
(* only an empty rectangle stops the program.  Damage that begins at -1    *)
(* may be lost, split rows show other pixels, and only what is inside the  *)
(* buffer is sure to be read from it (wl9.c:165-205, 828-835, 1136-1153).  *)
THEOREM DamageIsDrawn == DrawSpec => []DamageDrawn
<1>1. DrawIInv => DamageDrawn
  BY StaysInBuffer DEF DrawIInv, DamageDrawn
<1> QED
  BY <1>1, DrawInvariance, PTL

(* No message is longer than draw.buf for a row of up to about the square  *)
(* of a quarter of it, whatever the rectangles, although the rows of a     *)
(* message are counted before it is known how many are left                *)
(* (wl9.c:189, 197, 1145-1150).                                            *)
THEOREM MessagesFitDraw == DrawSpec => []MessageFits
<1>1. DrawIInv => MessageFits
  BY DEF DrawIInv, MessageFits, Wide
<1> QED
  BY <1>1, DrawInvariance, PTL

=============================================================================
