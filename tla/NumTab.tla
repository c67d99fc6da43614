------------------------------- MODULE NumTab -------------------------------
(***************************************************************************)
(* struct numtab of util.c: a growable table of machine words in which a   *)
(* set bit is a free number.  numget clears the lowest set bit of the      *)
(* first word that has one, or grows the table by a word; numput sets the  *)
(* bit again.  Both walk words and bits, so every number is split into a   *)
(* word index and a bit index.                                             *)
(*                                                                         *)
(* IdPool says what the callers expect of the pair; Pool!Spec below.       *)
(***************************************************************************)
EXTENDS Integers, Sequences

CONSTANTS
  ENTBIT,    \* bits of an unsigned long
  MaxLen     \* model bound: words the table may grow to

ASSUME EntBitAssumption == ENTBIT \in Nat \ {0, 1}
ASSUME MaxLenAssumption == MaxLen \in Nat

VARIABLES
  ent,    \* the words, each the set of its set (free) bits
  call,   \* the last call: the operation and its argument
  res     \* the value it returned

numvars == <<ent, call, res>>

(* Only the two functions change the table; each action names its call.    *)
Called(op, num) == call' = [op |-> op, num |-> num]

Bit == 0 .. ENTBIT - 1

Shl1Unwrapped(n) == {n}

Shl1OffByOne(n) == {(n % ENTBIT) + 1}

(* The bits that 1ul << n sets.  A count below the width is defined by C;  *)
(* for a larger one, which numget computes for every word but the first,   *)
(* the shift instruction of the 64-bit targets takes the count modulo the  *)
(* width.                                                                  *)
Shl1(n) == {n % ENTBIT}

(* ent - tab->ent counts from 0, a TLA+ sequence from 1.                   *)
NumberOf(i, b) == (i - 1) * ENTBIT + b

Lowest(S) == CHOOSE x \in S : \A y \in S : x <= y

NumInit ==
  /\ ent = <<>>
  /\ call = [op |-> "none", num |-> 0]
  /\ res = 0

(* The loop over the words finds one with a free bit.                      *)
NumgetFound ==
  LET words == {i \in 1 .. Len(ent) : ent[i] # {}}
      i     == Lowest(words)
      num   == NumberOf(i, Lowest(ent[i]))
  IN  /\ Called("numget", 0)
      /\ words # {}
      /\ ent' = [ent EXCEPT ![i] = @ \ Shl1(num)]
      /\ res' = num

(* All words are exhausted: realloc adds one with bit 0 already cleared    *)
(* (-2ul).                                                                 *)
NumgetGrow ==
  /\ Called("numget", 0)
  /\ \A i \in 1 .. Len(ent) : ent[i] = {}
  /\ Len(ent) < MaxLen
  /\ ent' = Append(ent, Bit \ {0})
  /\ res' = Len(ent) * ENTBIT

(* realloc fails; the table is left as it was.                             *)
NumgetNoMemory ==
  /\ Called("numget", 0)
  /\ \A i \in 1 .. Len(ent) : ent[i] = {}
  /\ res' = -1
  /\ UNCHANGED ent

(* Past the early returns of numput: the number is not negative, lies in     *)
(* the table, and is not free already.                                     *)
NumputAccepts(num) ==
  /\ num >= 0
  /\ num \div ENTBIT < Len(ent)
  /\ num % ENTBIT \notin ent[num \div ENTBIT + 1]

Numput(num) ==
  /\ Called("numput", num)
  /\ NumputAccepts(num)
  /\ ent' = [ent EXCEPT ![num \div ENTBIT + 1] = @ \cup Shl1(num % ENTBIT)]
  /\ res' = 0

NumputRefused(num) ==
  /\ Called("numput", num)
  /\ ~ NumputAccepts(num)
  /\ res' = -1
  /\ UNCHANGED ent

(* numput is called with -1 (a fid that was never walked) and with NOTAG.  *)
Argument == -1 .. MaxLen * ENTBIT

NumNext ==
  \/ NumgetFound
  \/ NumgetGrow
  \/ NumgetNoMemory
  \/ \E num \in Argument : Numput(num) \/ NumputRefused(num)

NumSpec == NumInit /\ [][NumNext]_numvars

-----------------------------------------------------------------------------
NumTypeOK ==
  /\ ent \in Seq(SUBSET Bit)
  /\ Len(ent) <= MaxLen
  /\ call \in [op : {"none", "numget", "numput"}, num : Argument]
  /\ res \in -1 .. MaxLen * ENTBIT

(* The numbers that are handed out: the clear bits of a table.             *)
OutOf(words) ==
  UNION {{NumberOf(i, b) : b \in Bit \ words[i]} : i \in 1 .. Len(words)}

Out == OutOf(ent)

Pool == INSTANCE IdPool WITH out <- Out

(* numget and numput implement the pool: no number is handed out twice,    *)
(* the smallest free one is taken, and only a number that is out is taken  *)
(* back, for every word of the table.                                      *)
ImplementsPool == Pool!Spec
=============================================================================
