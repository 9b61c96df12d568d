--------------------------- MODULE CommandBusProofs ---------------------------
(***************************************************************************)
(* Proofs about CommandBus, for any people, machines, mails and POSTs, and *)
(* about the rules of EmailRules, for any text.                            *)
(***************************************************************************)
EXTENDS CommandBus, SequenceTheorems, WellFoundedInduction, TLAPS

-----------------------------------------------------------------------------
(* Positions in a text *)

Earlier == OpToRel(<, Nat)

(***************************************************************************)
(* Whatever is wanted of a text is found at a first and at a last          *)
(* position, or nowhere. The library's theorem on well-founded sets serves *)
(* where induction would.                                                  *)
(***************************************************************************)
LEMMA LeastExists ==
  ASSUME NEW I \in SUBSET Nat, I # {}
  PROVE  \E x \in I : \A y \in I : x <= y
<1>1. IsWellFoundedOn(Earlier, Nat)
  BY NatLessThanWellFounded DEF Earlier
<1>2. PICK x \in I : \A y \in I : <<y, x>> \notin Earlier
  BY <1>1, WFMin
<1>3. ASSUME NEW y \in I PROVE x <= y
  <2>1. ~ (y < x)
    BY <1>2 DEF Earlier, OpToRel
  <2> QED
    BY <2>1
<1> QED
  BY <1>3

LEMMA GreatestExists ==
  ASSUME NEW n \in Nat, NEW I \in SUBSET (1..n), I # {}
  PROVE  \E x \in I : \A y \in I : x >= y
<1> DEFINE J == {n - i : i \in I}
<1>1. J \in SUBSET Nat
  OBVIOUS
<1>2. J # {}
  <2>1. PICK i : i \in I
    OBVIOUS
  <2>2. n - i \in J
    BY <2>1
  <2> QED
    BY <2>2
<1>3. PICK j \in J : \A k \in J : j <= k
  <2> HIDE DEF J
  <2> QED BY <1>1, <1>2, LeastExists
<1>4. PICK x \in I : j = n - x
  OBVIOUS
<1>5. ASSUME NEW y \in I PROVE x >= y
  <2>1. n - x <= n - y
    BY <1>3, <1>4
  <2> QED
    BY <2>1
<1> QED
  BY <1>5

(***************************************************************************)
(* The least and the greatest of the positions of a text that fit, as the  *)
(* library's search operators choose them.                                 *)
(***************************************************************************)
LEMMA FirstPosition ==
  ASSUME NEW n \in Nat, NEW I \in SUBSET (1..n)
  PROVE  LET k == IF I # {} THEN Min(I) ELSE 0
         IN  \/ k = 0 /\ I = {}
             \/ k \in I /\ \A i \in 1..(k - 1) : i \in 1..n /\ i \notin I
<1>1. CASE I = {}
  BY <1>1
<1>2. CASE I # {}
  <2>1. \E x \in I : \A y \in I : x =< y
    BY <1>2, LeastExists
  <2>2. PICK m \in I : m = Min(I) /\ \A y \in I : m <= y
    BY <1>2, <2>1 DEF Min
  <2>3. m \in 1..n
    OBVIOUS
  <2>4. ASSUME NEW i \in 1..(m - 1) PROVE i \in 1..n /\ i \notin I
    BY <2>2, <2>3
  <2> QED
    BY <1>2, <2>2, <2>4
<1> QED
  BY <1>1, <1>2

LEMMA LastPosition ==
  ASSUME NEW n \in Nat, NEW I \in SUBSET (1..n)
  PROVE  LET k == IF I # {} THEN Max(I) ELSE 0
         IN  \/ k = 0 /\ I = {}
             \/ k \in I /\ \A i \in (k + 1)..n : i \in 1..n /\ i \notin I
<1>1. CASE I = {}
  BY <1>1
<1>2. CASE I # {}
  <2>1. \E x \in I : \A y \in I : x >= y
    BY <1>2, GreatestExists
  <2>2. PICK m \in I : m = Max(I) /\ \A y \in I : m >= y
    BY <1>2, <2>1 DEF Max
  <2>3. m \in 1..n
    OBVIOUS
  <2>4. ASSUME NEW i \in (m + 1)..n PROVE i \in 1..n /\ i \notin I
    BY <2>2, <2>3
  <2> QED
    BY <1>2, <2>2, <2>4
<1> QED
  BY <1>1, <1>2

LEMMA FirstHistory ==
  ASSUME NEW S, NEW text \in Seq(S)
  PROVE  LET k == SelectInSeq(text, History)
         IN  \/ k = 0 /\ \A i \in 1..Len(text) : ~ History(text[i])
             \/ /\ k \in 1..Len(text) /\ History(text[k])
                /\ \A i \in 1..(k - 1) : ~ History(text[i])
<1> DEFINE I == {i \in 1..Len(text) : History(text[i])}
           k == IF I # {} THEN Min(I) ELSE 0
<1>1. SelectInSeq(text, History) = k
  BY DEF SelectInSeq
<1>2. \/ k = 0 /\ \A i \in 1..Len(text) : i \notin I
      \/ k \in I /\ \A i \in 1..(k - 1) : i \in 1..Len(text) /\ i \notin I
  <2>1. Len(text) \in Nat /\ I \in SUBSET (1..Len(text))
    OBVIOUS
  <2> HIDE DEF I
  <2> QED
    BY <2>1, FirstPosition
<1> HIDE DEF k
<1> QED
  BY <1>1, <1>2

LEMMA FirstSolid ==
  ASSUME NEW S, NEW text \in Seq(S)
  PROVE  LET k == SelectInSeq(text, Solid)
         IN  \/ k = 0 /\ \A i \in 1..Len(text) : Blank(text[i])
             \/ /\ k \in 1..Len(text) /\ Solid(text[k])
                /\ \A i \in 1..(k - 1) : Blank(text[i])
<1> DEFINE I == {i \in 1..Len(text) : Solid(text[i])}
           k == IF I # {} THEN Min(I) ELSE 0
<1>1. SelectInSeq(text, Solid) = k
  BY DEF SelectInSeq
<1>2. \/ k = 0 /\ \A i \in 1..Len(text) : i \notin I
      \/ k \in I /\ \A i \in 1..(k - 1) : i \in 1..Len(text) /\ i \notin I
  <2>1. Len(text) \in Nat /\ I \in SUBSET (1..Len(text))
    OBVIOUS
  <2> HIDE DEF I
  <2> QED
    BY <2>1, FirstPosition
<1> HIDE DEF k
<1> QED
  BY <1>1, <1>2 DEF Solid

LEMMA LastSolid ==
  ASSUME NEW S, NEW text \in Seq(S)
  PROVE  LET k == SelectLastInSeq(text, Solid)
         IN  \/ k = 0 /\ \A i \in 1..Len(text) : Blank(text[i])
             \/ /\ k \in 1..Len(text) /\ Solid(text[k])
                /\ \A i \in (k + 1)..Len(text) : Blank(text[i])
<1> DEFINE I == {i \in 1..Len(text) : Solid(text[i])}
           k == IF I # {} THEN Max(I) ELSE 0
<1>1. SelectLastInSeq(text, Solid) = k
  BY DEF SelectLastInSeq
<1>2. \/ k = 0 /\ \A i \in 1..Len(text) : i \notin I
      \/ k \in I /\ \A i \in (k + 1)..Len(text) : i \in 1..Len(text) /\ i \notin I
  <2>1. Len(text) \in Nat /\ I \in SUBSET (1..Len(text))
    OBVIOUS
  <2> HIDE DEF I
  <2> QED
    BY <2>1, LastPosition
<1> HIDE DEF k
<1> QED
  BY <1>1, <1>2 DEF Solid

LEMMA FirstDashes ==
  ASSUME NEW S, NEW text \in Seq(S)
  PROVE  LET k == SelectInSeq(text, Dashes)
         IN  \/ k = 0 /\ \A i \in 1..Len(text) : ~ Dashes(text[i])
             \/ /\ k \in 1..Len(text) /\ Dashes(text[k])
                /\ \A i \in 1..(k - 1) : ~ Dashes(text[i])
<1> DEFINE I == {i \in 1..Len(text) : Dashes(text[i])}
           k == IF I # {} THEN Min(I) ELSE 0
<1>1. SelectInSeq(text, Dashes) = k
  BY DEF SelectInSeq
<1>2. \/ k = 0 /\ \A i \in 1..Len(text) : i \notin I
      \/ k \in I /\ \A i \in 1..(k - 1) : i \in 1..Len(text) /\ i \notin I
  <2>1. Len(text) \in Nat /\ I \in SUBSET (1..Len(text))
    OBVIOUS
  <2> HIDE DEF I
  <2> QED
    BY <2>1, FirstPosition
<1> HIDE DEF k
<1> QED
  BY <1>1, <1>2

LEMMA LastEnd ==
  ASSUME NEW S, NEW text \in Seq(S)
  PROVE  LET k == SelectLastInSeq(text, Ends)
         IN  \/ k = 0 /\ \A i \in 1..Len(text) : ~ Ends(text[i])
             \/ /\ k \in 1..Len(text) /\ Ends(text[k])
                /\ \A i \in (k + 1)..Len(text) : ~ Ends(text[i])
<1> DEFINE I == {i \in 1..Len(text) : Ends(text[i])}
           k == IF I # {} THEN Max(I) ELSE 0
<1>1. SelectLastInSeq(text, Ends) = k
  BY DEF SelectLastInSeq
<1>2. \/ k = 0 /\ \A i \in 1..Len(text) : i \notin I
      \/ k \in I /\ \A i \in (k + 1)..Len(text) : i \in 1..Len(text) /\ i \notin I
  <2>1. Len(text) \in Nat /\ I \in SUBSET (1..Len(text))
    OBVIOUS
  <2> HIDE DEF I
  <2> QED
    BY <2>1, LastPosition
<1> HIDE DEF k
<1> QED
  BY <1>1, <1>2

-----------------------------------------------------------------------------
(* Texts: Trim, Newest and strip_quoted_history *)

(***************************************************************************)
(* Parts of a text.                                                        *)
(***************************************************************************)
LEMMA SubText ==
  ASSUME NEW S, NEW text \in Seq(S), NEW a \in 1..(Len(text) + 1), NEW b \in 0..Len(text)
  PROVE  /\ SubSeq(text, a, b) \in Seq(S)
         /\ Len(SubSeq(text, a, b)) = IF a <= b THEN b - a + 1 ELSE 0
         /\ \A i \in 1..(b - a + 1) : SubSeq(text, a, b)[i] = text[a + i - 1]
<1>1. a \in Int /\ b \in Int /\ \A i \in a..b : text[i] \in S
  BY LenProperties, ElementOfSeq
<1> QED
  BY <1>1, SubSeqProperties

LEMMA PartNotEmpty ==
  ASSUME NEW S, NEW text \in Seq(S),
         NEW a \in 1..Len(text), NEW b \in 1..Len(text), a <= b
  PROVE  SubSeq(text, a, b) # <<>>
<1>1. /\ a \in 1..(Len(text) + 1) /\ b \in 0..Len(text)
      /\ b - a + 1 \in Nat \ {0}
  BY LenProperties
<1>2. Len(SubSeq(text, a, b)) = b - a + 1
  BY <1>1, SubText
<1> QED
  BY <1>1, <1>2, EmptySeq

(***************************************************************************)
(* Trim leaves the text from its first to its last solid line.             *)
(***************************************************************************)
LEMMA Trimmed ==
  ASSUME NEW S, NEW text \in Seq(S)
  PROVE  \/ Trim(text) = <<>> /\ \A i \in 1..Len(text) : Blank(text[i])
         \/ \E a \in 1..Len(text), b \in 1..Len(text) :
              /\ a <= b /\ Trim(text) = SubSeq(text, a, b)
              /\ Solid(text[a]) /\ Solid(text[b])
              /\ \A i \in 1..(a - 1) : Blank(text[i])
              /\ \A i \in (b + 1)..Len(text) : Blank(text[i])
<1> DEFINE a == SelectInSeq(text, Solid)
           b == SelectLastInSeq(text, Solid)
<1>1. Trim(text) = IF a = 0 THEN <<>> ELSE SubSeq(text, a, b)
  BY DEF Trim
<1>2. \/ a = 0 /\ \A i \in 1..Len(text) : Blank(text[i])
      \/ /\ a \in 1..Len(text) /\ Solid(text[a])
         /\ \A i \in 1..(a - 1) : Blank(text[i])
  BY FirstSolid
<1>3. \/ b = 0 /\ \A i \in 1..Len(text) : Blank(text[i])
      \/ /\ b \in 1..Len(text) /\ Solid(text[b])
         /\ \A i \in (b + 1)..Len(text) : Blank(text[i])
  BY LastSolid
<1> HIDE DEF a, b
<1>4. CASE a = 0
  BY <1>1, <1>2, <1>4
<1>5. CASE a # 0
  <2>1. b # 0
    BY <1>2, <1>3, <1>5 DEF Solid
  <2>2. a \in 1..Len(text) /\ b \in 1..Len(text) /\ Len(text) \in Nat
    BY <1>2, <1>3, <1>5, <2>1
  <2>3. a <= b
    <3>1. SUFFICES ASSUME b < a PROVE FALSE
      BY <2>2
    <3>2. b \in 1..(a - 1)
      BY <2>2, <3>1
    <3> QED
      BY <1>2, <1>3, <1>5, <2>1, <3>2 DEF Solid
  <2> QED
    BY <1>1, <1>2, <1>3, <1>5, <2>1, <2>2, <2>3
<1> QED
  BY <1>4, <1>5

LEMMA TrimTyped ==
  ASSUME NEW S, NEW text \in Seq(S)
  PROVE  Trim(text) \in Seq(S)
<1>1. CASE Trim(text) = <<>>
  BY <1>1
<1>2. CASE \E a \in 1..Len(text), b \in 1..Len(text) : Trim(text) = SubSeq(text, a, b)
  <2>1. PICK a \in 1..Len(text), b \in 1..Len(text) : Trim(text) = SubSeq(text, a, b)
    BY <1>2
  <2>2. a \in 1..(Len(text) + 1) /\ b \in 0..Len(text)
    BY LenProperties
  <2> QED
    BY <2>1, <2>2, SubText
<1> QED
  BY <1>1, <1>2, Trimmed

LEMMA TrimFromFirst ==
  ASSUME NEW S, NEW text \in Seq(S), NEW m \in 1..Len(text),
         Solid(text[1]), Solid(text[m])
  PROVE  \E b \in m..Len(text) :
           /\ Trim(text) = SubSeq(text, 1, b) /\ Solid(text[b])
           /\ \A i \in (b + 1)..Len(text) : Blank(text[i])
<1>1. Len(text) \in Nat /\ 1 \in 1..Len(text)
  OBVIOUS
<1>2. PICK a \in 1..Len(text), b \in 1..Len(text) :
              /\ a <= b /\ Trim(text) = SubSeq(text, a, b)
              /\ Solid(text[a]) /\ Solid(text[b])
              /\ \A i \in 1..(a - 1) : Blank(text[i])
              /\ \A i \in (b + 1)..Len(text) : Blank(text[i])
  BY <1>1, Trimmed DEF Solid
<1>3. a = 1
  <2>1. SUFFICES ASSUME a # 1 PROVE FALSE
    OBVIOUS
  <2>2. 1 \in 1..(a - 1)
    BY <2>1
  <2> QED
    BY <1>2, <2>2 DEF Solid
<1>4. m <= b
  <2>1. SUFFICES ASSUME b < m PROVE FALSE
    OBVIOUS
  <2>2. m \in (b + 1)..Len(text)
    BY <2>1
  <2> QED
    BY <1>2, <2>2 DEF Solid
<1>5. b \in m..Len(text)
  BY <1>4
<1> QED
  BY <1>2, <1>3, <1>5

LEMMA TrimmedAlready ==
  ASSUME NEW S, NEW text \in Seq(S), text # <<>>,
         Solid(text[1]), Solid(text[Len(text)])
  PROVE  Trim(text) = text
<1>1. Len(text) \in 1..Len(text)
  BY EmptySeq, LenProperties
<1>2. PICK b \in Len(text)..Len(text) : Trim(text) = SubSeq(text, 1, b)
  BY <1>1, TrimFromFirst
<1>3. b = Len(text)
  BY <1>1
<1> QED
  BY <1>2, <1>3, SubSeqFull

(***************************************************************************)
(* Newest leaves the lines before the first one of history.                *)
(***************************************************************************)
LEMMA NewestCut ==
  ASSUME NEW S, NEW text \in Seq(S)
  PROVE  \E n \in 0..Len(text) :
           /\ Newest(text) = SubSeq(text, 1, n)
           /\ \A i \in 1..n : ~ History(text[i])
           /\ n < Len(text) => History(text[n + 1])
<1> DEFINE cut == SelectInSeq(text, History)
<1>1. Newest(text) = IF cut = 0 THEN text ELSE SubSeq(text, 1, cut - 1)
  BY DEF Newest
<1>2. \/ cut = 0 /\ \A i \in 1..Len(text) : ~ History(text[i])
      \/ /\ cut \in 1..Len(text) /\ History(text[cut])
         /\ \A i \in 1..(cut - 1) : ~ History(text[i])
  BY FirstHistory
<1> HIDE DEF cut
<1>3. Len(text) \in Nat
  OBVIOUS
<1>4. CASE cut = 0
  <2>1. Newest(text) = SubSeq(text, 1, Len(text))
    BY <1>1, <1>4, SubSeqFull
  <2> QED
    BY <1>2, <1>3, <1>4, <2>1
<1>5. CASE cut # 0
  <2>1. cut - 1 \in 0..Len(text) /\ (cut - 1) + 1 = cut
    BY <1>2, <1>3, <1>5
  <2> QED
    BY <1>1, <1>2, <1>5, <2>1
<1> QED
  BY <1>4, <1>5

LEMMA PrefixOfPrefix ==
  ASSUME NEW S, NEW text \in Seq(S), NEW n \in 0..Len(text), NEW b \in 1..n
  PROVE  SubSeq(SubSeq(text, 1, n), 1, b) = SubSeq(text, 1, b)
<1>1. 1 \in 1..Len(text) /\ n \in 1..Len(text) /\ 1 \in 1..(n - 1 + 1) /\ b \in 1..(n - 1 + 1)
  BY LenProperties
<1>2. SubSeq(SubSeq(text, 1, n), 1, b) = SubSeq(text, 1 + 1 - 1, 1 + b - 1)
  BY <1>1, SubSeqOfSubSeq
<1> QED
  BY <1>1, <1>2

(***************************************************************************)
(* Whatever a text holds, when it starts with lines that are no history,   *)
(* all of them are the latest message, and what else belongs to it comes   *)
(* before the first line of history: strip_quoted_history cuts off nothing *)
(* of what the sender typed on top, and lets nothing of the history        *)
(* through.                                                                *)
(***************************************************************************)
THEOREM LatestMessage ==
  ASSUME NEW S, NEW text \in Seq(S), NEW m \in 1..Len(text),
         Solid(text[1]), Solid(text[m]), \A i \in 1..m : ~ History(text[i])
  PROVE  \E b \in m..Len(text) :
           /\ StripQuotedHistory(text) = SubSeq(text, 1, b)
           /\ Solid(text[b])
           /\ \A i \in 1..b : ~ History(text[i])
           /\ \A i \in (b + 1)..Len(text) :
                Blank(text[i]) \/ \E j \in (b + 1)..i : History(text[j])
<1>1. PICK n \in 0..Len(text) :
           /\ Newest(text) = SubSeq(text, 1, n)
           /\ \A i \in 1..n : ~ History(text[i])
           /\ n < Len(text) => History(text[n + 1])
  BY NewestCut
<1>2. Len(text) \in Nat /\ n \in Nat /\ m \in 1..Len(text)
  OBVIOUS
<1>3. m <= n
  <2>1. SUFFICES ASSUME n < m PROVE FALSE
    BY <1>2
  <2>2. n < Len(text) /\ n + 1 \in 1..m
    BY <1>2, <2>1
  <2> QED
    BY <1>1, <2>2
<1> DEFINE new == SubSeq(text, 1, n)
<1>4. /\ new \in Seq(S) /\ Len(new) = n
      /\ \A i \in 1..n : new[i] = text[i]
  <2>1. 1 \in 1..(Len(text) + 1) /\ 1 <= n
    BY <1>2, <1>3
  <2> QED
    BY <2>1, SubText
<1>5. PICK b \in m..n :
        /\ Trim(new) = SubSeq(new, 1, b) /\ Solid(new[b])
        /\ \A i \in (b + 1)..n : Blank(new[i])
  <2>1. m \in 1..Len(new) /\ 1 \in 1..n
    BY <1>2, <1>3, <1>4
  <2>2. Solid(new[1]) /\ Solid(new[m])
    BY <1>4, <2>1
  <2> HIDE DEF new
  <2> QED
    BY <1>4, <2>1, <2>2, TrimFromFirst
<1>6. b \in 1..n /\ b \in 1..Len(text) /\ b \in m..Len(text)
  BY <1>2, <1>3
<1>7. Trim(Newest(text)) = SubSeq(text, 1, b)
  BY <1>1, <1>5, <1>6, PrefixOfPrefix
<1>8. SubSeq(text, 1, b) # <<>>
  <2>1. 1 \in 1..Len(text) /\ b \in 1..Len(text) /\ 1 <= b
    BY <1>2, <1>6
  <2> QED
    BY <2>1, PartNotEmpty
<1>9. StripQuotedHistory(text) = SubSeq(text, 1, b)
  BY <1>7, <1>8 DEF StripQuotedHistory
<1>10. ASSUME NEW i \in (b + 1)..Len(text)
       PROVE  Blank(text[i]) \/ \E j \in (b + 1)..i : History(text[j])
  <2>1. CASE i <= n
    <3>1. i \in (b + 1)..n /\ i \in 1..n
      BY <1>6, <2>1
    <3> QED
      BY <1>4, <1>5, <3>1
  <2>2. CASE i > n
    <3>1. n + 1 \in (b + 1)..i /\ n < Len(text)
      BY <1>6, <2>2
    <3> QED
      BY <1>1, <3>1
  <2> QED
    BY <1>2, <2>1, <2>2
<1>11. Solid(text[b]) /\ \A i \in 1..b : ~ History(text[i])
  BY <1>1, <1>4, <1>5, <1>6
<1> QED
  BY <1>6, <1>9, <1>10, <1>11

(***************************************************************************)
(* A message is never stripped to nothing ("so we never emit an empty      *)
(* instruction by mistake", email_parse.py:115-116): the instruction is    *)
(* empty only when the whole text is.                                      *)
(***************************************************************************)
THEOREM NeverEmptied ==
  ASSUME NEW S, NEW text \in Seq(S)
  PROVE  StripQuotedHistory(text) = <<>> <=> \A i \in 1..Len(text) : Blank(text[i])
<1>1. ASSUME StripQuotedHistory(text) = <<>>
      PROVE  \A i \in 1..Len(text) : Blank(text[i])
  <2>1. Trim(text) = <<>>
    BY <1>1 DEF StripQuotedHistory
  <2> QED
    BY <2>1, PartNotEmpty, Trimmed
<1>2. ASSUME \A i \in 1..Len(text) : Blank(text[i])
      PROVE  StripQuotedHistory(text) = <<>>
  <2>1. Trim(text) = <<>>
    BY <1>2, Trimmed DEF Solid
  <2>2. PICK n \in 0..Len(text) : Newest(text) = SubSeq(text, 1, n)
    BY NewestCut
  <2>3. 1 \in 1..(Len(text) + 1) /\ Len(text) \in Nat
    BY LenProperties
  <2>4. /\ SubSeq(text, 1, n) \in Seq(S)
        /\ \A i \in 1..Len(SubSeq(text, 1, n)) : Blank(SubSeq(text, 1, n)[i])
    BY <1>2, <2>3, SubText
  <2>5. Trim(Newest(text)) = <<>>
    BY <2>2, <2>4, Trimmed DEF Solid
  <2> QED
    BY <2>1, <2>5 DEF StripQuotedHistory
<1> QED
  BY <1>1, <1>2

-----------------------------------------------------------------------------
(* The signature *)

LEMMA SubLines ==
  ASSUME NEW S, NEW text \in Seq(S), NEW a \in 1..(Len(text) + 1), NEW b \in 0..Len(text)
  PROVE  ToSet(SubSeq(text, a, b)) \subseteq ToSet(text)
<1> DEFINE part == SubSeq(text, a, b)
<1>1. DOMAIN text = 1..Len(text) /\ Len(text) \in Nat
  BY LenProperties
<1>2. /\ DOMAIN part = 1..(IF a <= b THEN b - a + 1 ELSE 0)
      /\ \A i \in 1..(b - a + 1) : part[i] = text[a + i - 1]
  BY SubText, LenProperties
<1>3. ASSUME NEW i \in DOMAIN part PROVE part[i] \in ToSet(text)
  <2>1. i \in 1..(b - a + 1) /\ a + i - 1 \in 1..Len(text)
    BY <1>1, <1>2
  <2> QED
    BY <1>1, <1>2, <2>1 DEF ToSet
<1> QED
  BY <1>3 DEF ToSet

LEMMA TrimLines ==
  ASSUME NEW S, NEW text \in Seq(S)
  PROVE  ToSet(Trim(text)) \subseteq ToSet(text)
<1>1. CASE Trim(text) = <<>>
  BY <1>1 DEF ToSet
<1>2. CASE \E a \in 1..Len(text), b \in 1..Len(text) : Trim(text) = SubSeq(text, a, b)
  <2>1. PICK a \in 1..Len(text), b \in 1..Len(text) : Trim(text) = SubSeq(text, a, b)
    BY <1>2
  <2>2. a \in 1..(Len(text) + 1) /\ b \in 0..Len(text)
    BY LenProperties
  <2> QED
    BY <2>1, <2>2, SubLines
<1> QED
  BY <1>1, <1>2, Trimmed

LEMMA BlockCut ==
  ASSUME NEW S, NEW text \in Seq(S)
  PROVE  \E k \in 0..Len(Trim(text)) :
           /\ TrailingBlock(text) = SubSeq(Trim(text), k + 1, Len(Trim(text)))
           /\ k # 0 => Ends(Trim(text)[k])
<1> DEFINE body == Trim(text)
           k == SelectLastInSeq(body, Ends)
<1>1. body \in Seq(S) /\ Len(body) \in Nat
  BY TrimTyped, LenProperties
<1>2. TrailingBlock(text) = SubSeq(body, k + 1, Len(body))
  BY DEF TrailingBlock
<1>3. k = 0 \/ (k \in 1..Len(body) /\ Ends(body[k]))
  <2> HIDE DEF body
  <2> QED
    BY <1>1, LastEnd
<1> HIDE DEF body, k
<1>4. k \in 0..Len(body) /\ (k # 0 => Ends(body[k]))
  BY <1>1, <1>3
<1> QED
  BY <1>2, <1>4 DEF body

(***************************************************************************)
(* A signature is made of lines of the text it was looked for in, which is *)
(* why one found in the latest message is its sender's own.                *)
(***************************************************************************)
THEOREM SignatureIsOfText ==
  ASSUME NEW S, NEW text \in Seq(S)
  PROVE  ToSet(ExtractSignatureBlock(text)) \subseteq ToSet(text)
<1> DEFINE d == SelectInSeq(text, Dashes)
           block == TrailingBlock(text)
<1>1. d = 0 \/ d \in 1..Len(text)
  BY FirstDashes
<1>2. CASE d # 0
  <2>1. ExtractSignatureBlock(text) = Trim(SubSeq(text, d + 1, Len(text)))
    BY <1>2 DEF ExtractSignatureBlock
  <2>2. d + 1 \in 1..(Len(text) + 1) /\ Len(text) \in 0..Len(text)
    BY <1>1, <1>2, LenProperties
  <2> HIDE DEF d
  <2>3. /\ SubSeq(text, d + 1, Len(text)) \in Seq(S)
        /\ ToSet(SubSeq(text, d + 1, Len(text))) \subseteq ToSet(text)
    BY <2>2, SubText, SubLines
  <2> QED
    BY <2>1, <2>3, TrimLines
<1>3. CASE d = 0 /\ LooksLikeSignature(block)
  <2>1. ExtractSignatureBlock(text) = block
    BY <1>3 DEF ExtractSignatureBlock
  <2>2. PICK k \in 0..Len(Trim(text)) : block = SubSeq(Trim(text), k + 1, Len(Trim(text)))
    BY BlockCut
  <2>3. Trim(text) \in Seq(S)
    BY TrimTyped
  <2>4. k + 1 \in 1..(Len(Trim(text)) + 1) /\ Len(Trim(text)) \in 0..Len(Trim(text))
    BY <2>3, LenProperties
  <2>5. ToSet(block) \subseteq ToSet(Trim(text))
    BY <2>2, <2>3, <2>4, SubLines
  <2> QED
    BY <2>1, <2>5, TrimLines
<1>4. CASE d = 0 /\ ~ LooksLikeSignature(block)
  <2>1. ExtractSignatureBlock(text) = <<>>
    BY <1>4 DEF ExtractSignatureBlock
  <2> QED
    BY <2>1 DEF ToSet
<1> QED
  BY <1>2, <1>3, <1>4

(***************************************************************************)
(* What is needed for a signature to be found: something below a           *)
(* delimiter, or a contact detail in the last short lines.                 *)
(***************************************************************************)
LEMMA SignatureBelowDashes ==
  ASSUME NEW S, NEW text \in Seq(S), NEW d \in 1..Len(text), NEW e \in (d + 1)..Len(text),
         Dashes(text[d]), Solid(text[e])
  PROVE  ExtractSignatureBlock(text) # <<>>
<1> DEFINE k == SelectInSeq(text, Dashes)
<1>1. k \in 1..d
  <2>1. \/ k = 0 /\ \A i \in 1..Len(text) : ~ Dashes(text[i])
        \/ k \in 1..Len(text) /\ \A i \in 1..(k - 1) : ~ Dashes(text[i])
    BY FirstDashes
  <2> HIDE DEF k
  <2> QED
    BY <2>1
<1> DEFINE rest == SubSeq(text, k + 1, Len(text))
<1>2. ExtractSignatureBlock(text) = Trim(rest)
  BY <1>1 DEF ExtractSignatureBlock
<1> HIDE DEF k
<1>3. k + 1 \in 1..(Len(text) + 1) /\ Len(text) \in 0..Len(text) /\ k + 1 <= Len(text)
  BY <1>1
<1>4. /\ rest \in Seq(S) /\ Len(rest) = Len(text) - (k + 1) + 1
      /\ \A i \in 1..(Len(text) - (k + 1) + 1) : rest[i] = text[(k + 1) + i - 1]
  BY <1>3, SubText
<1>5. e - k \in 1..Len(rest) /\ rest[e - k] = text[e]
  BY <1>1, <1>4
<1> HIDE DEF rest
<1>6. ~ \A i \in 1..Len(rest) : Blank(rest[i])
  BY <1>5 DEF Solid
<1> QED
  BY <1>2, <1>4, <1>6, PartNotEmpty, Trimmed

LEMMA SignatureAtTheEnd ==
  ASSUME NEW S, NEW text \in Seq(S), NEW e \in 1..Len(text), Len(text) <= 8,
         Solid(text[1]), text[e].kind = "contact",
         \A i \in 1..Len(text) : ~ Dashes(text[i]),
         \A i \in e..Len(text) : ~ Ends(text[i])
  PROVE  ExtractSignatureBlock(text) # <<>>
<1>1. Trim(text) = text
  <2>1. text # <<>> /\ Len(text) \in e..Len(text)
    BY LenProperties
  <2>2. Solid(text[Len(text)])
    BY <2>1 DEF Solid, Ends
  <2> QED
    BY <2>1, <2>2, TrimmedAlready
<1> DEFINE block == TrailingBlock(text)
<1>2. PICK k \in 0..Len(text) :
        block = SubSeq(text, k + 1, Len(text)) /\ (k # 0 => Ends(text[k]))
  BY <1>1, BlockCut
<1>3. k < e
  BY <1>2
<1>4. k + 1 \in 1..(Len(text) + 1) /\ Len(text) \in 0..Len(text) /\ k + 1 <= Len(text)
  BY <1>3
<1>5. /\ block \in Seq(S) /\ Len(block) = Len(text) - (k + 1) + 1
      /\ \A i \in 1..(Len(text) - (k + 1) + 1) : block[i] = text[(k + 1) + i - 1]
  BY <1>2, <1>4, SubText
<1>6. e - k \in 1..Len(block) /\ block[e - k] = text[e]
  BY <1>3, <1>5
<1>7. LooksLikeSignature(block) /\ block # <<>>
  <2> HIDE DEF block
  <2>1. DOMAIN block = 1..Len(block) /\ Len(block) <= 8
    BY <1>5, LenProperties
  <2>2. block # <<>>
    BY <1>6, EmptySeq
  <2> QED
    BY <1>6, <2>1, <2>2 DEF LooksLikeSignature
<1>8. SelectInSeq(text, Dashes) = 0
  BY FirstDashes
<1> QED
  BY <1>7, <1>8 DEF ExtractSignatureBlock

-----------------------------------------------------------------------------
(* Parts and lines *)

(***************************************************************************)
(* Which part of a message is its text: the first plain one that is not    *)
(* an attachment itself, or an html one.                                   *)
(***************************************************************************)
Body(part) == part.type = "plain" /\ ~ part.attached

LEMMA FirstOf ==
  ASSUME NEW n \in Nat, NEW I \in SUBSET (1..n), NEW k \in I, \A i \in 1..(k - 1) : i \notin I
  PROVE  (IF I # {} THEN Min(I) ELSE 0) = k
<1> DEFINE m == IF I # {} THEN Min(I) ELSE 0
<1>1. \/ m = 0 /\ I = {}
      \/ m \in I /\ \A i \in 1..(m - 1) : i \in 1..n /\ i \notin I
  BY FirstPosition
<1> HIDE DEF m
<1>2. m \in 1..n /\ k \in 1..n /\ m \in I /\ \A i \in 1..(m - 1) : i \notin I
  BY <1>1
<1>3. ~ (m < k) /\ ~ (k < m)
  <2>1. m < k => m \in 1..(k - 1)
    BY <1>2
  <2>2. k < m => k \in 1..(m - 1)
    BY <1>2
  <2> QED
    BY <1>2, <2>1, <2>2
<1> QED
  BY <1>2, <1>3 DEF m

LEMMA PlainRead ==
  ASSUME NEW parts, Len(parts) \in Nat, Len(parts) > 1, NEW k \in 1..Len(parts),
         Body(parts[k]), \A i \in 1..(k - 1) : ~ Body(parts[i])
  PROVE  TextOf(parts) = parts[k].lines
<1> DEFINE P == {i \in 1..Len(parts) : parts[i].type = "plain" /\ ~ parts[i].attached}
           H == {i \in 1..Len(parts) : parts[i].type = "html"}
           plain == IF P # {} THEN Min(P) ELSE 0
           html == IF H # {} THEN Min(H) ELSE 0
<1>1. TextOf(parts) = CASE Len(parts) = 1 -> parts[1].lines
                        [] Len(parts) > 1 /\ plain # 0 -> parts[plain].lines
                        [] Len(parts) > 1 /\ plain = 0 /\ html # 0 -> parts[html].lines
                        [] OTHER -> <<>>
  BY DEF TextOf, SelectInSeq
<1>2. plain = k
  <2>1. P \in SUBSET (1..Len(parts)) /\ k \in P /\ \A i \in 1..(k - 1) : i \notin P
    BY DEF Body
  <2> HIDE DEF P
  <2> QED
    BY <2>1, FirstOf
<1> HIDE DEF plain, html
<1> QED
  BY <1>1, <1>2

LEMMA HtmlRead ==
  ASSUME NEW parts, Len(parts) = 2, parts[1].type = "html", ~ Body(parts[2])
  PROVE  TextOf(parts) = parts[1].lines
<1> DEFINE P == {i \in 1..Len(parts) : parts[i].type = "plain" /\ ~ parts[i].attached}
           H == {i \in 1..Len(parts) : parts[i].type = "html"}
           plain == IF P # {} THEN Min(P) ELSE 0
           html == IF H # {} THEN Min(H) ELSE 0
<1>1. TextOf(parts) = CASE Len(parts) = 1 -> parts[1].lines
                        [] Len(parts) > 1 /\ plain # 0 -> parts[plain].lines
                        [] Len(parts) > 1 /\ plain = 0 /\ html # 0 -> parts[html].lines
                        [] OTHER -> <<>>
  BY DEF TextOf, SelectInSeq
<1>2. plain = 0
  <2>1. \A i \in 1..2 : i = 1 \/ i = 2
    OBVIOUS
  <2>2. \A i \in P : FALSE
    BY <2>1 DEF Body
  <2> QED
    BY <2>2
<1>3. html = 1
  <2>1. 2 \in Nat /\ H \in SUBSET (1..2) /\ 1 \in H /\ \A i \in 1..(1 - 1) : i \notin H
    OBVIOUS
  <2> HIDE DEF H
  <2> QED
    BY <2>1, FirstOf
<1> HIDE DEF plain, html
<1> QED
  BY <1>1, <1>2, <1>3

(***************************************************************************)
(* Of the parts that clients make.                                         *)
(***************************************************************************)
LEMMA ClientParts ==
  ASSUME NEW text, NEW copy
  PROVE  /\ TextOf(<<Plain(text)>>) = text
         /\ TextOf(<<Html(text)>>) = text
         /\ TextOf(<<Plain(text), Html(copy)>>) = text
         /\ TextOf(<<Html(text), Attachment(copy)>>) = text
         /\ TextOf(<<Attachment(copy), Plain(text)>>) = text
         /\ TextOf(<<Html(copy), InlineFile(text)>>) = text
         /\ TextOf(<<Html(copy), AttachedMail, Plain(text)>>) = text
         /\ TextOf(<<Plain(text), Html(text), AttachedMail, Plain(copy)>>) = text
<1>1. /\ \A t : Plain(t).lines = t /\ Html(t).lines = t /\ InlineFile(t).lines = t
      /\ \A t : Body(Plain(t)) /\ Body(InlineFile(t))
      /\ \A t : ~ Body(Html(t)) /\ ~ Body(Attachment(t)) /\ Html(t).type = "html"
      /\ ~ Body(AttachedMail)
  BY DEF Plain, Html, Attachment, InlineFile, AttachedMail, Part, Body
<1>2. TextOf(<<Plain(text)>>) = text /\ TextOf(<<Html(text)>>) = text
  BY <1>1 DEF TextOf
<1>3. TextOf(<<Plain(text), Html(copy)>>) = text
  <2> DEFINE parts == <<Plain(text), Html(copy)>>
  <2>1. Len(parts) = 2 /\ parts[1] = Plain(text) /\ 1 \in 1..Len(parts)
        /\ \A i \in 1..(1 - 1) : FALSE
    OBVIOUS
  <2> HIDE DEF parts
  <2>2. Body(parts[1]) /\ \A i \in 1..(1 - 1) : ~ Body(parts[i])
    BY <1>1, <2>1
  <2>3. TextOf(parts) = parts[1].lines
    BY <2>1, <2>2, PlainRead DEF Body
  <2> QED
    BY <1>1, <2>1, <2>3 DEF parts
<1>4. TextOf(<<Html(text), Attachment(copy)>>) = text
  <2> DEFINE parts == <<Html(text), Attachment(copy)>>
  <2>1. Len(parts) = 2 /\ parts[1] = Html(text) /\ parts[2] = Attachment(copy)
    OBVIOUS
  <2> HIDE DEF parts
  <2>2. TextOf(parts) = parts[1].lines
    BY <1>1, <2>1, HtmlRead
  <2> QED
    BY <1>1, <2>1, <2>2 DEF parts
<1>5. ASSUME NEW first, NEW second, ~ Body(first), Body(second)
      PROVE  TextOf(<<first, second>>) = second.lines
  <2> DEFINE parts == <<first, second>>
  <2>1. Len(parts) = 2 /\ parts[1] = first /\ parts[2] = second /\ 2 \in 1..Len(parts)
        /\ \A i \in 1..(2 - 1) : i = 1
    OBVIOUS
  <2> HIDE DEF parts
  <2>2. TextOf(parts) = parts[2].lines
    BY <1>5, <2>1, PlainRead DEF Body
  <2> QED
    BY <2>1, <2>2 DEF parts
<1>6. TextOf(<<Html(copy), AttachedMail, Plain(text)>>) = text
  <2> DEFINE parts == <<Html(copy), AttachedMail, Plain(text)>>
  <2>1. /\ Len(parts) = 3 /\ 3 \in 1..Len(parts)
        /\ parts[1] = Html(copy) /\ parts[2] = AttachedMail /\ parts[3] = Plain(text)
        /\ \A i \in 1..(3 - 1) : i = 1 \/ i = 2
    OBVIOUS
  <2> HIDE DEF parts
  <2>2. Body(parts[3]) /\ \A i \in 1..(3 - 1) : ~ Body(parts[i])
    BY <1>1, <2>1
  <2>3. TextOf(parts) = parts[3].lines
    BY <2>1, <2>2, PlainRead DEF Body
  <2> QED
    BY <1>1, <2>1, <2>3 DEF parts
<1>7. TextOf(<<Plain(text), Html(text), AttachedMail, Plain(copy)>>) = text
  <2> DEFINE parts == <<Plain(text), Html(text), AttachedMail, Plain(copy)>>
  <2>1. Len(parts) = 4 /\ parts[1] = Plain(text) /\ 1 \in 1..Len(parts)
        /\ \A i \in 1..(1 - 1) : FALSE
    OBVIOUS
  <2> HIDE DEF parts
  <2>2. Body(parts[1]) /\ \A i \in 1..(1 - 1) : ~ Body(parts[i])
    BY <1>1, <2>1
  <2>3. TextOf(parts) = parts[1].lines
    BY <2>1, <2>2, PlainRead DEF Body
  <2> QED
    BY <1>1, <2>1, <2>3 DEF parts
<1> QED
  BY <1>1, <1>2, <1>3, <1>4, <1>5, <1>6, <1>7

Hands == {"gateway", "responder", "unmarked"}
Writers == Person \union Hands \union {"client", "outsider", "clark"}
Kinds == {"text", "long", "blank", "mark", "dashes", "cue", "contact"}
Lines == [by : Writers, kind : Kinds, quoted : BOOLEAN]

(***************************************************************************)
(* The lines of which the mails of CommandBus are made.                    *)
(***************************************************************************)
LEMMA LineIs ==
  ASSUME NEW by, NEW kind
  PROVE  /\ Line(by, kind).by = by /\ Line(by, kind).kind = kind /\ ~ Line(by, kind).quoted
         /\ by \in Writers /\ kind \in Kinds => Line(by, kind) \in Lines
         /\ kind # "blank" => Solid(Line(by, kind))
         /\ kind # "mark" => ~ History(Line(by, kind))
         /\ kind # "dashes" => ~ Dashes(Line(by, kind))
         /\ kind \notin {"blank", "long"} => ~ Ends(Line(by, kind))
BY DEF Line, Lines, Solid, Blank, History, Dashes, Ends

LEMMA TypedText ==
  ASSUME NEW p \in Person, NEW own \in Typed(p)
  PROVE  /\ own \in Seq(Lines) /\ own # <<>> /\ Len(own) \in Nat
         /\ Solid(own[1]) /\ Solid(own[Len(own)])
         /\ \A i \in 1..Len(own) : own[i].by = p /\ ~ History(own[i])
<1> DEFINE L(k) == Line(p, k)
<1>1. \A k \in Kinds \ {"mark"} : L(k) \in Lines /\ L(k).by = p /\ ~ History(L(k))
  BY LineIs DEF Writers
<1>2. \A k \in {"text", "contact", "long"} : Solid(L(k))
  BY LineIs
<1> HIDE DEF L
<1>3. CASE own = <<L("text")>>
  BY <1>1, <1>2, <1>3 DEF Kinds
<1>4. CASE own = <<L("text"), L("dashes"), L("contact")>>
  BY <1>1, <1>2, <1>4 DEF Kinds
<1>5. CASE own = <<L("long"), L("blank"), L("cue"), L("contact")>>
  BY <1>1, <1>2, <1>5 DEF Kinds
<1> QED
  BY <1>3, <1>4, <1>5 DEF Typed, L

LEMMA TypedSignature ==
  ASSUME NEW p \in Person, NEW own \in Typed(p), \E l \in ToSet(own) : l.kind = "contact"
  PROVE  ExtractSignatureBlock(own) # <<>>
<1> DEFINE L(k) == Line(p, k)
<1>1. own \in Seq(Lines) /\ Solid(own[1])
  BY TypedText
<1>2. CASE own = <<L("text")>>
  BY <1>2 DEF ToSet, Line
<1>3. CASE own = <<L("text"), L("dashes"), L("contact")>>
  <2>1. 2 \in 1..Len(own) /\ 3 \in (2 + 1)..Len(own)
    BY <1>3
  <2>2. Dashes(own[2]) /\ Solid(own[3])
    BY <1>3 DEF Line, Dashes, Solid, Blank
  <2> QED
    BY <1>1, <2>1, <2>2, SignatureBelowDashes
<1>4. CASE own = <<L("long"), L("blank"), L("cue"), L("contact")>>
  <2>1. 4 \in 1..Len(own) /\ Len(own) = 4 /\ own[4].kind = "contact"
    BY <1>4 DEF Line
  <2>2. \A i \in 1..Len(own) : ~ Dashes(own[i])
    BY <1>4 DEF Line, Dashes
  <2>3. \A i \in 4..Len(own) : ~ Ends(own[i])
    BY <1>4 DEF Line, Ends, Blank
  <2> QED
    BY <1>1, <2>1, <2>2, <2>3, SignatureAtTheEnd
<1> QED
  BY <1>2, <1>3, <1>4 DEF Typed

LEMMA OtherText ==
  ASSUME NEW p \in Person, NEW other \in AtHand(p)
  PROVE  /\ other \in Seq(Lines) /\ other # <<>> /\ Len(other) \in Nat
         /\ \A i \in 1..Len(other) : Solid(other[i]) /\ other[i].by \in {"outsider", "clark"}
<1> DEFINE L(w, k) == Line(w, k)
<1>1. \A w \in {"outsider", "clark"}, k \in {"text", "cue", "contact"} :
        L(w, k) \in Lines /\ Solid(L(w, k)) /\ L(w, k).by = w
  BY LineIs DEF Writers, Kinds
<1> HIDE DEF L
<1>2. CASE other = <<L("outsider", "text"), L("outsider", "cue"), L("outsider", "contact")>>
  BY <1>1, <1>2
<1>3. CASE other = <<L("clark", "text"), L("clark", "contact")>>
  BY <1>1, <1>3
<1> QED
  BY <1>2, <1>3 DEF AtHand, L

LEMMA QuotedText ==
  ASSUME NEW other \in Seq(Lines), other # <<>>
  PROVE  /\ Quote(other) \in Seq(Lines) /\ Len(Quote(other)) = Len(other)
         /\ \A i \in 1..Len(other) : History(Quote(other)[i]) /\ Solid(Quote(other)[i])
<1>1. DOMAIN other = 1..Len(other) /\ Len(other) \in Nat /\ \A i \in 1..Len(other) : other[i] \in Lines
  BY LenProperties, ElementOfSeq
<1>2. Quote(other) = [n \in 1..Len(other) |-> [other[n] EXCEPT !.quoted = TRUE]]
  BY <1>1 DEF Quote
<1>3. ASSUME NEW i \in 1..Len(other)
      PROVE  [other[i] EXCEPT !.quoted = TRUE] \in Lines /\ [other[i] EXCEPT !.quoted = TRUE].quoted
  BY <1>1 DEF Lines
<1>4. Quote(other) \in [1..Len(other) -> Lines]
  BY <1>2, <1>3
<1>5. Quote(other) \in Seq(Lines) /\ Len(Quote(other)) = Len(other)
  BY <1>1, <1>4
<1>6. \A i \in 1..Len(other) : Quote(other)[i].quoted
  BY <1>2, <1>3
<1> QED
  BY <1>5, <1>6 DEF History, Solid, Blank

-----------------------------------------------------------------------------
(* Mails as clients lay them out *)

(***************************************************************************)
(* What the properties say of one envelope.                                *)
(***************************************************************************)
Faithful(e) ==
  /\ e.own # <<>> /\ IsPrefix(e.own, e.says.full)
     => /\ IsPrefix(e.own, e.says.instruction)
        /\ \A l \in ToSet(e.says.instruction) : l.by \in {e.says.from, "client"}
  /\ e.says.full # <<>> => e.says.instruction # <<>>
  /\ /\ e.says.instruction = e.own
     /\ \E l \in ToSet(e.own) : l.kind = "contact"
     => /\ e.says.signature # <<>>
        /\ \A l \in ToSet(e.says.signature) : l.by = e.says.from

(***************************************************************************)
(* What the properties ask of an envelope, and what an envelope is.        *)
(***************************************************************************)
LEMMA EnvelopeSays ==
  ASSUME NEW m
  PROVE  LET e == Envelope(m)
             full == Trim(TextOf(m.parts))
         IN  /\ e.own = m.own /\ e.hand = m.hand
             /\ e.says.from = m.from /\ e.says.full = full
             /\ e.says.instruction = StripQuotedHistory(full)
             /\ e.says.signature = SignatureOf(full, StripQuotedHistory(full))
BY DEF Envelope, ParseMessage

LEMMA PrefixIs ==
  ASSUME NEW S, NEW own \in Seq(S), own # <<>>, NEW text \in Seq(S),
         Len(own) <= Len(text), \A i \in 1..Len(own) : own[i] = text[i]
  PROVE  IsPrefix(own, text)
<1>1. /\ Len(own) \in Nat \ {0} /\ Len(text) \in Nat
      /\ DOMAIN own = 1..Len(own) /\ DOMAIN text = 1..Len(text)
  BY EmptySeq, LenProperties
<1> DEFINE head == SubSeq(text, 1, Len(own))
<1>2. /\ head \in Seq(S) /\ Len(head) = Len(own)
      /\ \A i \in 1..Len(own) : head[i] = text[i]
  <2>1. 1 \in 1..(Len(text) + 1) /\ Len(own) \in 0..Len(text) /\ 1 <= Len(own)
    BY <1>1
  <2> QED
    BY <1>1, <2>1, SubText
<1>3. own = head
  <2> HIDE DEF head
  <2> QED
    BY <1>2, SeqEqual
<1> QED
  BY <1>1, <1>3, SubSeqFull DEF IsPrefix

LEMMA NotPrefix ==
  ASSUME NEW S, NEW own \in Seq(S), own # <<>>, NEW text \in Seq(S), own[1] # text[1]
  PROVE  ~ IsPrefix(own, text)
<1> SUFFICES ASSUME IsPrefix(own, text) PROVE FALSE
  OBVIOUS
<1>1. Len(own) \in Nat \ {0} /\ Len(text) \in Nat /\ Len(own) <= Len(text)
  BY EmptySeq, LenProperties DEF IsPrefix
<1>2. 1 \in 1..(Len(text) + 1) /\ Len(own) \in 0..Len(text) /\ 1 \in 1..(Len(own) - 1 + 1)
  BY <1>1
<1>3. SubSeq(text, 1, Len(own))[1] = text[1]
  BY <1>2, SubText
<1>4. SubSeq(text, 1, Len(own)) = own
  BY SubSeqFull DEF IsPrefix
<1> QED
  BY <1>3, <1>4

(***************************************************************************)
(* Where the instruction is what the sender typed, with a signature, that  *)
(* signature is taken.                                                     *)
(***************************************************************************)
LEMMA OwnSignature ==
  ASSUME NEW p \in Person, NEW own \in Typed(p), NEW full,
         \E l \in ToSet(own) : l.kind = "contact"
  PROVE  /\ SignatureOf(full, own) # <<>>
         /\ \A l \in ToSet(SignatureOf(full, own)) : l.by = p
<1>1. ExtractSignatureBlock(own) # <<>>
  BY TypedSignature
<1>2. SignatureOf(full, own) = ExtractSignatureBlock(own)
  BY <1>1 DEF SignatureOf
<1>3. ToSet(ExtractSignatureBlock(own)) \subseteq ToSet(own)
  BY TypedText, SignatureIsOfText
<1>4. \A l \in ToSet(own) : l.by = p
  BY TypedText, LenProperties DEF ToSet
<1> QED
  BY <1>1, <1>2, <1>3, <1>4

(***************************************************************************)
(* A mail that has what its sender typed on top is read faithfully:        *)
(* whatever is below, the client's own lines aside, comes after a line of  *)
(* history.                                                                *)
(***************************************************************************)
LEMMA OwnOnTop ==
  ASSUME NEW p \in Person, NEW own \in Typed(p), NEW rest \in Seq(Lines),
         NEW m, m.from = p, m.own = own, TextOf(m.parts) = own \o rest,
         \A i \in 1..Len(rest) :
           rest[i].by = "client" \/ \E j \in 1..i : History(rest[j])
  PROVE  Faithful(Envelope(m))
<1> DEFINE text == own \o rest
           n == Len(own)
           full == Trim(text)
           said == StripQuotedHistory(full)
<1>1. /\ own \in Seq(Lines) /\ own # <<>> /\ n \in Nat \ {0}
      /\ Solid(own[1]) /\ Solid(own[n])
      /\ \A i \in 1..n : own[i].by = p /\ ~ History(own[i])
  BY TypedText, EmptySeq
<1>2. /\ text \in Seq(Lines) /\ Len(text) = n + Len(rest) /\ Len(rest) \in Nat
      /\ \A i \in 1..n : text[i] = own[i]
      /\ \A i \in (n + 1)..Len(text) : text[i] = rest[i - n]
  BY <1>1, ConcatProperties, LenProperties
<1> HIDE DEF text, n
<1>3. n \in 1..Len(text) /\ 1 \in 1..n /\ n \in 1..n
  BY <1>1, <1>2
<1>4. PICK z \in n..Len(text) : full = SubSeq(text, 1, z)
  <2>1. Solid(text[1]) /\ Solid(text[n])
    BY <1>1, <1>2, <1>3
  <2> QED
    BY <1>2, <1>3, <2>1, TrimFromFirst
<1>5. /\ full \in Seq(Lines) /\ Len(full) = z /\ z \in Nat
      /\ \A i \in 1..z : full[i] = text[i]
  <2>1. 1 \in 1..(Len(text) + 1) /\ z \in 0..Len(text) /\ 1 <= z
    BY <1>2, <1>3
  <2> QED
    BY <1>2, <1>4, <2>1, SubText
<1> HIDE DEF full
<1>6. PICK b \in n..Len(full) :
        said = SubSeq(full, 1, b) /\ \A i \in 1..b : ~ History(full[i])
  <2>1. /\ n \in 1..Len(full) /\ Solid(full[1]) /\ Solid(full[n])
        /\ \A i \in 1..n : ~ History(full[i])
    BY <1>1, <1>2, <1>3, <1>5
  <2> QED
    BY <1>5, <2>1, LatestMessage
<1>7. /\ said \in Seq(Lines) /\ Len(said) = b /\ b \in Nat /\ n <= b
      /\ \A i \in 1..b : said[i] = text[i] /\ ~ History(text[i])
  <2>1. 1 \in 1..(Len(full) + 1) /\ b \in 0..Len(full) /\ 1 <= b
    BY <1>3, <1>5
  <2> QED
    BY <1>5, <1>6, <2>1, SubText
<1> HIDE DEF said
<1>8. IsPrefix(own, said)
  <2>1. Len(own) <= Len(said) /\ \A i \in 1..Len(own) : own[i] = said[i]
    BY <1>2, <1>3, <1>7 DEF n
  <2> QED
    BY <1>1, <1>7, <2>1, PrefixIs
<1>9. ASSUME NEW l \in ToSet(said) PROVE l.by \in {p, "client"}
  <2>1. PICK i \in 1..b : l = text[i]
    BY <1>7, LenProperties DEF ToSet
  <2>2. CASE i <= n
    <3>1. i \in 1..n
      BY <2>2
    <3> QED
      BY <1>1, <1>2, <2>1, <3>1
  <2>3. CASE i > n
    <3>1. i - n \in 1..Len(rest) /\ text[i] = rest[i - n]
      BY <1>2, <1>3, <1>5, <2>3
    <3>2. ASSUME NEW j \in 1..(i - n), History(rest[j]) PROVE FALSE
      <4>1. n + j \in 1..b /\ n + j \in (n + 1)..Len(text) /\ (n + j) - n = j
        BY <1>2, <1>3, <1>5, <1>7, <2>3
      <4> QED
        BY <1>2, <1>7, <3>2, <4>1
    <3> QED
      BY <2>1, <3>1, <3>2
  <2> QED
    BY <1>3, <1>7, <2>2, <2>3
<1>10. said # <<>>
  BY <1>3, <1>7, EmptySeq
<1>11. ASSUME said = own, \E l \in ToSet(own) : l.kind = "contact"
       PROVE  /\ SignatureOf(full, said) # <<>>
              /\ \A l \in ToSet(SignatureOf(full, said)) : l.by = p
  BY <1>11, OwnSignature
<1> QED
  BY <1>1, <1>8, <1>9, <1>10, <1>11, EnvelopeSays DEF Faithful, said, full, text

(***************************************************************************)
(* Of any other mail the properties ask less: that the instruction is not  *)
(* empty when there is a text, and the signature's case.                   *)
(***************************************************************************)
LEMMA OwnElsewhere ==
  ASSUME NEW m, TextOf(m.parts) \in Seq(Lines),
         \/ m.own = <<>>
         \/ /\ m.from \in Person /\ m.own \in Typed(m.from)
            /\ ~ IsPrefix(m.own, Trim(TextOf(m.parts)))
  PROVE  Faithful(Envelope(m))
<1> DEFINE text == TextOf(m.parts)
           full == Trim(text)
           said == StripQuotedHistory(full)
<1>1. full \in Seq(Lines)
  BY TrimTyped
<1>2. full # <<>> => said # <<>>
  <2>1. SUFFICES ASSUME full # <<>> PROVE \E i \in 1..Len(full) : ~ Blank(full[i])
    BY <1>1, NeverEmptied
  <2>2. PICK a \in 1..Len(text), b \in 1..Len(text) :
          a <= b /\ full = SubSeq(text, a, b) /\ Solid(text[a])
    BY <2>1, Trimmed
  <2>3. a \in 1..(Len(text) + 1) /\ b \in 0..Len(text) /\ 1 \in 1..(b - a + 1)
        /\ a + 1 - 1 = a
    BY <2>2, LenProperties
  <2>4. Len(full) = b - a + 1 /\ full[1] = text[a]
    BY <2>2, <2>3, SubText
  <2> QED
    BY <2>2, <2>3, <2>4 DEF Solid
<1>3. ASSUME said = m.own, \E l \in ToSet(m.own) : l.kind = "contact"
      PROVE  /\ SignatureOf(full, said) # <<>>
             /\ \A l \in ToSet(SignatureOf(full, said)) : l.by = m.from
  <2>1. m.own # <<>>
    BY <1>3 DEF ToSet
  <2> QED
    BY <1>3, <2>1, OwnSignature
<1> HIDE DEF said
<1> QED
  BY <1>2, <1>3, EnvelopeSays DEF Faithful, said

(***************************************************************************)
(* In a mail with history on top, what its sender typed does not come      *)
(* first.                                                                  *)
(***************************************************************************)
LEMMA HistoryAbove ==
  ASSUME NEW p \in Person, NEW own \in Typed(p), NEW more \in Seq(Lines)
  PROVE  /\ Mark \o more \in Seq(Lines)
         /\ ~ IsPrefix(own, Trim(Mark \o more))
<1> DEFINE text == Mark \o more
           full == Trim(text)
<1>1. /\ Mark \in Seq(Lines) /\ Len(Mark) = 2
      /\ Blank(Mark[1]) /\ History(Mark[2]) /\ Solid(Mark[2])
  <2>1. Line("client", "blank") \in Lines /\ Line("client", "mark") \in Lines
    BY LineIs DEF Writers, Kinds
  <2> QED
    BY <2>1 DEF Mark, Line, Blank, Solid, History
<1>2. /\ text \in Seq(Lines) /\ Len(text) = 2 + Len(more) /\ Len(more) \in Nat
      /\ text[1] = Mark[1] /\ text[2] = Mark[2]
  <2>1. Len(more) \in Nat
    OBVIOUS
  <2>2. /\ text \in Seq(Lines) /\ Len(text) = Len(Mark) + Len(more)
        /\ \A i \in 1..(Len(Mark) + Len(more)) :
             text[i] = IF i <= Len(Mark) THEN Mark[i] ELSE more[i - Len(Mark)]
    BY <1>1, ConcatProperties
  <2> HIDE DEF text
  <2> QED
    BY <1>1, <2>1, <2>2
<1> HIDE DEF text
<1>3. 2 \in 1..Len(text) /\ Blank(text[1]) /\ Solid(text[2]) /\ History(text[2])
  BY <1>1, <1>2
<1>4. PICK a \in 1..Len(text), b \in 1..Len(text) :
        /\ a <= b /\ full = SubSeq(text, a, b) /\ Solid(text[a])
        /\ \A i \in 1..(a - 1) : Blank(text[i])
  BY <1>2, <1>3, Trimmed DEF Solid
<1>5. a = 2
  <2>1. a # 1
    BY <1>3, <1>4 DEF Solid
  <2>2. a > 2 => 2 \in 1..(a - 1)
    OBVIOUS
  <2> QED
    BY <1>2, <1>3, <1>4, <2>1, <2>2 DEF Solid
<1>6. full \in Seq(Lines) /\ full[1] = text[2]
  <2>1. 2 \in 1..(Len(text) + 1) /\ b \in 0..Len(text) /\ 1 \in 1..(b - 2 + 1) /\ 2 + 1 - 1 = 2
    BY <1>2, <1>4, <1>5
  <2> QED
    BY <1>2, <1>4, <1>5, <2>1, SubText
<1> HIDE DEF full
<1>7. own \in Seq(Lines) /\ own # <<>> /\ 1 \in 1..Len(own) /\ ~ History(own[1])
  BY TypedText, EmptySeq
<1>8. ~ IsPrefix(own, full)
  BY <1>3, <1>6, <1>7, NotPrefix
<1> QED
  BY <1>2, <1>8 DEF full, text

(***************************************************************************)
(* Nor does it where another mail is read instead.                         *)
(***************************************************************************)
LEMMA OtherInstead ==
  ASSUME NEW p \in Person, NEW own \in Typed(p), NEW other \in AtHand(p)
  PROVE  ~ IsPrefix(own, Trim(other))
<1>1. /\ other \in Seq(Lines) /\ other # <<>> /\ Len(other) \in 1..Len(other)
      /\ 1 \in 1..Len(other) /\ Solid(other[1]) /\ Solid(other[Len(other)])
      /\ other[1].by \in {"outsider", "clark"}
  BY OtherText, EmptySeq
<1>2. Trim(other) = other
  BY <1>1, TrimmedAlready
<1>3. own \in Seq(Lines) /\ own # <<>> /\ own[1].by = p
  BY TypedText, EmptySeq
<1>4. own[1] # other[1]
  BY <1>1, <1>3, AddressAssumption
<1> QED
  BY <1>1, <1>2, <1>3, <1>4, NotPrefix

(***************************************************************************)
(* What the clients put below the sender's words.                          *)
(***************************************************************************)
LEMMA BelowMark ==
  ASSUME NEW more \in Seq(Lines)
  PROVE  /\ Mark \o more \in Seq(Lines)
         /\ \A i \in 1..Len(Mark \o more) :
              \/ (Mark \o more)[i].by = "client"
              \/ \E j \in 1..i : History((Mark \o more)[j])
<1> DEFINE rest == Mark \o more
<1>1. /\ Mark \in Seq(Lines) /\ Len(Mark) = 2
      /\ Mark[1].by = "client" /\ History(Mark[2])
  <2>1. Line("client", "blank") \in Lines /\ Line("client", "mark") \in Lines
    BY LineIs DEF Writers, Kinds
  <2> QED
    BY <2>1 DEF Mark, Line, History
<1>2. /\ rest \in Seq(Lines) /\ Len(rest) = Len(Mark) + Len(more)
      /\ \A i \in 1..(Len(Mark) + Len(more)) :
           rest[i] = IF i <= Len(Mark) THEN Mark[i] ELSE more[i - Len(Mark)]
  BY <1>1, ConcatProperties
<1>3. Len(more) \in Nat
  OBVIOUS
<1> HIDE DEF rest
<1>4. rest[1].by = "client" /\ History(rest[2])
  <2>1. /\ 1 \in 1..(Len(Mark) + Len(more)) /\ 1 <= Len(Mark)
        /\ 2 \in 1..(Len(Mark) + Len(more)) /\ 2 <= Len(Mark)
    BY <1>1, <1>3
  <2>2. rest[1] = Mark[1] /\ rest[2] = Mark[2]
    BY <1>2, <2>1
  <2> QED
    BY <1>1, <2>2
<1>5. ASSUME NEW i \in 1..Len(rest)
      PROVE  rest[i].by = "client" \/ \E j \in 1..i : History(rest[j])
  <2>1. CASE i = 1
    BY <1>4, <2>1
  <2>2. CASE i # 1
    <3>1. 2 \in 1..i
      BY <2>2
    <3> QED
      BY <1>4, <3>1
  <2> QED
    BY <2>1, <2>2
<1> QED
  BY <1>2, <1>5 DEF rest

LEMMA BelowFold ==
  ASSUME NEW more \in Seq(Lines), \A i \in 1..Len(more) : History(more[i])
  PROVE  /\ Folded \o more \in Seq(Lines)
         /\ \A i \in 1..Len(Folded \o more) :
              \/ (Folded \o more)[i].by = "client"
              \/ \E j \in 1..i : History((Folded \o more)[j])
<1> DEFINE rest == Folded \o more
<1>1. /\ Folded \in Seq(Lines) /\ Len(Folded) = 2
      /\ Folded[1].by = "client" /\ Folded[2].by = "client"
  <2>1. Line("client", "blank") \in Lines /\ Line("client", "long") \in Lines
    BY LineIs DEF Writers, Kinds
  <2> QED
    BY <2>1 DEF Folded, Line
<1>2. /\ rest \in Seq(Lines) /\ Len(rest) = Len(Folded) + Len(more)
      /\ \A i \in 1..(Len(Folded) + Len(more)) :
           rest[i] = IF i <= Len(Folded) THEN Folded[i] ELSE more[i - Len(Folded)]
  BY <1>1, ConcatProperties
<1>3. Len(more) \in Nat
  OBVIOUS
<1> HIDE DEF rest
<1>4. ASSUME NEW i \in 1..Len(rest)
      PROVE  rest[i].by = "client" \/ \E j \in 1..i : History(rest[j])
  <2>1. CASE i <= 2
    <3>1. i = 1 \/ i = 2
      BY <2>1
    <3> QED
      BY <1>1, <1>2, <1>3, <3>1
  <2>2. CASE i > 2
    <3>1. i - 2 \in 1..Len(more) /\ rest[i] = more[i - 2] /\ i \in 1..i
      BY <1>1, <1>2, <1>3, <2>2
    <3> QED
      BY <3>1
  <2> QED
    BY <2>1, <2>2
<1> QED
  BY <1>2, <1>4 DEF rest

LEMMA MailSays ==
  ASSUME NEW p, NEW own, NEW parts
  PROVE  LET m == Mail(p, p, own, parts)
         IN  m.hand = p /\ m.from = p /\ m.own = own /\ m.parts = parts
BY DEF Mail

(***************************************************************************)
(* However a client lays out a reply, it is read faithfully.               *)
(***************************************************************************)
LEMMA ComposedIsRead ==
  ASSUME NEW p \in Person, NEW own \in Typed(p), NEW other \in AtHand(p),
         NEW style \in Styles \ {"forward"}
  PROVE  Faithful(Envelope(Mail(p, p, own, Composed(own, other, style))))
<1> DEFINE parts == Composed(own, other, style)
           m == Mail(p, p, own, parts)
<1> SUFFICES Faithful(Envelope(m))
  OBVIOUS
<1>1. own \in Seq(Lines) /\ own # <<>> /\ Solid(own[Len(own)])
  BY TypedText
<1>2. other \in Seq(Lines) /\ other # <<>>
  BY OtherText
<1>3. /\ Quote(other) \in Seq(Lines) /\ Quote(other) # <<>>
      /\ \A i \in 1..Len(Quote(other)) : History(Quote(other)[i])
  BY <1>2, QuotedText, EmptySeq
<1>4. Mark \in Seq(Lines) /\ Folded \in Seq(Lines)
  <2>1. \A k \in {"blank", "mark", "long"} : Line("client", k) \in Lines
    BY LineIs DEF Writers, Kinds
  <2> QED
    BY <2>1 DEF Mark, Folded
<1>5. m.from = p /\ m.own = own /\ m.parts = parts
  BY MailSays
<1> HIDE DEF parts, m
<1>6. ASSUME NEW more \in Seq(Lines), TextOf(parts) = own \o Mark \o more
      PROVE  Faithful(Envelope(m))
  <2>1. TextOf(m.parts) = own \o (Mark \o more)
    <3>1. (own \o Mark) \o more = own \o (Mark \o more)
      BY <1>1, <1>4, <1>6, ConcatAssociative
    <3> QED
      BY <1>5, <1>6, <3>1
  <2> QED
    BY <1>5, <2>1, BelowMark, OwnOnTop
<1>7. CASE style = "top"
  <2>1. TextOf(parts) = own \o Mark \o Quote(other)
    <3>1. parts = <<Plain(own \o Mark \o Quote(other)), Html(own \o Mark \o other)>>
      BY <1>7 DEF Composed, parts
    <3> QED
      BY <3>1, ClientParts
  <2> QED
    BY <1>3, <1>6, <2>1
<1>8. CASE style = "folded"
  <2>1. TextOf(m.parts) = own \o (Folded \o Quote(other))
    <3>1. TextOf(parts) = own \o Folded \o Quote(other)
      BY <1>8, ClientParts DEF Composed, parts
    <3> QED
      BY <1>1, <1>3, <1>4, <1>5, <3>1, ConcatAssociative
  <2> QED
    BY <1>3, <1>5, <2>1, BelowFold, OwnOnTop
<1>9. CASE style = "block"
  <2>1. TextOf(parts) = own \o Mark \o other
    BY <1>9, ClientParts DEF Composed, parts
  <2> QED
    BY <1>2, <1>6, <2>1
<1>10. CASE style = "html"
  <2>1. TextOf(parts) = own \o Mark \o other
    <3>1. parts = <<Html(own \o Mark \o other), Attachment(other)>>
      BY <1>10 DEF Composed, parts
    <3> QED
      BY <3>1, ClientParts
  <2> QED
    BY <1>2, <1>6, <2>1
<1>11. CASE style = "below"
  <2> DEFINE more == Quote(other) \o own
  <2>1. more \in Seq(Lines)
    BY <1>1, <1>3, ConcatProperties
  <2>2. TextOf(m.parts) = Mark \o more
    <3>1. TextOf(parts) = Mark \o Quote(other) \o own
      BY <1>11, ClientParts DEF Composed, parts
    <3> QED
      BY <1>1, <1>3, <1>4, <1>5, <3>1, ConcatAssociative
  <2> HIDE DEF more
  <2> QED
    BY <1>5, <2>1, <2>2, HistoryAbove, OwnElsewhere
<1>12. ASSUME TextOf(parts) = own PROVE Faithful(Envelope(m))
  <2>1. TextOf(m.parts) = own \o <<>>
    BY <1>1, <1>5, <1>12, ConcatEmptySeq
  <2>2. <<>> \in Seq(Lines) /\ \A i : i \notin 1..Len(<<>>)
    BY EmptySeq
  <2> QED
    BY <1>5, <2>1, <2>2, OwnOnTop
<1>13. CASE style = "attached"
  <2>1. parts = <<Attachment(other), Plain(own)>>
    BY <1>13 DEF Composed, parts
  <2> QED
    BY <1>12, <2>1, ClientParts
<1>14. CASE style = "mail"
  <2>1. parts = <<Plain(own), Html(own), AttachedMail, Plain(other)>>
    BY <1>14 DEF Composed, parts
  <2> QED
    BY <1>12, <2>1, ClientParts
<1>15. ASSUME TextOf(parts) = other PROVE Faithful(Envelope(m))
  BY <1>2, <1>5, <1>15, OtherInstead, OwnElsewhere
<1>16. CASE style = "mail_html"
  <2>1. parts = <<Html(own), AttachedMail, Plain(other)>>
    BY <1>16 DEF Composed, parts
  <2> QED
    BY <1>15, <2>1, ClientParts
<1>17. CASE style = "inline"
  <2>1. parts = <<Html(own), InlineFile(other)>>
    BY <1>17 DEF Composed, parts
  <2> QED
    BY <1>15, <2>1, ClientParts
<1> QED
  BY <1>7, <1>8, <1>9, <1>10, <1>11, <1>13, <1>14, <1>16, <1>17, StyleAssumption

LEMMA WrittenIsRead ==
  ASSUME NEW p \in Person, NEW own \in Typed(p)
  PROVE  Faithful(Envelope(Mail(p, p, own, <<Plain(own)>>)))
<1> DEFINE m == Mail(p, p, own, <<Plain(own)>>)
<1>1. m.from = p /\ m.own = own /\ m.parts = <<Plain(own)>>
  BY MailSays
<1>2. TextOf(m.parts) = own \o <<>>
  <2>1. TextOf(<<Plain(own)>>) = own
    BY ClientParts
  <2> QED
    BY <1>1, <2>1, TypedText, ConcatEmptySeq
<1>3. <<>> \in Seq(Lines) /\ \A i : i \notin 1..Len(<<>>)
  BY EmptySeq
<1> HIDE DEF m
<1>4. Faithful(Envelope(m))
  BY <1>1, <1>2, <1>3, OwnOnTop
<1> QED
  BY <1>4 DEF m

(***************************************************************************)
(* Mail with nothing of anyone's own in it: a subject alone, something     *)
(* forwarded, and what machines send.                                      *)
(***************************************************************************)
LEMMA ForeignIsRead ==
  ASSUME NEW hand, NEW from, NEW parts, TextOf(parts) \in Seq(Lines)
  PROVE  Faithful(Envelope(Mail(hand, from, <<>>, parts)))
<1> DEFINE m == Mail(hand, from, <<>>, parts)
<1>1. m.own = <<>> /\ m.parts = parts
  BY DEF Mail
<1> HIDE DEF m
<1>2. Faithful(Envelope(m))
  BY <1>1, OwnElsewhere
<1> QED
  BY <1>2 DEF m

LEMMA EmptyIsRead ==
  ASSUME NEW p \in Person
  PROVE  Faithful(Envelope(Mail(p, p, <<>>, <<Plain(<<>>)>>)))
<1>1. TextOf(<<Plain(<<>>)>>) \in Seq(Lines)
  <2>1. TextOf(<<Plain(<<>>)>>) = <<>>
    BY ClientParts
  <2> QED
    BY <2>1
<1> QED
  BY <1>1, ForeignIsRead

LEMMA ForwardIsRead ==
  ASSUME NEW p \in Person, NEW other \in AtHand(p)
  PROVE  Faithful(Envelope(Mail(p, p, <<>>, Composed(<<>>, other, "forward"))))
<1>1. TextOf(Composed(<<>>, other, "forward")) = Mark \o other
  BY ClientParts DEF Composed
<1>2. Mark \o other \in Seq(Lines)
  <2>1. other \in Seq(Lines)
    BY OtherText
  <2> QED
    BY <2>1, BelowMark
<1> QED
  BY <1>1, <1>2, ForeignIsRead

LEMMA NoticeIsRead ==
  ASSUME NEW p \in Person, NEW m \in MachineMail(p)
  PROVE  m.from \in Person \union Daemons \union {Sender} /\ Faithful(Envelope(m))
<1> DEFINE notice(hand, from) == Mail(hand, from, <<>>, <<Plain(<<Line(hand, "text")>>)>>)
           marked == notice("responder", p)
           echo == notice("gateway", Sender)
<1>1. PICK hand \in Hands, from \in Person \union Daemons \union {Sender} :
        \/ m = notice(hand, from) \/ m = [notice(hand, from) EXCEPT !.list = TRUE]
        \/ m = [notice(hand, from) EXCEPT !.auto = TRUE]
        \/ m = [notice(hand, from) EXCEPT !.bulk = TRUE]
        \/ m = [notice(hand, from) EXCEPT !.report = TRUE]
  BY DEF MachineMail, Hands
<1>2. m.from = from /\ m.own = <<>> /\ m.parts = <<Plain(<<Line(hand, "text")>>)>>
  BY <1>1 DEF Mail
<1>3. TextOf(m.parts) \in Seq(Lines)
  <2>1. Line(hand, "text") \in Lines
    BY LineIs DEF Writers, Kinds
  <2>2. TextOf(m.parts) = <<Line(hand, "text")>>
    BY <1>2, ClientParts
  <2> QED
    BY <2>1, <2>2
<1> QED
  BY <1>2, <1>3, OwnElsewhere

-----------------------------------------------------------------------------
(* The relay *)

(***************************************************************************)
(* The relay's part of a step of the bus.                                  *)
(***************************************************************************)
LEMMA BusStepsRelay == [Next]_vars => [RelayM!Next]_relayVars
<1> SUFFICES ASSUME [Next]_vars PROVE RelayM!Next \/ UNCHANGED relayVars
  BY DEF relayVars, RelayM!relayVars
<1> QED
  BY DEF Next, vars, relayVars, Writes, MachineAnswers, Arrives, Sweep, Posts, Relays, RelayM!Next

(***************************************************************************)
(* A call that Gmail has heard of has got past the checks, and one that    *)
(* was answered 200 has been sent.                                         *)
(***************************************************************************)
RelayInv ==
  /\ RelayM!TypeOK
  /\ \A c \in Post :
       /\ c \in out => at[c] \notin {"idle", "body", "refused"}
       /\ at[c] \in {"copy", "yes"} => c \in out

LEMMA RelayStep == RelayInv /\ [RelayM!Next]_relayVars => RelayInv'
<1> SUFFICES ASSUME RelayInv, [RelayM!Next]_relayVars PROVE RelayInv'
  OBVIOUS
<1> USE DEF RelayInv, RelayM!TypeOK, RelayM!Open, RelayM!Ended, RelayM!Goto
<1>1. ASSUME NEW c \in Post, RelayM!Receive(c) \/ RelayM!Accept(c) \/ RelayM!Refuse(c)
      PROVE  RelayInv'
  BY <1>1 DEF RelayM!Receive, RelayM!Accept, RelayM!Refuse
<1>2. ASSUME NEW c \in Post, RelayM!BreaksOff(c) \/ RelayM!Unheard(c) PROVE RelayInv'
  BY <1>2 DEF RelayM!BreaksOff, RelayM!Unheard
<1>3. ASSUME NEW c \in Post, RelayM!MailSent(c) \/ RelayM!MailFails(c) \/ RelayM!CopyToSent(c)
      PROVE  RelayInv'
  BY <1>3 DEF RelayM!MailSent, RelayM!MailFails, RelayM!CopyToSent
<1>4. ASSUME NEW c \in Post, RelayM!GmailSends(c) PROVE RelayInv'
  BY <1>4 DEF RelayM!GmailSends
<1>5. CASE UNCHANGED relayVars
  BY <1>5 DEF relayVars
<1> QED
  BY <1>1, <1>2, <1>3, <1>4, <1>5 DEF RelayM!Next, RelayM!Handle

LEMMA RelayInvariance == Spec => []RelayInv
<1>1. Init => RelayInv
  BY DEF Init, RelayInv, RelayM!Init, RelayM!TypeOK
<1> QED
  BY <1>1, RelayStep, BusStepsRelay, PTL DEF Spec

\* What a move of the relay is to the caller.
LEMMA PhaseMoves ==
  ASSUME RelayM!TypeOK, NEW c \in Post, NEW step, RelayM!Goto(c, step)
  PROVE  /\ step = "body" /\ at[c] = "idle" => UNCHANGED RelayM!Phase
         /\ step \in RelayM!Open /\ at[c] \in RelayM!Open => UNCHANGED RelayM!Phase
         /\ step \in RelayM!Open =>
              RelayM!Phase' = [RelayM!Phase EXCEPT ![c] = "open"]
         /\ step = "refused" => RelayM!Phase' = [RelayM!Phase EXCEPT ![c] = "declined"]
         /\ step \in {"yes", "no", "unknown"} =>
              RelayM!Phase' = [RelayM!Phase EXCEPT ![c] = step]
BY DEF RelayM!TypeOK, RelayM!Goto, RelayM!Phase, RelayM!Open, RelayM!Ended

(***************************************************************************)
(* Every step of the relay is one of the contract or none.                 *)
(***************************************************************************)
LEMMA ContractStep ==
  RelayInv /\ [RelayM!Next]_relayVars => [RelayM!Contract!Next]_(RelayM!Contract!vars)
<1> SUFFICES ASSUME RelayInv, [RelayM!Next]_relayVars
             PROVE  RelayM!Contract!Next \/ UNCHANGED <<RelayM!Phase, out>>
  BY DEF RelayM!Contract!vars
<1> USE DEF RelayInv
<1>1. ASSUME NEW c \in Post, RelayM!Receive(c) PROVE UNCHANGED <<RelayM!Phase, out>>
  BY <1>1, PhaseMoves DEF RelayM!Receive
<1>2. ASSUME NEW c \in Post, RelayM!Accept(c) \/ RelayM!Refuse(c) \/ RelayM!BreaksOff(c)
      PROVE  RelayM!Contract!Next
  <2>1. RelayM!Phase[c] = "idle"
    BY <1>2 DEF RelayM!Accept, RelayM!Refuse, RelayM!BreaksOff, RelayM!Phase,
       RelayM!Open
  <2>2. /\ UNCHANGED out
        /\ \E p \in {"open", "declined"} : RelayM!Phase' = [RelayM!Phase EXCEPT ![c] = p]
    BY <1>2, PhaseMoves DEF RelayM!Accept, RelayM!Refuse, RelayM!BreaksOff, RelayM!Open
  <2> QED
    BY <2>1, <2>2 DEF RelayM!Contract!Next, RelayM!Contract!Ask, RelayM!Contract!Become
<1>3. ASSUME NEW c \in Post, RelayM!MailSent(c) PROVE UNCHANGED <<RelayM!Phase, out>>
  BY <1>3, PhaseMoves DEF RelayM!MailSent, RelayM!Open
<1>4. ASSUME NEW c \in Post,
             RelayM!MailFails(c) \/ RelayM!CopyToSent(c) \/ RelayM!Unheard(c)
      PROVE  RelayM!Contract!Next
  <2>1. RelayM!Phase[c] = "open"
    BY <1>4 DEF RelayM!MailFails, RelayM!CopyToSent, RelayM!Unheard, RelayM!Phase, RelayM!Open
  <2>2. /\ UNCHANGED out
        /\ \E a \in {"yes", "no", "unknown"} :
             /\ RelayM!Phase' = [RelayM!Phase EXCEPT ![c] = a]
             /\ a = "yes" => c \in out
    BY <1>4, PhaseMoves DEF RelayM!MailFails, RelayM!CopyToSent, RelayM!Unheard
  <2> QED
    BY <2>1, <2>2 DEF RelayM!Contract!Next, RelayM!Contract!Answer, RelayM!Contract!Answers,
       RelayM!Contract!Become
<1>5. ASSUME NEW c \in Post, RelayM!GmailSends(c) PROVE RelayM!Contract!Next
  <2>1. RelayM!Phase[c] \in {"open", "no", "unknown"}
    BY <1>5 DEF RelayM!GmailSends, RelayM!Phase, RelayM!Open
  <2>2. out' = out \union {c} /\ UNCHANGED RelayM!Phase
    BY <1>5 DEF RelayM!GmailSends, RelayM!Phase
  <2> QED
    BY <2>1, <2>2 DEF RelayM!Contract!Next, RelayM!Contract!Serve, RelayM!Contract!Answers
<1>6. CASE UNCHANGED relayVars
  BY <1>6 DEF relayVars, RelayM!Phase
<1> QED
  BY <1>1, <1>2, <1>3, <1>4, <1>5, <1>6 DEF RelayM!Next, RelayM!Handle

(***************************************************************************)
(* In the bus as a whole the relay keeps its contract with Clark: what was *)
(* answered 200 was sent, and what was refused never is.                   *)
(***************************************************************************)
THEOREM RelayIsHonest == Spec => RelayKeepsContract
<1>1. Init => RelayM!Contract!Init
  <2> SUFFICES ASSUME RelayM!Init
               PROVE  RelayM!Phase = [c \in Post |-> "idle"] /\ out = {}
    BY DEF Init, RelayM!Contract!Init
  <2> QED
    BY DEF RelayM!Init, RelayM!Phase, RelayM!Open
<1> QED
  BY <1>1, ContractStep, BusStepsRelay, RelayInvariance, PTL
  DEF Spec, RelayKeepsContract, RelayM!Contract!Spec

-----------------------------------------------------------------------------
(* What Clark is told *)

(***************************************************************************)
(* Whatever comes in at clark@ is read faithfully, and so was what Clark   *)
(* received.                                                               *)
(***************************************************************************)
MailInv ==
  \A m \in inbox : /\ m.from \in Person \union Daemons \union {Sender}
                   /\ Faithful(Envelope(m))

AskInv == \A e \in asked : Faithful(e) /\ e.says.from \in Authorized

(***************************************************************************)
(* The mail at clark@, and what Clark was asked.                           *)
(***************************************************************************)
LEMMA ReadStep == MailInv /\ AskInv /\ [Next]_vars => MailInv' /\ AskInv'
<1> SUFFICES ASSUME MailInv, AskInv, [Next]_vars PROVE MailInv' /\ AskInv'
  OBVIOUS
<1>1. ASSUME NEW p \in Person, Writes(p) PROVE MailInv' /\ AskInv'
  <2>1. PICK own, parts :
          Arrives(Mail(p, p, own, parts)) /\ Faithful(Envelope(Mail(p, p, own, parts)))
    <3>1. CASE \E own \in Typed(p) \union {<<>>} : Arrives(Mail(p, p, own, <<Plain(own)>>))
      BY <3>1, WrittenIsRead, EmptyIsRead
    <3>2. CASE \E own \in Typed(p), other \in AtHand(p), style \in Styles \ {"forward"} :
                 Arrives(Mail(p, p, own, Composed(own, other, style)))
      BY <3>2, ComposedIsRead
    <3>3. CASE \E other \in AtHand(p) :
                 Arrives(Mail(p, p, <<>>, Composed(<<>>, other, "forward")))
      BY <3>3, ForwardIsRead
    <3> QED
      BY <1>1, <3>1, <3>2, <3>3 DEF Writes
  <2>2. Mail(p, p, own, parts).from = p
    BY MailSays
  <2> QED
    BY <2>1, <2>2 DEF Arrives, MailInv, AskInv
<1>2. ASSUME NEW p \in Person, MachineAnswers(p) PROVE MailInv' /\ AskInv'
  <2>1. PICK mail \in MachineMail(p) : Arrives(mail)
    BY <1>2 DEF MachineAnswers
  <2> QED
    BY <2>1, NoticeIsRead DEF Arrives, MailInv, AskInv
<1>3. ASSUME NEW m \in inbox, Sweep(m) PROVE MailInv' /\ AskInv'
  <2>1. CASE Passes(m)
    <3>1. Faithful(Envelope(m)) /\ Envelope(m).says.from \in Authorized
      BY <2>1, EnvelopeSays DEF Passes, SenderAllowed, MailInv
    <3> QED
      BY <1>3, <2>1, <3>1 DEF Sweep, MailInv, AskInv
  <2>2. CASE ~ Passes(m)
    BY <1>3, <2>2 DEF Sweep, MailInv, AskInv
  <2> QED
    BY <2>1, <2>2
<1>4. ASSUME NEW c \in Post, Posts(c) \/ Relays(c) PROVE MailInv' /\ AskInv'
  BY <1>4 DEF Posts, Relays, mailVars, MailInv, AskInv
<1>5. ASSUME UNCHANGED vars PROVE MailInv' /\ AskInv'
  BY <1>5 DEF vars, mailVars, MailInv, AskInv
<1> QED
  BY <1>1, <1>2, <1>3, <1>4, <1>5 DEF Next

LEMMA ReadInvariance == Spec => [](MailInv /\ AskInv)
<1>1. Init => MailInv /\ AskInv
  BY DEF Init, MailInv, AskInv
<1> QED
  BY <1>1, ReadStep, PTL DEF Spec

(***************************************************************************)
(* Where a text begins with what its sender typed, that is the             *)
(* instruction, complete, and no line of anyone else is in it, whatever    *)
(* the client put below; and no text is stripped to nothing.               *)
(***************************************************************************)
THEOREM InstructionsAreOwn == Spec => []InstructionIsOwn
<1>1. AskInv => InstructionIsOwn
  BY DEF AskInv, Faithful, InstructionIsOwn
<1> QED
  BY <1>1, ReadInvariance, PTL

(***************************************************************************)
(* Where the instruction is exactly what its sender typed, and has a       *)
(* contact line, the signature that goes with it is the sender's, whatever *)
(* stands in the history.                                                  *)
(***************************************************************************)
THEOREM SignaturesAreOwn == Spec => []SignatureIsOwn
<1>1. AskInv => SignatureIsOwn
  BY DEF AskInv, Faithful, SignatureIsOwn
<1> QED
  BY <1>1, ReadInvariance, PTL

-----------------------------------------------------------------------------
(* The gate *)

(***************************************************************************)
(* Where the loop guard knows the gateway's address, mail that is neither  *)
(* a person's nor unmarked bears something a hygiene rule looks for.       *)
(***************************************************************************)
LetThrough == Person \union {"unmarked"}

GateInv ==
  /\ \A m \in inbox : m.hand \in LetThrough \/ HygieneDrops(m)
  /\ \A e \in asked : e.hand \in LetThrough

LEMMA MachinesShow ==
  ASSUME Sender = Self, NEW p \in Person, NEW m \in MachineMail(p)
  PROVE  m.hand \in LetThrough \/ HygieneDrops(m)
BY DEF MachineMail, Mail, LetThrough, HygieneDrops, SelfLoop, Automatic, ListMail, Bounce

LEMMA GateStep ==
  ASSUME Sender = Self
  PROVE  GateInv /\ [Next]_vars => GateInv'
<1> SUFFICES ASSUME GateInv, [Next]_vars PROVE GateInv'
  OBVIOUS
<1>1. ASSUME NEW p \in Person, Writes(p) PROVE GateInv'
  <2>1. PICK own, parts : Arrives(Mail(p, p, own, parts))
    BY <1>1 DEF Writes
  <2>2. Mail(p, p, own, parts).hand \in LetThrough
    BY DEF Mail, LetThrough
  <2> QED
    BY <2>1, <2>2 DEF Arrives, GateInv
<1>2. ASSUME NEW p \in Person, MachineAnswers(p) PROVE GateInv'
  <2>1. PICK mail \in MachineMail(p) : Arrives(mail)
    BY <1>2 DEF MachineAnswers
  <2> QED
    BY <2>1, MachinesShow DEF Arrives, GateInv
<1>3. ASSUME NEW m \in inbox, Sweep(m) PROVE GateInv'
  <2>1. Passes(m) => Envelope(m).hand \in LetThrough
    BY DEF Passes, Envelope, GateInv
  <2> QED
    BY <1>3, <2>1 DEF Sweep, GateInv
<1>4. ASSUME NEW c \in Post, Posts(c) \/ Relays(c) PROVE GateInv'
  BY <1>4 DEF Posts, Relays, mailVars, GateInv
<1>5. ASSUME UNCHANGED vars PROVE GateInv'
  BY <1>5 DEF vars, mailVars, GateInv
<1> QED
  BY <1>1, <1>2, <1>3, <1>4, <1>5 DEF Next

(***************************************************************************)
(* However many mails, people and replies: where SENDER_EMAIL is the       *)
(* address the loop guard looks for, no envelope is the gateway's own mail *)
(* come back, nor what a machine has marked as its own.                    *)
(***************************************************************************)
THEOREM GateHolds == Spec => []BusKeepsOut
<1>1. CASE Sender = Self
  <2>1. Init => GateInv
    BY DEF Init, GateInv
  <2>2. GateInv /\ [Next]_vars => GateInv'
    BY <1>1, GateStep
  <2>3. GateInv => BusKeepsOut
    BY DEF GateInv, BusKeepsOut, LetThrough
  <2> QED
    BY <2>1, <2>2, <2>3, PTL DEF Spec
<1>2. CASE Sender # Self
  <2>1. BusKeepsOut
    BY <1>2 DEF BusKeepsOut
  <2> QED
    BY <2>1, PTL
<1> QED
  BY <1>1, <1>2

-----------------------------------------------------------------------------
(* Types *)

(***************************************************************************)
(* The destinations of POSTs and the counts.                               *)
(***************************************************************************)
CountTypes ==
  /\ to \in [Post -> Person \union {Nobody}]
  /\ written \in 0..MaxWritten /\ machine \in 0..MaxMachine

LEMMA CountStep == CountTypes /\ [Next]_vars => CountTypes'
<1> SUFFICES ASSUME CountTypes, [Next]_vars PROVE CountTypes'
  OBVIOUS
<1> USE CountAssumption DEF CountTypes
<1>1. ASSUME NEW p \in Person, Writes(p) PROVE CountTypes'
  <2>1. written' = written + 1 /\ written < MaxWritten /\ UNCHANGED <<machine, to>>
    BY <1>1 DEF Writes, Arrives
  <2> QED
    BY <2>1
<1>2. ASSUME NEW p \in Person, MachineAnswers(p) PROVE CountTypes'
  <2>1. machine' = machine + 1 /\ machine < MaxMachine /\ UNCHANGED <<written, to>>
    BY <1>2 DEF MachineAnswers, Arrives
  <2> QED
    BY <2>1
<1>3. ASSUME NEW m \in inbox, Sweep(m) PROVE CountTypes'
  BY <1>3 DEF Sweep
<1>4. ASSUME NEW c \in Post, Posts(c) \/ Relays(c) PROVE CountTypes'
  BY <1>4 DEF Posts, Relays, mailVars
<1>5. CASE UNCHANGED vars
  BY <1>5 DEF vars, mailVars
<1> QED
  BY <1>1, <1>2, <1>3, <1>4, <1>5 DEF Next

(***************************************************************************)
(* Every variable of the bus keeps its type; in particular no envelope is  *)
(* from someone who is not on the list.                                    *)
(***************************************************************************)
THEOREM TypeCorrect == Spec => []TypeOK
<1>1. Init => CountTypes
  BY CountAssumption DEF Init, CountTypes
<1>2. RelayInv /\ MailInv /\ AskInv /\ CountTypes => TypeOK
  BY DEF RelayInv, MailInv, AskInv, CountTypes, Faithful, TypeOK
<1> QED
  BY <1>1, <1>2, CountStep, ReadInvariance, RelayInvariance, PTL DEF Spec
=============================================================================
