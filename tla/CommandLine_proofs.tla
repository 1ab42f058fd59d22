------------------------- MODULE CommandLine_proofs -------------------------
(***************************************************************************)
(* Proofs about the command line parser, for every line, prefix, set of    *)
(* commands and limit: the loop of Parse cuts a line where CommandLine     *)
(* says that it is to be cut.                                              *)
(*                                                                         *)
(* The first part shows how each word of that description (Quoted,         *)
(* Separators, Rank, Start, Text, Cut) changes from position p to p + 1;   *)
(* the second, that after p runes the parser's state is their value at p   *)
(* (InName, InArguments).                                                  *)
(***************************************************************************)
EXTENDS CommandLine, FiniteSetTheorems, SequenceTheorems, TLAPS

-----------------------------------------------------------------------------
(* Least and greatest members *)

LEMMA MinIs ==
    ASSUME NEW S \in SUBSET Nat, NEW x \in S, \A y \in S : x <= y
    PROVE  Min(S) = x
<1>1. x \in S /\ \A y \in S : x <= y
  OBVIOUS
<1>2. PICK m : m = CHOOSE z \in S : \A y \in S : z <= y
  OBVIOUS
<1>3. m \in S /\ \A y \in S : m <= y
  BY <1>1, <1>2, Zenon
<1>4. m = x
  BY <1>1, <1>3
<1> QED BY <1>2, <1>4 DEF Min

LEMMA MaxIs ==
    ASSUME NEW S \in SUBSET Nat, NEW x \in S, \A y \in S : y <= x
    PROVE  Max(S) = x
<1>1. x \in S /\ \A y \in S : x >= y
  OBVIOUS
<1>2. PICK m : m = CHOOSE z \in S : \A y \in S : z >= y
  OBVIOUS
<1>3. m \in S /\ \A y \in S : m >= y
  BY <1>1, <1>2, Zenon
<1>4. m = x
  BY <1>1, <1>3
<1> QED BY <1>2, <1>4 DEF Max

LEMMA SpaceFound ==
    ASSUME NEW s \in Seq(Runes), NEW f \in 1..Len(s), s[f] = Space,
           \A i \in 1..(f - 1) : s[i] # Space
    PROVE  FirstSpace(s) = f
<1> DEFINE S == {i \in 1..Len(s) : s[i] = Space} \union {Len(s) + 1}
<1>1. S \in SUBSET Nat /\ f \in S
  OBVIOUS
<1>2. \A y \in S : f <= y
  OBVIOUS
<1> HIDE DEF S
<1>3. Min(S) = f
  BY <1>1, <1>2, MinIs
<1> QED BY <1>3 DEF S, FirstSpace

LEMMA NoSpace ==
    ASSUME NEW s \in Seq(Runes), \A i \in 1..Len(s) : s[i] # Space
    PROVE  FirstSpace(s) = Len(s) + 1
<1>1. {i \in 1..Len(s) : s[i] = Space} \union {Len(s) + 1} = {Len(s) + 1}
  OBVIOUS
<1>2. PICK S, x : S = {Len(s) + 1} /\ x = Len(s) + 1
  OBVIOUS
<1>3. Min(S) = x
  BY <1>2, MinIs
<1> QED BY <1>1, <1>2, <1>3 DEF FirstSpace

-----------------------------------------------------------------------------
(* Reading one rune more: quotes, separators and the text between them *)

LEMMA NotQuotedFirst ==
    ASSUME NEW s, FirstSpace(s) \in Nat
    PROVE  ~ Quoted(s, FirstSpace(s) + 1)
<1>1. {j \in (FirstSpace(s) + 1)..((FirstSpace(s) + 1) - 1) : s[j] = Quote} = {}
  OBVIOUS
<1>2. ~ (0 % 2 = 1)
  OBVIOUS
<1> QED BY <1>1, <1>2, FS_EmptySet, Zenon DEF Quoted

LEMMA QuotedNext ==
    ASSUME NEW s, FirstSpace(s) \in Nat, NEW p \in Nat, p >= FirstSpace(s)
    PROVE  /\ s[p + 1] = Quote => (Quoted(s, p + 2) <=> ~ Quoted(s, p + 1))
           /\ s[p + 1] # Quote => (Quoted(s, p + 2) <=> Quoted(s, p + 1))
<1> DEFINE Q(i) == {j \in (FirstSpace(s) + 1)..(i - 1) : s[j] = Quote}
<1>1. IsFiniteSet(Q(p + 1)) /\ Cardinality(Q(p + 1)) \in Nat
  <2>1. IsFiniteSet((FirstSpace(s) + 1)..((p + 1) - 1))
    BY FS_Interval
  <2>2. Q(p + 1) \subseteq (FirstSpace(s) + 1)..((p + 1) - 1)
    OBVIOUS
  <2> HIDE DEF Q
  <2>3. IsFiniteSet(Q(p + 1))
    BY <2>1, <2>2, FS_Subset
  <2> QED BY <2>3, FS_CardinalityType
<1>2. CASE s[p + 1] = Quote
  <2>1. Q(p + 2) = Q(p + 1) \union {p + 1} /\ p + 1 \notin Q(p + 1)
    BY <1>2
  <2> HIDE DEF Q
  <2>2. Cardinality(Q(p + 2)) = Cardinality(Q(p + 1)) + 1
    BY <1>1, <2>1, FS_AddElement
  <2>3. Cardinality(Q(p + 2)) % 2 = 1 <=> ~ (Cardinality(Q(p + 1)) % 2 = 1)
    BY <1>1, <2>2
  <2> QED BY <1>2, <2>3 DEF Q, Quoted
<1>3. CASE s[p + 1] # Quote
  <2>1. Q(p + 2) = Q(p + 1)
    BY <1>3
  <2> QED BY <1>3, <2>1 DEF Quoted
<1> QED BY <1>2, <1>3

LEMMA SeparatorsAre ==
    ASSUME NEW s \in Seq(Runes), FirstSpace(s) \in Nat
    PROVE  /\ Separators(s) \subseteq (FirstSpace(s) + 1)..Len(s)
           /\ IsFiniteSet(Separators(s))
<1>1. Separators(s) \subseteq (FirstSpace(s) + 1)..Len(s)
  BY DEF Separators
<1>2. IsFiniteSet((FirstSpace(s) + 1)..Len(s))
  BY FS_Interval
<1> QED BY <1>1, <1>2, FS_Subset

Upto(s, p) == {j \in Separators(s) : j <= p}

LEMMA UptoFinite ==
    ASSUME NEW s \in Seq(Runes), FirstSpace(s) \in Nat, NEW p
    PROVE  /\ Upto(s, p) \subseteq Separators(s) /\ IsFiniteSet(Upto(s, p))
           /\ Rank(s, p) = Cardinality(Upto(s, p)) /\ Rank(s, p) \in Nat
<1>1. Upto(s, p) \subseteq Separators(s)
  BY DEF Upto
<1>2. IsFiniteSet(Upto(s, p))
  BY <1>1, SeparatorsAre, FS_Subset
<1>3. Rank(s, p) = Cardinality(Upto(s, p))
  BY DEF Rank, Upto
<1> QED BY <1>1, <1>2, <1>3, FS_CardinalityType

LEMMA RankFirst ==
    ASSUME NEW s \in Seq(Runes), FirstSpace(s) \in Nat
    PROVE  Rank(s, FirstSpace(s)) = 0
<1>1. Upto(s, FirstSpace(s)) = {}
  BY SeparatorsAre DEF Upto
<1> QED BY <1>1, UptoFinite, FS_EmptySet

LEMMA RankNext ==
    ASSUME NEW s \in Seq(Runes), FirstSpace(s) \in Nat, NEW p \in Nat
    PROVE  Rank(s, p + 1) = IF p + 1 \in Separators(s) THEN Rank(s, p) + 1 ELSE Rank(s, p)
<1>1. CASE p + 1 \in Separators(s)
  <2>1. Upto(s, p + 1) = Upto(s, p) \union {p + 1} /\ p + 1 \notin Upto(s, p)
    BY <1>1, SeparatorsAre DEF Upto
  <2> QED BY <1>1, <2>1, UptoFinite, FS_AddElement
<1>2. CASE p + 1 \notin Separators(s)
  <2>1. Upto(s, p + 1) = Upto(s, p)
    BY <1>2, SeparatorsAre DEF Upto
  <2> QED BY <1>2, <2>1, UptoFinite
<1> QED BY <1>1, <1>2

LEMMA RankGrows ==
    ASSUME NEW s \in Seq(Runes), FirstSpace(s) \in Nat,
           NEW i \in Separators(s), NEW j \in Separators(s), i < j
    PROVE  Rank(s, i) # Rank(s, j)
<1>1. i \in Nat /\ j \in Nat
  BY SeparatorsAre
<1>2. Upto(s, i) \subseteq Upto(s, j) /\ j \in Upto(s, j) /\ j \notin Upto(s, i)
  BY <1>1, SeparatorsAre DEF Upto
<1>3. Upto(s, i) # Upto(s, j)
  BY <1>2
<1>4. Cardinality(Upto(s, j)) # Cardinality(Upto(s, i))
  BY <1>2, <1>3, UptoFinite, FS_Subset
<1> QED BY <1>4, UptoFinite

LEMMA RankDistinct ==
    ASSUME NEW s \in Seq(Runes), FirstSpace(s) \in Nat,
           NEW i \in Separators(s), NEW j \in Separators(s), Rank(s, i) = Rank(s, j)
    PROVE  i = j
<1>1. i \in Nat /\ j \in Nat
  BY SeparatorsAre
<1>2. ~ (i < j) /\ ~ (j < i)
  BY RankGrows
<1> QED BY <1>1, <1>2

LEMMA StartFirst ==
    ASSUME NEW s \in Seq(Runes), FirstSpace(s) \in Nat
    PROVE  Start(s, FirstSpace(s) + 1) = FirstSpace(s)
<1>1. PICK S, f : S = {f} /\ f = FirstSpace(s)
  OBVIOUS
<1>2. {FirstSpace(s)} \union {j \in Separators(s) : j < FirstSpace(s) + 1} = S
  BY <1>1, SeparatorsAre
<1>3. Max(S) = f
  BY <1>1, MaxIs
<1> QED BY <1>1, <1>2, <1>3 DEF Start

LEMMA StartNext ==
    ASSUME NEW s \in Seq(Runes), FirstSpace(s) \in Nat, NEW p \in Nat
    PROVE  /\ p + 1 \in Separators(s) => Start(s, p + 2) = p + 1
           /\ p + 1 \notin Separators(s) => Start(s, p + 2) = Start(s, p + 1)
<1> DEFINE S(i) == {FirstSpace(s)} \union {j \in Separators(s) : j < i}
<1>1. CASE p + 1 \in Separators(s)
  <2>1. S(p + 2) \in SUBSET Nat /\ p + 1 \in S(p + 2) /\ \A j \in S(p + 2) : j <= p + 1
    BY <1>1, SeparatorsAre
  <2>2. PICK T, x : T = S(p + 2) /\ x = p + 1
    OBVIOUS
  <2>3. Max(T) = x
    BY <2>1, <2>2, MaxIs
  <2> QED BY <1>1, <2>2, <2>3 DEF Start
<1>2. CASE p + 1 \notin Separators(s)
  <2>1. S(p + 2) = S(p + 1)
    BY <1>2, SeparatorsAre
  <2> QED BY <1>2, <2>1 DEF Start
<1> QED BY <1>1, <1>2

\* The text of the k-th separator.
Piece(s, k) ==
    LET i == CHOOSE i \in Separators(s) : Rank(s, i) = k
    IN  Text(s, Start(s, i), i)

LEMMA CutIs ==
    ASSUME NEW s, NEW p
    PROVE  Cut(s, p) = [k \in 1..Rank(s, p) |-> Piece(s, k)]
BY DEF Cut, Piece

LEMMA CutFirst ==
    ASSUME NEW s \in Seq(Runes), FirstSpace(s) \in Nat
    PROVE  Cut(s, FirstSpace(s)) = <<>>
BY CutIs, RankFirst

LEMMA CutNext ==
    ASSUME NEW s \in Seq(Runes), FirstSpace(s) \in Nat, NEW p \in Nat
    PROVE  /\ p + 1 \in Separators(s) =>
                Cut(s, p + 1) = Append(Cut(s, p), Text(s, Start(s, p + 1), p + 1))
           /\ p + 1 \notin Separators(s) => Cut(s, p + 1) = Cut(s, p)
<1>1. PICK n : n = Rank(s, p)
  OBVIOUS
<1>2. n \in Nat
  BY <1>1, UptoFinite
<1>3. Cut(s, p) = [k \in 1..n |-> Piece(s, k)]
  BY <1>1, CutIs
<1>4. CASE p + 1 \in Separators(s)
  <2>1. Rank(s, p + 1) = n + 1
    BY <1>1, <1>4, RankNext
  <2>2. Cut(s, p + 1) = [k \in 1..(n + 1) |-> Piece(s, k)]
    BY <2>1, CutIs
  <2>3. Piece(s, n + 1) = Text(s, Start(s, p + 1), p + 1)
    <3>1. \A i \in Separators(s) : Rank(s, i) = n + 1 => i = p + 1
      BY <1>4, <2>1, RankDistinct
    <3>2. (CHOOSE i \in Separators(s) : Rank(s, i) = n + 1) = p + 1
      BY <1>4, <2>1, <3>1
    <3> QED BY <3>2 DEF Piece
  <2>4. [k \in 1..(n + 1) |-> Piece(s, k)] = Append([k \in 1..n |-> Piece(s, k)], Piece(s, n + 1))
    <3> DEFINE T == {Piece(s, k) : k \in 1..(n + 1)}
    <3>1. [k \in 1..n |-> Piece(s, k)] \in Seq(T) /\ Piece(s, n + 1) \in T
      BY <1>2
    <3> QED BY <1>2, <3>1
  <2> QED BY <1>3, <1>4, <2>2, <2>3, <2>4
<1>5. CASE p + 1 \notin Separators(s)
  <2>1. Rank(s, p + 1) = n
    BY <1>1, <1>5, RankNext
  <2> QED BY <1>3, <1>5, <2>1, CutIs
<1> QED BY <1>4, <1>5

\* Between l and p stands no quote, or just the one that opens the argument.
OnlyQuote(s, l, p, q) ==
    /\ q \in (l + 1)..p
    /\ s[q] = Quote
    /\ \A k \in (l + 1)..p : s[k] = Quote => k = q

Balanced(s, l, p, open) ==
    IF open THEN \E q : OnlyQuote(s, l, p, q)
            ELSE \A k \in (l + 1)..p : s[k] # Quote

LEMMA SubSeqNext ==
    ASSUME NEW s \in Seq(Runes), NEW i \in Nat \ {0}, NEW p \in Nat, i <= p + 1, p < Len(s)
    PROVE  SubSeq(s, i, p + 1) = Append(SubSeq(s, i, p), s[p + 1])
<1>1. p + 1 \in 1..Len(s) /\ s[p + 1] \in Runes
  OBVIOUS
<1>2. SubSeq(s, i, p) \in Seq(Runes) /\ Len(SubSeq(s, i, p)) = p + 1 - i
  OBVIOUS
<1>3. SubSeq(s, i, p + 1) \in Seq(Runes) /\ Len(SubSeq(s, i, p + 1)) = p + 2 - i
  BY <1>1
<1>4. PICK r : r = Append(SubSeq(s, i, p), s[p + 1])
  OBVIOUS
<1>5. r \in Seq(Runes) /\ Len(r) = p + 2 - i
  BY <1>1, <1>2, <1>4
<1>6. ASSUME NEW j \in 1..(p + 2 - i) PROVE r[j] = SubSeq(s, i, p + 1)[j]
  <2>1. SubSeq(s, i, p + 1)[j] = s[i + j - 1]
    BY <1>1
  <2>2. CASE j = p + 2 - i
    BY <1>1, <1>2, <1>4, <2>1, <2>2
  <2>3. CASE j # p + 2 - i
    <3>1. j \in 1..(p + 1 - i)
      BY <2>3
    <3>2. r[j] = SubSeq(s, i, p)[j]
      BY <1>1, <1>2, <1>4, <3>1
    <3> QED BY <2>1, <3>1, <3>2
  <2> QED BY <2>2, <2>3
<1>7. PICK t : t = SubSeq(s, i, p + 1)
  OBVIOUS
<1>8. t \in Seq(Runes) /\ Len(t) = Len(r) /\ \A j \in 1..Len(t) : t[j] = r[j]
  BY <1>3, <1>5, <1>6, <1>7
<1>9. t = r
  BY <1>5, <1>8, SeqEqual
<1> QED BY <1>4, <1>7, <1>9

LEMMA TextPlain ==
    ASSUME NEW s, NEW l, NEW p \in Nat, Balanced(s, l, p, FALSE)
    PROVE  Text(s, l, p + 1) = SubSeq(s, l + 1, p)
<1>1. (p + 1) - 1 = p
  OBVIOUS
<1>2. {k \in (l + 1)..((p + 1) - 1) : s[k] = Quote} = {}
  BY <1>1 DEF Balanced
<1> QED BY <1>1, <1>2 DEF Text

LEMMA TextQuoted ==
    ASSUME NEW s, NEW l \in Nat, NEW p \in Nat, NEW q, OnlyQuote(s, l, p, q)
    PROVE  Text(s, l, p + 1) = SubSeq(s, l + 1, q - 1) \o SubSeq(s, q + 1, p)
<1>1. (p + 1) - 1 = p
  OBVIOUS
<1>2. {k \in (l + 1)..((p + 1) - 1) : s[k] = Quote} = {q}
  BY <1>1 DEF OnlyQuote
<1>0. q \in Nat
  BY DEF OnlyQuote
<1>3. PICK S : S = {q}
  OBVIOUS
<1>4. Min(S) = q
  BY <1>0, <1>3, MinIs
<1>5. Text(s, l, p + 1) = IF {q} = {} THEN SubSeq(s, l + 1, p)
                          ELSE SubSeq(s, l + 1, Min({q}) - 1) \o SubSeq(s, Min({q}) + 1, p)
  BY <1>1, <1>2 DEF Text
<1>6. {q} # {} /\ Min({q}) = q
  BY <1>3, <1>4
<1> QED BY <1>5, <1>6

\* Between a separator and itself.
LEMMA TextEmpty ==
    ASSUME NEW s \in Seq(Runes), NEW p \in Nat
    PROVE  Balanced(s, p, p, FALSE) /\ Text(s, p, p + 1) = <<>>
<1>1. Balanced(s, p, p, FALSE)
  BY DEF Balanced
<1>2. SubSeq(s, p + 1, p) = <<>>
  OBVIOUS
<1> QED BY <1>1, <1>2, TextPlain

\* The quote that opens an argument is no part of it.
LEMMA TextOpen ==
    ASSUME NEW s \in Seq(Runes), NEW l \in Nat, NEW p \in Nat, l <= p, p < Len(s),
           Balanced(s, l, p, FALSE), s[p + 1] = Quote
    PROVE  Balanced(s, l, p + 1, TRUE) /\ Text(s, l, p + 2) = Text(s, l, p + 1)
<1>1. PICK q : q = p + 1
  OBVIOUS
<1>2. OnlyQuote(s, l, q, q) /\ q \in Nat
  BY <1>1 DEF Balanced, OnlyQuote
<1>3. Balanced(s, l, q, TRUE)
  BY <1>2 DEF Balanced
<1>4. Text(s, l, q + 1) = SubSeq(s, l + 1, q - 1) \o SubSeq(s, q + 1, q)
  BY <1>2, TextQuoted
<1>5. SubSeq(s, q + 1, q) = <<>> /\ q - 1 = p /\ q + 1 = p + 2
  BY <1>1
<1>6. SubSeq(s, l + 1, p) \in Seq(Runes)
  OBVIOUS
<1>7. SubSeq(s, l + 1, p) \o <<>> = SubSeq(s, l + 1, p)
  BY <1>6
<1>8. Text(s, l, p + 2) = SubSeq(s, l + 1, p)
  BY <1>4, <1>5, <1>7
<1> QED BY <1>1, <1>3, <1>8, TextPlain

\* Every other rune is.
LEMMA TextRune ==
    ASSUME NEW s \in Seq(Runes), NEW l \in Nat, NEW p \in Nat, l <= p, p < Len(s),
           NEW open \in BOOLEAN, Balanced(s, l, p, open), s[p + 1] # Quote
    PROVE  /\ Balanced(s, l, p + 1, open)
           /\ Text(s, l, p + 2) = Append(Text(s, l, p + 1), s[p + 1])
<1>0. (p + 1) + 1 = p + 2 /\ s[p + 1] \in Runes
  OBVIOUS
<1>1. CASE ~ open
  <2>1. Balanced(s, l, p + 1, FALSE) /\ Balanced(s, l, p, FALSE)
    BY <1>1 DEF Balanced
  <2>2. Text(s, l, (p + 1) + 1) = SubSeq(s, l + 1, p + 1) /\ Text(s, l, p + 1) = SubSeq(s, l + 1, p)
    <3>1. PICK r : r = p + 1 /\ r \in Nat
      OBVIOUS
    <3>2. Text(s, l, r + 1) = SubSeq(s, l + 1, r)
      BY <2>1, <3>1, TextPlain
    <3> QED BY <2>1, <3>1, <3>2, TextPlain
  <2>3. SubSeq(s, l + 1, p + 1) = Append(SubSeq(s, l + 1, p), s[p + 1])
    BY SubSeqNext
  <2> QED BY <1>0, <1>1, <2>1, <2>2, <2>3
<1>2. CASE open
  <2>1. PICK q : OnlyQuote(s, l, p, q)
    BY <1>2 DEF Balanced
  <2> q \in (l + 1)..p
    BY <2>1 DEF OnlyQuote
  <2>2. OnlyQuote(s, l, p + 1, q)
    BY <2>1 DEF OnlyQuote
  <2>3. Balanced(s, l, p + 1, open)
    BY <1>2, <2>2 DEF Balanced
  <2>4. Text(s, l, (p + 1) + 1) = SubSeq(s, l + 1, q - 1) \o SubSeq(s, q + 1, p + 1)
    <3>1. PICK r : r = p + 1 /\ r \in Nat
      OBVIOUS
    <3>2. OnlyQuote(s, l, r, q)
      BY <2>2, <3>1, Zenon
    <3>3. r \in Nat
      BY <3>1
    <3>4. Text(s, l, r + 1) = SubSeq(s, l + 1, q - 1) \o SubSeq(s, q + 1, r)
      BY <3>2, <3>3, TextQuoted, Zenon
    <3> QED BY <3>1, <3>4, Zenon
  <2>5. Text(s, l, p + 1) = SubSeq(s, l + 1, q - 1) \o SubSeq(s, q + 1, p)
    BY <2>1, TextQuoted
  <2>6. SubSeq(s, q + 1, p + 1) = Append(SubSeq(s, q + 1, p), s[p + 1])
    <3>1. q + 1 \in Nat \ {0} /\ q + 1 <= p + 1
      OBVIOUS
    <3> QED BY <3>1, SubSeqNext
  <2>7. PICK x, y, r : x = SubSeq(s, l + 1, q - 1) /\ y = SubSeq(s, q + 1, p) /\ r = s[p + 1]
    OBVIOUS
  <2>8. x \in Seq(Runes) /\ y \in Seq(Runes) /\ r \in Runes
    BY <1>0, <2>7
  <2>9. x \o Append(y, r) = Append(x \o y, r)
    BY <2>8
  <2> QED BY <1>0, <2>3, <2>4, <2>5, <2>6, <2>7, <2>9
<1> QED BY <1>1, <1>2

-----------------------------------------------------------------------------
(* What was read of a line s, after p runes *)

InName(s, p, n) ==
    /\ p >= 1 /\ s[1] = Prefix
    /\ \A i \in 1..p : s[i] # Space
    /\ n = SubSeq(s, 2, p)

InArguments(s, p, n, as, buf, open) ==
    /\ FirstSpace(s) \in Nat /\ FirstSpace(s) <= p
    /\ n = Name(s)
    /\ open <=> Quoted(s, p + 1)
    /\ Start(s, p + 1) \in Nat /\ Start(s, p + 1) <= p
    /\ Balanced(s, Start(s, p + 1), p, open)
    /\ as = Cut(s, p)
    /\ buf = Text(s, Start(s, p + 1), p + 1)

LEMMA SeparatorNext ==
    ASSUME NEW s \in Seq(Runes), NEW p \in Nat, p < Len(s),
           FirstSpace(s) \in Nat, FirstSpace(s) <= p
    PROVE  p + 1 \in Separators(s) <=> s[p + 1] = IF Quoted(s, p + 1) THEN Quote ELSE Space
<1>1. p + 1 \in (FirstSpace(s) + 1)..Len(s)
  OBVIOUS
<1> QED BY <1>1 DEF Separators

\* The first space ends the name.
LEMMA NameEnds ==
    ASSUME NEW s \in Seq(Runes), NEW p \in Nat, p < Len(s), NEW n, InName(s, p, n),
           s[p + 1] = Space
    PROVE  InArguments(s, p + 1, n, <<>>, <<>>, FALSE)
<1>1. PICK f : f = p + 1
  OBVIOUS
<1>2. f \in 1..Len(s) /\ s[f] = Space /\ f \in Nat /\ f - 1 = p
  BY <1>1
<1>3. \A i \in 1..(f - 1) : s[i] # Space
  BY <1>2 DEF InName
<1>4. FirstSpace(s) = f
  BY <1>2, <1>3, SpaceFound
<1>5. n = Name(s)
  BY <1>2, <1>4 DEF InName, Name
<1>6. ~ Quoted(s, f + 1)
  BY <1>2, <1>4, NotQuotedFirst
<1>7. Start(s, f + 1) = f
  BY <1>2, <1>4, StartFirst
<1>8. Cut(s, f) = <<>>
  BY <1>2, <1>4, CutFirst
<1>9. Balanced(s, f, f, FALSE) /\ Text(s, f, f + 1) = <<>>
  BY <1>2, TextEmpty
<1>10. PICK o, e : o = FALSE /\ e = <<>>
  OBVIOUS
<1>11. (o <=> Quoted(s, f + 1)) /\ Balanced(s, f, f, o)
  BY <1>6, <1>9, <1>10
<1>12. InArguments(s, f, n, e, e, o)
  BY <1>2, <1>4, <1>5, <1>7, <1>8, <1>9, <1>10, <1>11 DEF InArguments
<1> QED BY <1>1, <1>10, <1>12

\* A separator ends an argument, and leaves the quotes.
LEMMA ArgumentEnds ==
    ASSUME NEW s \in Seq(Runes), NEW p \in Nat, p < Len(s), NEW n, NEW as, NEW buf,
           NEW open \in BOOLEAN, InArguments(s, p, n, as, buf, open),
           s[p + 1] = IF open THEN Quote ELSE Space
    PROVE  InArguments(s, p + 1, n, Append(as, buf), <<>>, FALSE)
<1>1. FirstSpace(s) \in Nat /\ FirstSpace(s) <= p /\ (open <=> Quoted(s, p + 1))
  BY DEF InArguments
<1>2. p + 1 \in Separators(s)
  BY <1>1, SeparatorNext
<1>3. Start(s, p + 2) = p + 1
  BY <1>1, <1>2, StartNext
<1>4. Cut(s, p + 1) = Append(as, buf)
  BY <1>1, <1>2, CutNext DEF InArguments
<1>5. ~ Quoted(s, p + 2)
  BY <1>1, QuotedNext, RuneAssumption
<1>6. PICK q : q = p + 1
  OBVIOUS
<1>7. q \in Nat /\ q + 1 = p + 2 /\ FirstSpace(s) <= q
  BY <1>1, <1>6
<1>8. Balanced(s, q, q, FALSE) /\ Text(s, q, q + 1) = <<>>
  BY <1>7, TextEmpty
<1>9. n = Name(s)
  BY DEF InArguments
<1>10. PICK o, e, r : o = FALSE /\ e = <<>> /\ r = Append(as, buf)
  OBVIOUS
<1>11. (o <=> Quoted(s, q + 1)) /\ Balanced(s, q, q, o)
  BY <1>5, <1>7, <1>8, <1>10
<1>12. InArguments(s, q, n, r, e, o)
  BY <1>1, <1>3, <1>4, <1>6, <1>7, <1>8, <1>9, <1>10, <1>11 DEF InArguments
<1> QED BY <1>6, <1>10, <1>12

\* Any other rune goes on with the argument.
LEMMA ArgumentGoesOn ==
    ASSUME NEW s \in Seq(Runes), NEW p \in Nat, p < Len(s), NEW n, NEW as, NEW buf,
           NEW open \in BOOLEAN, InArguments(s, p, n, as, buf, open),
           s[p + 1] # IF open THEN Quote ELSE Space
    PROVE  InArguments(s, p + 1, n, as,
                       IF s[p + 1] = Quote THEN buf ELSE Append(buf, s[p + 1]),
                       open \/ s[p + 1] = Quote)
<1>1. /\ FirstSpace(s) \in Nat /\ FirstSpace(s) <= p /\ (open <=> Quoted(s, p + 1))
      /\ n = Name(s)
  BY DEF InArguments
<1>2. p + 1 \notin Separators(s)
  BY <1>1, SeparatorNext
<1>3. Start(s, p + 2) = Start(s, p + 1)
  BY <1>1, <1>2, StartNext
<1>4. Cut(s, p + 1) = as
  BY <1>1, <1>2, CutNext DEF InArguments
<1>5. PICK q, l, o : q = p + 1 /\ l = Start(s, p + 1) /\ o = (open \/ s[p + 1] = Quote)
  OBVIOUS
<1>6. /\ q \in Nat /\ q + 1 = p + 2 /\ FirstSpace(s) <= q
      /\ l \in Nat /\ l <= p /\ l <= q
      /\ Balanced(s, l, p, open) /\ buf = Text(s, l, p + 1)
  BY <1>1, <1>5 DEF InArguments
<1>7. o <=> Quoted(s, p + 2)
  BY <1>1, <1>5, QuotedNext
<1>8. /\ Balanced(s, l, q, o)
      /\ Text(s, l, q + 1) = IF s[p + 1] = Quote THEN buf ELSE Append(buf, s[p + 1])
  <2>1. CASE s[p + 1] = Quote
    <3>1. open = FALSE /\ o = TRUE
      BY <2>1, <1>5
    <3>2. Balanced(s, l, p, FALSE)
      BY <1>6, <3>1
    <3>3. Balanced(s, l, p + 1, TRUE) /\ Text(s, l, p + 2) = Text(s, l, p + 1)
      BY <1>6, <2>1, <3>2, TextOpen
    <3> QED BY <1>5, <1>6, <2>1, <3>1, <3>3
  <2>2. CASE s[p + 1] # Quote
    <3>1. o = open
      BY <2>2, <1>5
    <3>2. /\ Balanced(s, l, p + 1, open)
          /\ Text(s, l, p + 2) = Append(Text(s, l, p + 1), s[p + 1])
      BY <1>6, <2>2, TextRune
    <3> QED BY <1>5, <1>6, <2>2, <3>1, <3>2
  <2> QED BY <2>1, <2>2
<1>9. PICK r : r = IF s[p + 1] = Quote THEN buf ELSE Append(buf, s[p + 1])
  OBVIOUS
<1>10. InArguments(s, q, n, as, r, o)
  BY <1>1, <1>3, <1>4, <1>5, <1>6, <1>7, <1>8, <1>9 DEF InArguments
<1> QED BY <1>5, <1>9, <1>10

\* The end of the line ends what was being read.
LEMMA NameAtEnd ==
    ASSUME NEW s \in Seq(Runes), NEW n, InName(s, Len(s), n)
    PROVE  n = Name(s) /\ Arguments(s) = <<>>
<1>1. PICK f : f = Len(s) + 1
  OBVIOUS
<1>2. FirstSpace(s) = f /\ f \in Nat /\ f - 1 = Len(s)
  BY <1>1, NoSpace DEF InName
<1>3. n = Name(s)
  BY <1>2 DEF InName, Name
<1>4. Separators(s) = {}
  BY <1>2, SeparatorsAre
<1>5. Upto(s, Len(s)) = {}
  BY <1>4 DEF Upto
<1>6. Rank(s, Len(s)) = 0
  BY <1>2, <1>5, UptoFinite, FS_EmptySet
<1>7. Cut(s, Len(s)) = <<>>
  BY <1>6, CutIs
<1>8. Start(s, f) = f
  <2>1. PICK S : S = {f}
    OBVIOUS
  <2>2. {FirstSpace(s)} \union {j \in Separators(s) : j < f} = S
    BY <1>2, <1>4, <2>1
  <2>3. Max(S) = f
    BY <1>2, <2>1, MaxIs
  <2> QED BY <2>2, <2>3 DEF Start
<1>9. Text(s, f, f) = <<>>
  <2>1. {k \in (f + 1)..(f - 1) : s[k] = Quote} = {}
    BY <1>2
  <2>2. SubSeq(s, f + 1, f - 1) = <<>>
    BY <1>2
  <2> QED BY <2>1, <2>2 DEF Text
<1>10. Arguments(s) = <<>>
  BY <1>1, <1>7, <1>8, <1>9 DEF Arguments
<1> QED BY <1>3, <1>10

LEMMA ArgumentsAtEnd ==
    ASSUME NEW s \in Seq(Runes), NEW n, NEW as, NEW buf, NEW open,
           InArguments(s, Len(s), n, as, buf, open)
    PROVE  n = Name(s) /\ Arguments(s) = IF buf = <<>> THEN as ELSE Append(as, buf)
BY DEF InArguments, Arguments

-----------------------------------------------------------------------------
(* The parser *)

PInv ==
    /\ line \in Lines /\ pos \in 0..Len(line) /\ quoteState \in BOOLEAN
    /\ pc \in {"start", "name", "args", "dispatch", "regexp", "done"}
    /\ pc \in {"start", "name"} => args = <<>> /\ argBuf = <<>> /\ quoteState = FALSE
    /\ pc = "start" => pos = 0 /\ name = <<>>
    /\ pc = "name" => InName(line, pos, name)
    /\ pc = "args" => InArguments(line, pos, name, args, argBuf, quoteState)
    /\ pc = "dispatch" => name = Name(line) /\ args = Arguments(line)
    /\ pc = "regexp" => line[1] # Prefix
    /\ pc = "done" => CutAtSeparators

LEMMA LineIs == ASSUME PInv PROVE line \in Seq(Runes) /\ Len(line) \in Nat /\ pos \in Nat
BY RuneAssumption DEF PInv

LEMMA PInvInit == Init => PInv
<1> SUFFICES ASSUME Init PROVE PInv
  OBVIOUS
<1>1. line \in Seq(Runes)
  BY RuneAssumption DEF Init
<1>2. pos \in 0..Len(line)
  BY <1>1 DEF Init
<1> QED BY <1>2 DEF Init, PInv

LEMMA PInvNext == PInv /\ [Next]_vars => PInv'
<1> SUFFICES ASSUME PInv, [Next]_vars PROVE PInv'
  OBVIOUS
<1>0. /\ line \in Seq(Runes) /\ Len(line) \in Nat /\ pos \in Nat /\ pos <= Len(line)
      /\ line \in Lines /\ quoteState \in BOOLEAN
  <2>1. line \in Lines /\ pos \in 0..Len(line) /\ quoteState \in BOOLEAN
    BY Zenon DEF PInv
  <2> QED BY <2>1, LineIs
<1>a. ASSUME ReadRune("args"), pc = "args", ~ EOF, quoteState' \in BOOLEAN,
             InArguments(line, pos + 1, name', args', argBuf', quoteState')
      PROVE  PInv'
  <2>1. line' = line /\ pos' = pos + 1 /\ pc' = "args"
    BY <1>a DEF ReadRune
  <2>2. pos' \in 0..Len(line')
    BY <1>0, <1>a, <2>1 DEF EOF
  <2> QED BY <1>0, <1>a, <2>1, <2>2 DEF PInv
<1>b. pc = "args" /\ ~ EOF =>
         /\ pos < Len(line)
         /\ InArguments(line, pos, name, args, argBuf, quoteState)
  BY <1>0 DEF PInv, EOF
<1>1. CASE Ignore
  <2>1. pc' = "done" /\ ~ (Len(line) \in 1..MaxLen) /\ UNCHANGED <<line, pos, quoteState>>
    BY <1>0, <1>1, RuneAssumption DEF Ignore, EOF, PInv
  <2>2. CutAtSeparators'
    BY <2>1 DEF CutAtSeparators
  <2> QED BY <1>0, <2>1, <2>2 DEF PInv
<1>2. CASE ReadPrefix
  <2>1. /\ pos = 0 /\ pos' = 1 /\ pos' \in 0..Len(line') /\ line' = line
        /\ pc' = (IF line[1] = Prefix THEN "name" ELSE "regexp")
        /\ name' = <<>> /\ args' = <<>> /\ argBuf' = <<>> /\ quoteState' = FALSE
    BY <1>0, <1>2 DEF ReadPrefix, ReadRune, Rune, EOF, PInv
  <2>2. CASE line[1] = Prefix
    <3>1. InName(line, 1, <<>>)
      BY <1>0, <2>2, RuneAssumption DEF InName
    <3>2. InName(line', pos', name')
      BY <2>1, <3>1
    <3> QED BY <1>0, <2>1, <2>2, <3>2 DEF PInv
  <2>3. CASE line[1] # Prefix
    BY <1>0, <2>1, <2>3 DEF PInv
  <2> QED BY <2>2, <2>3
<1>3. CASE ReadName
  <2>1. /\ pos < Len(line) /\ pos' = pos + 1 /\ pos' \in 0..Len(line') /\ line' = line
        /\ pc' = (IF line[pos + 1] = Space THEN "args" ELSE "name")
        /\ name' = (IF line[pos + 1] = Space THEN name ELSE Append(name, line[pos + 1]))
        /\ args' = <<>> /\ argBuf' = <<>> /\ quoteState' = FALSE
        /\ InName(line, pos, name)
    BY <1>0, <1>3 DEF ReadName, ReadRune, Rune, EOF, PInv
  <2>2. CASE line[pos + 1] = Space
    <3>1. InArguments(line, pos + 1, name, <<>>, <<>>, FALSE)
      BY <1>0, <2>1, <2>2, NameEnds
    <3>2. InArguments(line', pos', name', args', argBuf', quoteState')
      BY <2>1, <2>2, <3>1
    <3> QED BY <1>0, <2>1, <2>2, <3>2 DEF PInv
  <2>3. CASE line[pos + 1] # Space
    <3>1. SubSeq(line, 2, pos + 1) = Append(SubSeq(line, 2, pos), line[pos + 1])
      BY <1>0, <2>1, SubSeqNext DEF InName
    <3>2. InName(line, pos + 1, Append(name, line[pos + 1]))
      BY <1>0, <2>1, <2>3, <3>1 DEF InName
    <3>3. InName(line', pos', name')
      BY <2>1, <2>3, <3>2
    <3> QED BY <1>0, <2>1, <2>3, <3>3 DEF PInv
  <2> QED BY <2>2, <2>3
<1>4. CASE EndName
  <2>1. /\ pc' = "dispatch" /\ UNCHANGED <<line, pos, name, args, quoteState>>
        /\ args = <<>> /\ InName(line, Len(line), name)
    BY <1>0, <1>4 DEF EndName, EOF, PInv
  <2>2. name = Name(line) /\ args = Arguments(line)
    BY <1>0, <2>1, NameAtEnd
  <2> QED BY <1>0, <2>1, <2>2 DEF PInv
<1>5. CASE EndArgument
  <2>1. /\ pc = "args" /\ ~ EOF /\ ReadRune("args")
        /\ line[pos + 1] = (IF quoteState THEN Quote ELSE Space)
        /\ name' = name /\ args' = Append(args, argBuf) /\ argBuf' = <<>> /\ quoteState' = FALSE
    BY <1>0, <1>5 DEF EndArgument, Rune
  <2>2. InArguments(line, pos + 1, name, Append(args, argBuf), <<>>, FALSE)
    BY <1>0, <1>b, <2>1, ArgumentEnds
  <2> QED BY <1>a, <2>1, <2>2
<1>6. CASE CloseQuote
  <2>1. /\ pc = "args" /\ ~ EOF /\ ReadRune("args")
        /\ line[pos + 1] = (IF quoteState THEN Quote ELSE Space)
        /\ name' = name /\ args' = Append(args, argBuf) /\ argBuf' = <<>> /\ quoteState' = FALSE
    BY <1>0, <1>6 DEF CloseQuote, Rune
  <2>2. InArguments(line, pos + 1, name, Append(args, argBuf), <<>>, FALSE)
    BY <1>0, <1>b, <2>1, ArgumentEnds
  <2> QED BY <1>a, <2>1, <2>2
<1>7. CASE OpenQuote
  <2>1. /\ pc = "args" /\ ~ EOF /\ ReadRune("args")
        /\ line[pos + 1] = Quote
        /\ line[pos + 1] # (IF quoteState THEN Quote ELSE Space)
        /\ UNCHANGED <<name, args, argBuf>> /\ quoteState' = TRUE
    BY <1>0, <1>7, RuneAssumption DEF OpenQuote, Rune
  <2>2. InArguments(line, pos + 1, name, args,
                    IF line[pos + 1] = Quote THEN argBuf ELSE Append(argBuf, line[pos + 1]),
                    quoteState \/ line[pos + 1] = Quote)
    BY <1>0, <1>b, <2>1, ArgumentGoesOn
  <2>3. (quoteState \/ line[pos + 1] = Quote) = TRUE
    BY <2>1
  <2>4. InArguments(line, pos + 1, name', args', argBuf', quoteState')
    BY <2>1, <2>2, <2>3
  <2> QED BY <1>a, <2>1, <2>4
<1>8. CASE ReadArgument
  <2>1. /\ pc = "args" /\ ~ EOF /\ ReadRune("args")
        /\ line[pos + 1] # Quote
        /\ line[pos + 1] # (IF quoteState THEN Quote ELSE Space)
        /\ UNCHANGED <<name, args, quoteState>> /\ argBuf' = Append(argBuf, line[pos + 1])
    BY <1>0, <1>8, RuneAssumption DEF ReadArgument, Rune
  <2>2. InArguments(line, pos + 1, name, args,
                    IF line[pos + 1] = Quote THEN argBuf ELSE Append(argBuf, line[pos + 1]),
                    quoteState \/ line[pos + 1] = Quote)
    BY <1>0, <1>b, <2>1, ArgumentGoesOn
  <2>3. (quoteState \/ line[pos + 1] = Quote) = quoteState
    BY <1>0, <2>1
  <2>4. InArguments(line, pos + 1, name', args', argBuf', quoteState')
    BY <2>1, <2>2, <2>3
  <2> QED BY <1>0, <1>a, <2>1, <2>4
<1>9. CASE EndArguments
  <2>1. /\ pc' = "dispatch" /\ UNCHANGED <<line, pos, name, quoteState>>
        /\ args' = (IF argBuf = <<>> THEN args ELSE Append(args, argBuf))
        /\ InArguments(line, Len(line), name, args, argBuf, quoteState)
    BY <1>0, <1>9 DEF EndArguments, EOF, PInv
  <2>2. name' = Name(line') /\ args' = Arguments(line')
    BY <1>0, <2>1, ArgumentsAtEnd
  <2>3. pos' \in 0..Len(line') /\ line' \in Lines /\ quoteState' \in BOOLEAN
    BY <1>0, <2>1
  <2> QED BY <2>1, <2>2, <2>3 DEF PInv
<1>10. CASE Dispatch
  <2>1. /\ pc' = "done" /\ UNCHANGED <<line, pos, quoteState>>
        /\ name = Name(line) /\ args = Arguments(line)
        /\ called' = (IF name \in Commands
                      THEN [by |-> "name", name |-> name, args |-> args] ELSE Nothing)
    BY <1>10 DEF Dispatch, PInv
  <2>2. CutAtSeparators'
    BY <2>1 DEF CutAtSeparators
  <2> QED BY <1>0, <2>1, <2>2 DEF PInv
<1>11. CASE MatchRegexp
  <2>1. pc' = "done" /\ UNCHANGED <<line, pos, quoteState>> /\ line[1] # Prefix
    BY <1>11 DEF MatchRegexp, PInv
  <2>2. CutAtSeparators'
    BY <2>1 DEF CutAtSeparators
  <2> QED BY <1>0, <2>1, <2>2 DEF PInv
<1>12. CASE UNCHANGED vars
  BY <1>12 DEF vars, PInv, CutAtSeparators
<1> QED BY <1>1, <1>2, <1>3, <1>4, <1>5, <1>6, <1>7, <1>8, <1>9, <1>10, <1>11, <1>12 DEF Next

\* CutAtSeparators: for every line, prefix and set of commands, Parse calls
\* exactly the commands it should, with the text between the separators.
THEOREM CallsWhatTheLineSays == Spec => []CutAtSeparators
<1>1. PInv => CutAtSeparators
  BY DEF PInv, CutAtSeparators
<1> QED BY <1>1, PInvInit, PInvNext, PTL DEF Spec
=============================================================================
