----------------------------- MODULE Bex_proofs -----------------------------
(***************************************************************************)
(* Proofs about the binary extensions, for every set of packets and every  *)
(* limit: a packet comes back field by field, up to the first table that   *)
(* is over the limit.                                                      *)
(*                                                                         *)
(* FlattenSeq is a recursive function, so that the first part proves, from *)
(* the well-foundedness of the natural numbers, that a set of numbers that *)
(* is closed under n + 1 holds them all, and with it that such a function  *)
(* exists and leaves every part where it was put.  The second part reads   *)
(* one submessage, the third one a packet: after k submessages the unread  *)
(* tokens are those from the end of the k-th part on (Rest).               *)
(***************************************************************************)
EXTENDS Bex, WellFoundedInduction, TLAPS

-----------------------------------------------------------------------------
(* Induction over the natural numbers, for a set of numbers. *)

\* In a relation without infinite descents, every set has a minimal element.
LEMMA Minimal ==
    \A R, S, T : IsWellFoundedOn(R, S) /\ T \subseteq S /\ T # {} =>
        \E x \in T : \A y \in T : ~ (<<y, x>> \in R)
BY WFMin

\* The order of the natural numbers is in such a relation.
LEMMA Below == \E R : IsWellFoundedOn(R, Nat) /\ \A m, n \in Nat : m < n => <<m, n>> \in R
<1>1. \A m, n \in Nat : m < n => <<m, n>> \in OpToRel(<, Nat)
  BY DEF OpToRel
<1> QED BY <1>1, NatLessThanWellFounded, Zenon

\* A set of natural numbers has a least element.
LEMMA Least ==
    ASSUME NEW T \in SUBSET Nat, T # {}
    PROVE  \E n \in T : \A m \in T : n <= m
<1>1. PICK R : IsWellFoundedOn(R, Nat) /\ \A m, n \in Nat : m < n => <<m, n>> \in R
  BY Below, Zenon
<1>2. PICK n \in T : \A m \in T : ~ (<<m, n>> \in R)
  <2>1. PICK N : N = Nat /\ IsWellFoundedOn(R, N) /\ T \subseteq N
    BY <1>1, Zenon
  <2>2. IsWellFoundedOn(R, N) /\ T \subseteq N
    BY <2>1
  <2> QED BY ONLY <2>2, T # {}, Minimal, Zenon
<1>3. \A m \in T : m \in Nat /\ n \in Nat /\ ~ (m < n)
  BY <1>1, <1>2
<1>4. \A m \in T : n <= m
  BY <1>3
<1> QED BY <1>4

\* A set that holds 0, and n + 1 with every n, holds every natural number.
LEMMA SetInduction ==
    ASSUME NEW S, 0 \in S, \A n \in Nat : n \in S => n + 1 \in S
    PROVE  Nat \subseteq S
<1> DEFINE T == Nat \ S
<1> SUFFICES ASSUME T # {} PROVE FALSE
  OBVIOUS
<1>1. PICK n \in T : \A m \in T : n <= m
  BY Least
<1>2. n \in Nat /\ n # 0 /\ n - 1 \in Nat
  OBVIOUS
<1>3. n - 1 \in S
  BY <1>1, <1>2
<1>4. (n - 1) + 1 = n
  BY <1>2
<1> QED BY <1>2, <1>3, <1>4

-----------------------------------------------------------------------------
(* What FlattenSeq computes: g[i] is the concatenation of the first i parts. *)

Flattens(g, parts, n) ==
    g = [i \in 1..n |-> IF i = 1 THEN parts[i] ELSE g[i - 1] \o parts[i]]

LEMMA FlattensExists ==
    ASSUME NEW parts, NEW m \in Nat
    PROVE  \E g : Flattens(g, parts, m)
<1> DEFINE S == {n \in Nat : \E g : Flattens(g, parts, n)}
<1>1. 0 \in S
  <2>1. Flattens([i \in 1..0 |-> 0], parts, 0)
    BY DEF Flattens
  <2> QED BY <2>1
<1>2. ASSUME NEW n \in Nat, n \in S PROVE n + 1 \in S
  <2>1. PICK g : Flattens(g, parts, n)
    BY <1>2
  <2> DEFINE h == [i \in 1..(n + 1) |->
                     IF i = 1 THEN parts[i] ELSE g[i - 1] \o parts[i]]
  <2>2. ASSUME NEW i \in 1..(n + 1), i # 1 PROVE g[i - 1] = h[i - 1]
    <3>1. i - 1 \in 1..n /\ i - 1 \in 1..(n + 1)
      BY <2>2
    <3> QED BY <3>1, <2>1 DEF Flattens
  <2>3. h = [i \in 1..(n + 1) |-> IF i = 1 THEN parts[i] ELSE h[i - 1] \o parts[i]]
    BY <2>2
  <2>4. Flattens(h, parts, n + 1)
    BY <2>3 DEF Flattens
  <2> QED BY <2>4
<1> HIDE DEF S
<1>3. Nat \subseteq S
  BY <1>1, <1>2, SetInduction
<1> QED BY <1>3 DEF S

LEMMA FlattenSeqFlattens ==
    ASSUME NEW parts, Len(parts) \in Nat, Len(parts) # 0
    PROVE  \E g : Flattens(g, parts, Len(parts)) /\ FlattenSeq(parts) = g[Len(parts)]
<1> DEFINE f == CHOOSE g : Flattens(g, parts, Len(parts))
<1>1. FlattenSeq(parts) = f[Len(parts)]
  BY DEF FlattenSeq, Flattens
<1>2. Flattens(f, parts, Len(parts))
  BY FlattensExists, Zenon
<1> QED BY <1>1, <1>2

LEMMA FlattensStep ==
    ASSUME NEW n \in Nat, NEW parts, NEW g, Flattens(g, parts, n),
           NEW i \in Nat, i + 1 \in 1..n
    PROVE  g[i + 1] = IF i = 0 THEN parts[i + 1] ELSE g[i] \o parts[i + 1]
<1>1. PICK j : j = i + 1
  OBVIOUS
<1>2. j \in 1..n /\ (j = 1 <=> i = 0) /\ j - 1 = i
  BY <1>1
<1>3. g[j] = IF j = 1 THEN parts[j] ELSE g[j - 1] \o parts[j]
  BY <1>2 DEF Flattens
<1> QED BY <1>1, <1>2, <1>3

\* t stands in s after position p.
At(s, p, t) == \A j \in 1..Len(t) : s[p + j] = t[j]

LEMMA Concatenation ==
    ASSUME NEW T, NEW s \in Seq(T), NEW t \in Seq(T)
    PROVE  /\ s \o t \in Seq(T)
           /\ Len(s) \in Nat /\ Len(t) \in Nat
           /\ Len(s \o t) = Len(s) + Len(t)
           /\ \A j \in 1..Len(s) : (s \o t)[j] = s[j]
           /\ At(s \o t, Len(s), t)
BY DEF At

Parts(T, n, parts) == \A i \in 1..n : parts[i] \in Seq(T)

\* Where the k-th part ends.
End(g, k) == IF k = 0 THEN 0 ELSE Len(g[k])

LEMMA Concatenations ==
    ASSUME NEW T, NEW n \in Nat, NEW parts, Parts(T, n, parts),
           NEW g, Flattens(g, parts, n)
    PROVE  \A i \in 1..n : g[i] \in Seq(T)
<1> DEFINE S == {i \in Nat : i \in 1..n => g[i] \in Seq(T)}
<1>1. 0 \in S
  OBVIOUS
<1>2. ASSUME NEW i \in Nat, i \in S PROVE i + 1 \in S
  <2>1. CASE i + 1 \in 1..n
    <3>1. g[i + 1] = IF i = 0 THEN parts[i + 1] ELSE g[i] \o parts[i + 1]
      BY <2>1, FlattensStep
    <3>2. i # 0 => i \in 1..n
      BY <2>1
    <3>4. CASE i = 0
      BY <3>1, <3>4, <2>1 DEF Parts
    <3>5. CASE i # 0
      <4>1. g[i] \in Seq(T) /\ parts[i + 1] \in Seq(T)
        BY <1>2, <3>2, <3>5, <2>1 DEF Parts
      <4>2. g[i + 1] \in Seq(T)
        BY <3>1, <3>5, <4>1
      <4> QED BY <4>2
    <3> QED BY <3>4, <3>5
  <2> QED BY <2>1
<1> HIDE DEF S
<1>3. Nat \subseteq S
  BY <1>1, <1>2, SetInduction
<1> QED BY <1>3 DEF S

\* t begins with s.
Begins(t, s) == Len(s) <= Len(t) /\ \A j \in 1..Len(s) : t[j] = s[j]

LEMMA BeginsItself ==
    ASSUME NEW T, NEW s \in Seq(T)
    PROVE  Begins(s, s)
BY DEF Begins

LEMMA BeginsLonger ==
    ASSUME NEW T, NEW r \in Seq(T), NEW s \in Seq(T), NEW t \in Seq(T), Begins(s, r)
    PROVE  Begins(s \o t, r)
<1>1. /\ Len(r) \in Nat /\ Len(s) \in Nat /\ Len(t) \in Nat
      /\ Len(s \o t) = Len(s) + Len(t)
      /\ \A j \in 1..Len(s) : (s \o t)[j] = s[j]
  BY Concatenation
<1>2. Len(r) <= Len(s) /\ \A j \in 1..Len(r) : s[j] = r[j]
  BY DEF Begins
<1>3. \A j \in 1..Len(r) : j \in 1..Len(s)
  BY <1>1, <1>2
<1>4. Len(r) <= Len(s \o t)
  BY <1>1, <1>2
<1> QED BY <1>1, <1>2, <1>3, <1>4 DEF Begins

\* What was written stays where it is when more is written.
LEMMA WrittenStays ==
    ASSUME NEW T, NEW n \in Nat, NEW parts, Parts(T, n, parts),
           NEW g, Flattens(g, parts, n), NEW k \in 1..n
    PROVE  \A m \in k..n : Begins(g[m], g[k])
<1>0. \A i \in 1..n : g[i] \in Seq(T)
  BY Concatenations
<1>1. ASSUME NEW m \in Nat, m # 0, m + 1 \in 1..n PROVE g[m + 1] = g[m] \o parts[m + 1]
  <2>1. PICK j : j = m + 1
    OBVIOUS
  <2>2. j \in 1..n /\ j # 1 /\ j - 1 = m
    BY <1>1, <2>1
  <2>3. g[j] = IF j = 1 THEN parts[j] ELSE g[j - 1] \o parts[j]
    BY <2>2 DEF Flattens
  <2> QED BY <2>1, <2>2, <2>3
<1> DEFINE S == {m \in Nat : m \in k..n => Begins(g[m], g[k])}
<1>2. 0 \in S
  OBVIOUS
<1>3. ASSUME NEW m \in Nat, m \in S PROVE m + 1 \in S
  <2> SUFFICES ASSUME m + 1 \in k..n PROVE Begins(g[m + 1], g[k])
    OBVIOUS
  <2>1. CASE m + 1 = k
    <3>1. g[k] \in Seq(T)
      BY <1>0
    <3>2. Begins(g[k], g[k])
      BY <3>1, BeginsItself
    <3> QED BY <2>1, <3>2
  <2>2. CASE m + 1 # k
    <3>1. m \in k..n /\ m \in 1..n /\ m + 1 \in 1..n /\ m # 0
      BY <2>2
    <3>2. g[m + 1] = g[m] \o parts[m + 1]
      BY <3>1, <1>1
    <3>3. g[m] \in Seq(T) /\ parts[m + 1] \in Seq(T) /\ g[k] \in Seq(T)
      BY <1>0, <3>1 DEF Parts
    <3>4. Begins(g[m], g[k])
      BY <1>3, <3>1
    <3>5. Begins(g[m] \o parts[m + 1], g[k])
      BY <3>3, <3>4, BeginsLonger
    <3> QED BY <3>2, <3>5
  <2> QED BY <2>1, <2>2
<1> HIDE DEF S
<1>4. Nat \subseteq S
  BY <1>2, <1>3, SetInduction
<1> QED BY <1>4 DEF S

LEMMA PartInPlace ==
    ASSUME NEW T, NEW n \in Nat, NEW parts, Parts(T, n, parts),
           NEW g, Flattens(g, parts, n), NEW k \in 0..(n - 1)
    PROVE  /\ g[n] \in Seq(T)
           /\ End(g, k) \in Nat
           /\ End(g, k + 1) = End(g, k) + Len(parts[k + 1])
           /\ End(g, k + 1) <= Len(g[n])
           /\ At(g[n], End(g, k), parts[k + 1])
<1>1. n \in 1..n /\ k + 1 \in 1..n /\ n \in (k + 1)..n /\ k + 1 # 0 /\ (k # 0 => k \in 1..n)
  OBVIOUS
<1>2. \A i \in 1..n : g[i] \in Seq(T)
  BY Concatenations
<1>3. Len(g[k + 1]) <= Len(g[n]) /\ \A j \in 1..Len(g[k + 1]) : g[n][j] = g[k + 1][j]
  <2>1. \A m \in (k + 1)..n : Begins(g[m], g[k + 1])
    BY <1>1, WrittenStays
  <2> QED BY <1>1, <2>1 DEF Begins
<1>4. parts[k + 1] \in Seq(T)
  BY <1>1 DEF Parts
<1>5. g[k + 1] = IF k = 0 THEN parts[k + 1] ELSE g[k] \o parts[k + 1]
  BY <1>1, FlattensStep
<1>6. /\ End(g, k) \in Nat
      /\ Len(g[k + 1]) = End(g, k) + Len(parts[k + 1])
      /\ At(g[k + 1], End(g, k), parts[k + 1])
  <2>1. CASE k = 0
    <3>1. End(g, k) = 0 /\ g[k + 1] = parts[k + 1]
      BY <2>1, <1>5 DEF End
    <3>2. Len(parts[k + 1]) \in Nat
      BY <1>4
    <3> QED BY <3>1, <3>2 DEF At
  <2>2. CASE k # 0
    <3>1. g[k] \in Seq(T)
      BY <2>2, <1>1, <1>2
    <3>2. g[k + 1] = g[k] \o parts[k + 1] /\ End(g, k) = Len(g[k])
      BY <2>2, <1>5 DEF End
    <3>3. /\ Len(g[k + 1]) = Len(g[k]) + Len(parts[k + 1])
          /\ At(g[k + 1], Len(g[k]), parts[k + 1])
      BY <3>1, <3>2, <1>4, Concatenation
    <3>4. Len(g[k]) \in Nat
      BY <3>1
    <3> QED BY <3>2, <3>3, <3>4
  <2> QED BY <2>1, <2>2
<1>7. ASSUME NEW j \in 1..Len(parts[k + 1])
      PROVE  g[n][End(g, k) + j] = parts[k + 1][j]
  <2>1. End(g, k) + j \in 1..Len(g[k + 1])
    BY <1>4, <1>6
  <2> QED BY <2>1, <1>3, <1>6 DEF At
<1> QED BY <1>1, <1>2, <1>3, <1>6, <1>7 DEF End, At

-----------------------------------------------------------------------------
(* One submessage: it is read as it was written. *)

\* The fields of fixed length.
Fields ==
    {"PrefixSize", "FileKey", "FileNonce", "FileMIME", "FileUUID", "MessageType",
     "Message", "Target", "SDPData", "ICECandidate", "SDPMLineIndex", "SDPMid",
     "Level", "TableKey"}

LEMMA SameFields ==
    ASSUME NEW h \in Headers
    PROVE  Reads(h) = Writes(h) /\ Writes(h) \in Seq(Fields)
<1>1. CASE h \in Plain \union Unknown \union {"SET_COLOR"}
  <2>1. Reads(h) = <<>> /\ Writes(h) = <<>>
    BY <1>1 DEF Reads, Writes, Plain, Unknown
  <2> QED BY <2>1
<1>2. CASE h = "FILE_ATTACHMENT"
  <2>1. Reads(h) = FileFields /\ Writes(h) = FileFields
    BY <1>2 DEF Reads, Writes, Plain, Unknown
  <2>2. FileFields \in Seq(Fields)
    BY DEF FileFields, Fields
  <2> QED BY <2>1, <2>2
<1>3. CASE h = "ICE_CANDIDATE"
  <2> DEFINE F == <<"Target", "ICECandidate", "SDPMLineIndex", "SDPMid">>
  <2>1. Reads(h) = F /\ Writes(h) = F
    BY <1>3 DEF Reads, Writes, Plain, Unknown
  <2>2. F \in Seq(Fields)
    BY DEF Fields
  <2> QED BY <2>1, <2>2
<1>4. CASE h \in {"TEXT_MESSAGE", "RTC_OFFER", "RTC_ANSWER", "SET_LOCKDOWN_LEVEL",
                  "SET_MODERATION_TABLE", "MOD_ELECTED", "WHITELIST_USER"}
  <2> USE DEF Reads, Writes, Plain, Unknown
  <2>1. CASE h = "TEXT_MESSAGE"
    <3>1. Reads(h) = <<"MessageType", "Message">> /\ Writes(h) = <<"MessageType", "Message">>
      BY <2>1
    <3>2. <<"MessageType", "Message">> \in Seq(Fields)
      BY DEF Fields
    <3> QED BY <3>1, <3>2, Zenon
  <2>2. CASE h \in {"RTC_OFFER", "RTC_ANSWER"}
    <3>1. Reads(h) = <<"Target", "SDPData">> /\ Writes(h) = <<"Target", "SDPData">>
      BY <2>2
    <3>2. <<"Target", "SDPData">> \in Seq(Fields)
      BY DEF Fields
    <3> QED BY <3>1, <3>2, Zenon
  <2>3. CASE h = "SET_LOCKDOWN_LEVEL"
    <3>1. Reads(h) = <<"Level">> /\ Writes(h) = <<"Level">>
      BY <2>3
    <3>2. <<"Level">> \in Seq(Fields)
      BY DEF Fields
    <3> QED BY <3>1, <3>2, Zenon
  <2>4. CASE h = "SET_MODERATION_TABLE"
    <3>1. Reads(h) = <<"TableKey">> /\ Writes(h) = <<"TableKey">>
      BY <2>4
    <3>2. <<"TableKey">> \in Seq(Fields)
      BY DEF Fields
    <3> QED BY <3>1, <3>2, Zenon
  <2>5. CASE h \in {"MOD_ELECTED", "WHITELIST_USER"}
    <3>1. Reads(h) = <<"Target">> /\ Writes(h) = <<"Target">>
      BY <2>5
    <3>2. <<"Target">> \in Seq(Fields)
      BY DEF Fields
    <3> QED BY <3>1, <3>2, Zenon
  <2> HIDE DEF Reads, Writes, Plain, Unknown
  <2> QED BY <1>4, <2>1, <2>2, <2>3, <2>4, <2>5
<1> QED BY <1>1, <1>2, <1>3, <1>4 DEF Headers

LEMMA FieldsSeq ==
    ASSUME NEW bx, Submessage(bx)
    PROVE  /\ EncodeFields(bx) \in Seq(ToSet(EncodeFields(bx)))
           /\ Len(EncodeFields(bx)) = Len(Writes(bx.Header))
<1>1. Len(Writes(bx.Header)) \in Nat
  BY SameFields DEF Submessage
<1> QED BY <1>1 DEF EncodeFields, ToSet

LEMMA BodySeq ==
    ASSUME NEW bx, Submessage(bx)
    PROVE  EncodeBody(bx) \in Seq(ToSet(EncodeBody(bx)))
<1>1. CASE bx.Header = "SET_COLOR"
  BY <1>1 DEF EncodeBody, ToSet
<1>2. CASE bx.Header = "SET_MODERATION_TABLE"
  <2>1. Len(bx.val.Table) \in Nat
    BY <1>2 DEF Submessage, Varying
  <2> DEFINE T == {<<"count", Len(bx.val.Table)>>} \union
                  {<<"entry", bx.val.Table[i]>> : i \in 1..Len(bx.val.Table)}
  <2>2. /\ <<<<"count", Len(bx.val.Table)>>>> \in Seq(T)
        /\ [i \in 1..Len(bx.val.Table) |-> <<"entry", bx.val.Table[i]>>] \in Seq(T)
    BY <2>1
  <2> HIDE DEF T
  <2>3. EncodeBody(bx) \in Seq(T)
    BY <1>2, <2>2 DEF EncodeBody
  <2> QED BY <2>3 DEF ToSet
<1>3. CASE bx.Header \notin {"SET_COLOR", "SET_MODERATION_TABLE"}
  BY <1>3 DEF EncodeBody, ToSet
<1> QED BY <1>1, <1>2, <1>3

\* Where the parts of a submessage stand.
Layout(bx, s) ==
    /\ Len(s) = 1 + Len(Writes(bx.Header)) + Len(EncodeBody(bx))
    /\ s[1] = <<"Header", bx.Header>>
    /\ \A i \in 1..Len(Writes(bx.Header)) : s[i + 1] = EncodeFields(bx)[i]
    /\ \A i \in 1..Len(EncodeBody(bx)) : s[1 + Len(Writes(bx.Header)) + i] = EncodeBody(bx)[i]

LEMMA SubmessageLayout ==
    ASSUME NEW bx, Submessage(bx)
    PROVE  /\ EncodeOne(bx) \in Seq(ToSet(EncodeOne(bx)))
           /\ Layout(bx, EncodeOne(bx))
<1> DEFINE H == <<<<"Header", bx.Header>>>>
           T == {<<"Header", bx.Header>>} \union ToSet(EncodeFields(bx))
                    \union ToSet(EncodeBody(bx))
<1>1. PICK F, B : F = EncodeFields(bx) /\ B = EncodeBody(bx)
  OBVIOUS
<1>2. H \in Seq(T) /\ F \in Seq(T) /\ B \in Seq(T)
  BY <1>1, FieldsSeq, BodySeq
<1>3. Len(H) = 1 /\ H[1] = <<"Header", bx.Header>>
  OBVIOUS
<1>4. EncodeOne(bx) = (H \o F) \o B
  BY <1>1 DEF EncodeOne
<1>5. Len(F) = Len(Writes(bx.Header))
  BY <1>1, FieldsSeq
<1> HIDE DEF H, T
<1>6. /\ H \o F \in Seq(T)
      /\ Len(F) \in Nat
      /\ Len(H \o F) = 1 + Len(F)
      /\ (H \o F)[1] = <<"Header", bx.Header>>
      /\ \A i \in 1..Len(F) : (H \o F)[1 + i] = F[i]
  <2>1. /\ H \o F \in Seq(T) /\ Len(H) \in Nat /\ Len(F) \in Nat
        /\ Len(H \o F) = Len(H) + Len(F)
        /\ \A j \in 1..Len(H) : (H \o F)[j] = H[j]
        /\ At(H \o F, Len(H), F)
    BY <1>2, Concatenation
  <2> QED BY <2>1, <1>3 DEF At
<1>7. PICK G : G = H \o F
  OBVIOUS
<1>8. /\ G \o B \in Seq(T)
      /\ Len(B) \in Nat
      /\ Len(G \o B) = 1 + Len(F) + Len(B)
      /\ \A i \in 1..(1 + Len(F)) : (G \o B)[i] = G[i]
      /\ \A i \in 1..Len(B) : (G \o B)[1 + Len(F) + i] = B[i]
  <2>1. G \in Seq(T) /\ Len(G) = 1 + Len(F)
    BY <1>6, <1>7
  <2>2. /\ G \o B \in Seq(T) /\ Len(G) \in Nat /\ Len(B) \in Nat
        /\ Len(G \o B) = Len(G) + Len(B)
        /\ \A j \in 1..Len(G) : (G \o B)[j] = G[j]
        /\ At(G \o B, Len(G), B)
    BY <1>2, <2>1, Concatenation
  <2> QED BY <2>1, <2>2 DEF At
<1>9. PICK s : s = G \o B
  OBVIOUS
<1>10. s[1] = <<"Header", bx.Header>>
  BY <1>6, <1>7, <1>8, <1>9
<1>11. \A i \in 1..Len(F) : s[i + 1] = F[i]
  <2> TAKE i \in 1..Len(F)
  <2>1. i + 1 \in 1..(1 + Len(F)) /\ i + 1 = 1 + i
    BY <1>6
  <2> QED BY <2>1, <1>6, <1>7, <1>8, <1>9
<1>12. Layout(bx, s)
  BY <1>1, <1>5, <1>8, <1>9, <1>10, <1>11 DEF Layout
<1>13. s = EncodeOne(bx)
  BY <1>4, <1>7, <1>9
<1>14. s \in Seq(T)
  BY <1>8, <1>9
<1>15. s \in Seq(ToSet(s))
  BY <1>14 DEF ToSet
<1> QED BY <1>12, <1>13, <1>15

LEMMA TwoDigits ==
    ASSUME NEW x \in 1..15, NEW y \in 0..15
    PROVE  Hex(16 * x + y) = <<x, y>>
<1>1. ~ (16 * x + y < 16)
  OBVIOUS
<1>2. (16 * x + y) \div 16 = x /\ (16 * x + y) % 16 = y
  OBVIOUS
<1> QED BY <1>1, <1>2 DEF Hex

\* r is s followed by x and y.
Extends(r, s, x, y) ==
    /\ Len(r) = Len(s) + 2
    /\ \A j \in 1..Len(s) : r[j] = s[j]
    /\ r[Len(s) + 1] = x
    /\ r[Len(s) + 2] = y

LEMMA Appended ==
    ASSUME NEW T, NEW s \in Seq(T), NEW x \in T, NEW y \in T
    PROVE  s \o <<x, y>> \in Seq(T) /\ Extends(s \o <<x, y>>, s, x, y)
<1>1. PICK t : t = <<x, y>>
  OBVIOUS
<1>2. t \in Seq(T) /\ Len(t) = 2 /\ t[1] = x /\ t[2] = y
  BY <1>1
<1>3. /\ s \o t \in Seq(T)
      /\ Len(s \o t) = Len(s) + Len(t)
      /\ \A j \in 1..Len(s) : (s \o t)[j] = s[j]
      /\ At(s \o t, Len(s), t)
  BY <1>2, Concatenation
<1>4. (s \o t)[Len(s) + 1] = x /\ (s \o t)[Len(s) + 2] = y
  BY <1>2, <1>3 DEF At
<1>5. Extends(s \o t, s, x, y)
  BY <1>2, <1>3, <1>4 DEF Extends
<1> QED BY <1>1, <1>3, <1>5

\* A byte under sixteen has one digit, any other one has two.
LEMMA Digits ==
    ASSUME NEW x \in 0..255, NEW d, d = Hex(x)
    PROVE  d \in Seq(0..255) /\ Len(d) \in {1, 2} /\ (x < 16 => Len(d) = 1)
<1>1. CASE x < 16
  <2>1. d = <<x>>
    BY <1>1 DEF Hex
  <2> QED BY <1>1, <2>1
<1>2. CASE ~ (x < 16)
  <2>1. PICK y, z : y = x \div 16 /\ z = x % 16
    OBVIOUS
  <2>2. y \in 0..255 /\ z \in 0..255
    BY <2>1
  <2>3. d = <<y, z>>
    BY <1>2, <2>1 DEF Hex
  <2> QED BY <1>2, <2>2, <2>3
<1> QED BY <1>1, <1>2

LEMMA ThreeParts ==
    ASSUME NEW T, NEW p \in Seq(T), NEW q \in Seq(T), NEW r \in Seq(T)
    PROVE  Len(p \o q \o r) = Len(p) + Len(q) + Len(r)
<1>1. p \o q \in Seq(T) /\ Len(p \o q) = Len(p) + Len(q)
  BY Concatenation
<1>2. Len((p \o q) \o r) = Len(p \o q) + Len(r)
  BY <1>1, Concatenation
<1> QED BY <1>1, <1>2

\* A colour with a byte under sixteen does not come back: a digit is missing.
LEMMA ColorLost ==
    ASSUME NEW c, ValidColor(c), NEW i \in {1, 3, 5}, c[i] = 0
    PROVE  ColorOf(ColorBytes(c)) # c
<1>1. \A j \in 1..6 : c[j] \in 0..15
  BY DEF ValidColor
<1>2. PICK x, y, z : x = 16 * c[1] + c[2] /\ y = 16 * c[3] + c[4] /\ z = 16 * c[5] + c[6]
  OBVIOUS
<1>3. x \in 0..255 /\ y \in 0..255 /\ z \in 0..255
  BY <1>1, <1>2
<1>4. x < 16 \/ y < 16 \/ z < 16
  BY <1>1, <1>2
<1>5. PICK p, q, r : p = Hex(x) /\ q = Hex(y) /\ r = Hex(z)
  OBVIOUS
<1>6. PICK out : out = p \o q \o r
  OBVIOUS
<1>7. Len(out) # 6
  <2>1. p \in Seq(0..255) /\ Len(p) \in {1, 2} /\ (x < 16 => Len(p) = 1)
    BY ONLY <1>3, <1>5, Digits
  <2>2. q \in Seq(0..255) /\ Len(q) \in {1, 2} /\ (y < 16 => Len(q) = 1)
    BY ONLY <1>3, <1>5, Digits
  <2>3. r \in Seq(0..255) /\ Len(r) \in {1, 2} /\ (z < 16 => Len(r) = 1)
    BY ONLY <1>3, <1>5, Digits
  <2>4. Len(p \o q \o r) = Len(p) + Len(q) + Len(r)
    BY ONLY <2>1, <2>2, <2>3, ThreeParts
  <2>5. PICK k, l, m : k = Len(p) /\ l = Len(q) /\ m = Len(r)
    OBVIOUS
  <2>6. k + l + m # 6
    BY ONLY <2>1, <2>2, <2>3, <2>5, <1>4
  <2> QED BY ONLY <2>4, <2>5, <2>6, <1>6
<1>8. ColorBytes(c) = <<x, y, z>>
  BY <1>2 DEF ColorBytes
<1>9. Len(c) = 6
  BY DEF ValidColor
<1>10. ColorOf(<<x, y, z>>) = out
  BY <1>5, <1>6 DEF ColorOf
<1>11. out # c
  BY <1>7, <1>9, Zenon
<1> QED BY <1>8, <1>10, <1>11, Zenon

\* A text that is no colour comes as black.
LEMMA ColorBlack ==
    ASSUME NEW c, ~ ValidColor(c)
    PROVE  ColorOf(ColorBytes(c)) = <<0, 0, 0>>
<1>1. ColorBytes(c) = <<0, 0, 0>>
  BY DEF ColorBytes
<1>2. Hex(0) = <<0>>
  BY DEF Hex
<1>3. ColorOf(<<0, 0, 0>>) = Hex(0) \o Hex(0) \o Hex(0)
  BY DEF ColorOf
<1>4. PICK s : s = <<0>>
  OBVIOUS
<1>5. s \in Seq({0}) /\ <<0, 0>> \in Seq({0})
  BY <1>4
<1>6. PICK t : t = s \o s
  OBVIOUS
<1>7. t = <<0, 0>>
  <2>1. t \in Seq({0}) /\ Len(t) = 2
    BY <1>4, <1>5, <1>6
  <2>2. t[1] = 0 /\ t[2] = 0
    BY <2>1
  <2> QED BY <2>1, <2>2
<1>8. t \o s = <<0, 0, 0>>
  <2>1. PICK u : u = t \o s
    OBVIOUS
  <2>2. u \in Seq({0}) /\ Len(u) = 3
    BY <1>4, <1>5, <1>7, <2>1, Concatenation
  <2>3. u[1] = 0 /\ u[2] = 0 /\ u[3] = 0
    <3>1. \A i \in 1..Len(u) : u[i] \in {0}
      BY ONLY <2>2
    <3> QED BY <2>2, <3>1
  <2>4. u = <<0, 0, 0>>
    BY <2>2, <2>3
  <2> QED BY <2>1, <2>4
<1> QED BY <1>1, <1>2, <1>3, <1>4, <1>6, <1>8

\* A colour whose bytes need two digits comes back.
LEMMA ColorBack ==
    ASSUME NEW c, c \in Seq(ToSet(c)), ValidColor(c), \A i \in {1, 3, 5} : c[i] # 0
    PROVE  ColorOf(ColorBytes(c)) = c
<1>1. /\ c[1] \in 1..15 /\ c[2] \in 0..15 /\ c[3] \in 1..15 /\ c[4] \in 0..15
      /\ c[5] \in 1..15 /\ c[6] \in 0..15
  <2>1. \A i \in 1..6 : c[i] \in 0..15
    BY DEF ValidColor
  <2> QED BY <2>1
<1>2. ColorBytes(c) = <<16 * c[1] + c[2], 16 * c[3] + c[4], 16 * c[5] + c[6]>>
  BY DEF ColorBytes
<1>3. /\ Hex(16 * c[1] + c[2]) = <<c[1], c[2]>>
      /\ Hex(16 * c[3] + c[4]) = <<c[3], c[4]>>
      /\ Hex(16 * c[5] + c[6]) = <<c[5], c[6]>>
  BY <1>1, TwoDigits
<1>4. ColorOf(ColorBytes(c)) = <<c[1], c[2]>> \o <<c[3], c[4]>> \o <<c[5], c[6]>>
  <2>1. PICK p, q, r : p = 16 * c[1] + c[2] /\ q = 16 * c[3] + c[4] /\ r = 16 * c[5] + c[6]
    OBVIOUS
  <2>2. ColorOf(<<p, q, r>>) = Hex(p) \o Hex(q) \o Hex(r)
    BY DEF ColorOf
  <2>3. ColorBytes(c) = <<p, q, r>>
    BY <1>2, <2>1
  <2>4. Hex(p) = <<c[1], c[2]>> /\ Hex(q) = <<c[3], c[4]>> /\ Hex(r) = <<c[5], c[6]>>
    BY <1>3, <2>1
  <2> QED BY <2>2, <2>3, <2>4, Zenon
<1>5. PICK s : s = <<c[1], c[2]>>
  OBVIOUS
<1>6. s \in Seq(0..15) /\ Len(s) = 2 /\ s[1] = c[1] /\ s[2] = c[2]
  BY <1>1, <1>5
<1>7. PICK t : t = s \o <<c[3], c[4]>>
  OBVIOUS
<1>8. t \in Seq(0..15) /\ Len(t) = 4 /\ \A i \in 1..4 : t[i] = c[i]
  <2>1. c[3] \in 0..15 /\ c[4] \in 0..15
    BY <1>1
  <2>2. PICK x, y : x = c[3] /\ y = c[4]
    OBVIOUS
  <2>3. x \in 0..15 /\ y \in 0..15
    BY <2>1, <2>2
  <2>4. s \o <<x, y>> \in Seq(0..15) /\ Extends(s \o <<x, y>>, s, x, y)
    BY <1>6, <2>3, Appended
  <2>5. t = s \o <<x, y>>
    BY <1>7, <2>2
  <2>6. t \in Seq(0..15) /\ Extends(t, s, c[3], c[4])
    BY <2>2, <2>4, <2>5
  <2>7. Len(t) = 4 /\ t[1] = s[1] /\ t[2] = s[2] /\ t[3] = c[3] /\ t[4] = c[4]
    BY ONLY <1>6, <2>6 DEF Extends
  <2> QED BY <1>6, <2>6, <2>7
<1>9. PICK u : u = t \o <<c[5], c[6]>>
  OBVIOUS
<1>10. u \in Seq(0..15) /\ Len(u) = 6 /\ \A i \in 1..6 : u[i] = c[i]
  <2>1. c[5] \in 0..15 /\ c[6] \in 0..15
    BY <1>1
  <2>2. PICK x, y : x = c[5] /\ y = c[6]
    OBVIOUS
  <2>3. x \in 0..15 /\ y \in 0..15
    BY <2>1, <2>2
  <2>4. t \o <<x, y>> \in Seq(0..15) /\ Extends(t \o <<x, y>>, t, x, y)
    BY <1>8, <2>3, Appended
  <2>5. u = t \o <<x, y>>
    BY <1>9, <2>2
  <2> QED BY <1>8, <2>2, <2>4, <2>5 DEF Extends
<1>11. Len(c) = 6
  BY DEF ValidColor
<1>12. u = c
  BY <1>10, <1>11
<1> QED BY <1>4, <1>5, <1>7, <1>9, <1>12

\* The next unread tokens are those of bx.
Ahead(bx) == At(wire, 0, EncodeOne(bx))

LEMMA Tokens ==
    ASSUME NEW bx, Submessage(bx), Ahead(bx)
    PROVE  /\ wire[1] = <<"Header", bx.Header>>
           /\ \A i \in 1..Len(Writes(bx.Header)) :
                wire[i + 1] = <<Writes(bx.Header)[i], bx.val[Writes(bx.Header)[i]]>>
           /\ \A i \in 1..Len(EncodeBody(bx)) :
                wire[1 + Len(Writes(bx.Header)) + i] = EncodeBody(bx)[i]
<1>1. PICK s, k, m : s = EncodeOne(bx) /\ k = Len(Writes(bx.Header)) /\ m = Len(EncodeBody(bx))
  OBVIOUS
<1>2. k \in Nat /\ m \in Nat
  BY <1>1, SameFields, BodySeq DEF Submessage
<1>3. Layout(bx, s)
  BY <1>1, SubmessageLayout
<1>4. Len(s) = 1 + k + m
  BY <1>1, <1>3 DEF Layout
<1>5. \A j \in 1..(1 + k + m) : wire[j] = s[j]
  BY <1>1, <1>2, <1>4 DEF Ahead, At
<1>6. \A i \in 1..k : i + 1 \in 1..(1 + k + m)
  BY <1>2
<1>7. \A i \in 1..m : 1 + k + i \in 1..(1 + k + m)
  BY <1>2
<1>8. 1 \in 1..(1 + k + m)
  BY <1>2
<1>9. wire[1] = <<"Header", bx.Header>>
  BY <1>3, <1>5, <1>8 DEF Layout
<1>10. \A i \in 1..k : wire[i + 1] = EncodeFields(bx)[i]
  BY <1>1, <1>3, <1>5, <1>6 DEF Layout
<1>11. \A i \in 1..m : wire[1 + k + i] = EncodeBody(bx)[i]
  BY <1>1, <1>3, <1>5, <1>7 DEF Layout
<1> QED BY <1>1, <1>9, <1>10, <1>11 DEF EncodeFields

\* What a body of varying length is read as.
LEMMA BodyBack ==
    ASSUME NEW bx, Submessage(bx), Ahead(bx),
           NEW h, h = bx.Header, NEW n, n = Len(Writes(h)) + 1
    PROVE  /\ DOMAIN Body(h, n) = Varying(h)
           /\ h = "SET_COLOR" => Body(h, n).Color = ColorOf(ColorBytes(bx.val.Color))
           /\ h = "SET_MODERATION_TABLE" =>
                Body(h, n).Table = IF Len(bx.val.Table) > MaxTable THEN <<>> ELSE bx.val.Table
           /\ ~ TooLong(bx) => BodyLength(h, n) = Len(EncodeBody(bx))
<1>1. n \in Nat
  BY SameFields DEF Submessage
<1>2. \A i \in 1..Len(EncodeBody(bx)) : wire[n + i] = EncodeBody(bx)[i]
  <2>1. \A i \in 1..Len(EncodeBody(bx)) : wire[1 + Len(Writes(h)) + i] = EncodeBody(bx)[i]
    BY Tokens
  <2>2. n = 1 + Len(Writes(h))
    BY SameFields DEF Submessage
  <2> QED BY <2>1, <2>2
<1>3. CASE h = "SET_COLOR"
  <2> DEFINE B == [i \in 1..3 |-> <<"byte", ColorBytes(bx.val.Color)[i]>>]
  <2>1. EncodeBody(bx) = B /\ Len(B) = 3
    BY <1>3 DEF EncodeBody
  <2>2. \A i \in 1..3 : wire[n + i][2] = ColorBytes(bx.val.Color)[i]
    <3>1. \A i \in 1..3 : B[i] = <<"byte", ColorBytes(bx.val.Color)[i]>>
      OBVIOUS
    <3> HIDE DEF B
    <3>2. \A i \in 1..3 : wire[n + i] = B[i]
      BY <1>2, <2>1
    <3> QED BY <3>1, <3>2
  <2>3. Body(h, n) = [Color |-> ColorOf([i \in 1..3 |-> wire[n + i][2]])]
    BY <1>3, Zenon DEF Body
  <2>4. ColorOf([i \in 1..3 |-> wire[n + i][2]]) = ColorOf(ColorBytes(bx.val.Color))
    <3>1. PICK f : f = [i \in 1..3 |-> wire[n + i][2]]
      OBVIOUS
    <3>2. PICK bytes : bytes = ColorBytes(bx.val.Color)
      OBVIOUS
    <3>3. \A i \in 1..3 : f[i] = bytes[i]
      BY <2>2, <3>1, <3>2
    <3>4. ColorOf(f) = ColorOf(bytes)
      BY <3>3 DEF ColorOf
    <3> QED BY <3>1, <3>2, <3>4, Zenon
  <2>5. BodyLength(h, n) = 3
    BY <1>3 DEF BodyLength
  <2>6. DOMAIN Body(h, n) = {"Color"} /\ Varying(h) = {"Color"}
    BY <1>3, <2>3 DEF Varying
  <2>7. Body(h, n).Color = ColorOf(ColorBytes(bx.val.Color))
    BY <2>3, <2>4
  <2> HIDE DEF B
  <2> QED BY <1>3, <2>1, <2>5, <2>6, <2>7
<1>4. CASE h = "SET_MODERATION_TABLE"
  <2>1. PICK t, m : t = bx.val.Table /\ m = Len(t)
    OBVIOUS
  <2>2. t \in Seq(ToSet(t)) /\ m \in Nat
    BY <1>4, <2>1 DEF Submessage, Varying
  <2> DEFINE E == [i \in 1..m |-> <<"entry", t[i]>>]
  <2>3. EncodeBody(bx) = <<<<"count", m>>>> \o E
    BY <1>4, <2>1 DEF EncodeBody
  <2>4. /\ Len(EncodeBody(bx)) = 1 + m
        /\ EncodeBody(bx)[1] = <<"count", m>>
        /\ \A i \in 1..m : EncodeBody(bx)[1 + i] = <<"entry", t[i]>>
    <3> DEFINE T == {<<"count", m>>} \union {<<"entry", t[i]>> : i \in 1..m}
    <3>1. PICK C : C = <<<<"count", m>>>>
      OBVIOUS
    <3>2. /\ C \in Seq(T) /\ Len(C) = 1 /\ C[1] = <<"count", m>>
          /\ E \in Seq(T) /\ Len(E) = m
          /\ \A i \in 1..m : E[i] = <<"entry", t[i]>>
      BY <2>2, <3>1
    <3> HIDE DEF T, E
    <3>3. /\ Len(C \o E) = Len(C) + Len(E)
          /\ \A j \in 1..Len(C) : (C \o E)[j] = C[j]
          /\ At(C \o E, Len(C), E)
      BY <3>2, Concatenation
    <3>4. (C \o E)[1] = <<"count", m>> /\ \A i \in 1..m : (C \o E)[1 + i] = E[i]
      BY <3>2, <3>3 DEF At
    <3> QED BY <3>1, <3>2, <3>3, <3>4, <2>3
  <2>5. /\ wire[n + 1][2] = m
        /\ \A i \in 1..m : wire[n + 1 + i][2] = t[i]
    <3>1. 1 \in 1..(1 + m) /\ \A i \in 1..m : 1 + i \in 1..(1 + m) /\ n + (1 + i) = n + 1 + i
      BY <1>1, <2>2
    <3> QED BY <1>2, <2>4, <3>1
  <2>6. BodyLength(h, n) = 1 + (IF m > MaxTable THEN 0 ELSE m)
    BY <1>4, <2>5 DEF BodyLength
  <2>7. Body(h, n) = [Table |-> [i \in 1..(BodyLength(h, n) - 1) |-> wire[n + 1 + i][2]]]
    BY <1>4 DEF Body
  <2>8. BodyLength(h, n) - 1 = IF m > MaxTable THEN 0 ELSE m
    BY <2>2, <2>6
  <2>9. Body(h, n).Table = IF m > MaxTable THEN <<>> ELSE t
    <3>1. CASE m > MaxTable
      BY <2>7, <2>8, <3>1
    <3>2. CASE ~ (m > MaxTable)
      <4>1. Body(h, n) = [Table |-> [i \in 1..m |-> wire[n + 1 + i][2]]]
        BY <2>7, <2>8, <3>2
      <4>2. [i \in 1..m |-> wire[n + 1 + i][2]] = [i \in 1..m |-> t[i]]
        BY <2>5
      <4>3. [i \in 1..m |-> t[i]] = t
        BY <2>1, <2>2
      <4>4. Body(h, n) = [Table |-> t]
        BY <4>1, <4>2, <4>3, Zenon
      <4> QED BY <3>2, <4>4
    <3> QED BY <3>1, <3>2
  <2>10. DOMAIN Body(h, n) = {"Table"} /\ Varying(h) = {"Table"}
    BY <1>4, <2>7 DEF Varying
  <2>11. ~ TooLong(bx) => ~ (m > MaxTable)
    BY <1>4, <2>1 DEF TooLong
  <2> QED BY <1>4, <2>1, <2>4, <2>6, <2>9, <2>10, <2>11
<1>5. CASE h \notin {"SET_COLOR", "SET_MODERATION_TABLE"}
  <2>1. Body(h, n) = <<>> /\ BodyLength(h, n) = 0 /\ Varying(h) = {} /\ EncodeBody(bx) = <<>>
    BY <1>5 DEF Body, BodyLength, Varying, EncodeBody
  <2> QED BY <1>5, <2>1
<1> QED BY <1>3, <1>4, <1>5

\* A submessage is read as it was written, to its last token.
LEMMA ReadsBack ==
    ASSUME NEW bx, Submessage(bx), Ahead(bx)
    PROVE  /\ Same(bx, ReadOne)
           /\ ~ TooLong(bx) => ReadLength = Len(EncodeOne(bx))
<1> DEFINE h     == bx.Header
           names == Writes(h)
           n     == Len(names) + 1
           fixed == [f \in ToSet(names) |->
                       LET i == CHOOSE i \in 1..Len(names) : names[i] = f
                       IN  ReadField(f, wire[i + 1])]
           body  == Body(h, n)
           val   == [f \in DOMAIN fixed \union DOMAIN body |->
                       IF f \in DOMAIN body THEN body[f] ELSE fixed[f]]
<1>1. wire[1][2] = h /\ Reads(h) = names
  BY Tokens, SameFields DEF Submessage
<1>2. ReadOne = [Header |-> h, val |-> val]
  BY <1>1 DEF ReadOne
<1>3. \A f \in ToSet(names) : fixed[f] = bx.val[f]
  <2> SUFFICES ASSUME NEW f \in ToSet(names) PROVE fixed[f] = bx.val[f]
    OBVIOUS
  <2>1. \E i \in 1..Len(names) : names[i] = f
    BY SameFields DEF ToSet, Submessage
  <2>2. PICK i : i = CHOOSE j \in 1..Len(names) : names[j] = f
    OBVIOUS
  <2>3. i \in 1..Len(names) /\ names[i] = f
    BY <2>1, <2>2
  <2>4. wire[i + 1] = <<f, bx.val[f]>>
    BY <2>3, Tokens
  <2>5. fixed[f] = ReadField(f, wire[i + 1])
    BY <2>2
  <2> QED BY <2>4, <2>5 DEF ReadField
<1>4. /\ DOMAIN body = Varying(h)
      /\ h = "SET_COLOR" => body.Color = ColorOf(ColorBytes(bx.val.Color))
      /\ h = "SET_MODERATION_TABLE" =>
           body.Table = IF Len(bx.val.Table) > MaxTable THEN <<>> ELSE bx.val.Table
      /\ ~ TooLong(bx) => BodyLength(h, n) = Len(EncodeBody(bx))
  BY BodyBack
<1>5. DOMAIN val = DOMAIN bx.val
  BY <1>4 DEF Submessage
<1>6. ASSUME NEW f \in DOMAIN bx.val
      PROVE  CASE f = "Color" ->
                    IF ValidColor(bx.val.Color)
                    THEN val.Color = bx.val.Color
                           <=> \A i \in {1, 3, 5} : bx.val.Color[i] # 0
                    ELSE val.Color = <<0, 0, 0>>
               [] f = "Table" ->
                    val.Table = IF Len(bx.val.Table) > MaxTable THEN <<>> ELSE bx.val.Table
               [] OTHER -> val[f] = bx.val[f]
  <2>1. f \in ToSet(names) \/ f \in Varying(h)
    BY <1>6 DEF Submessage
  <2>2. f \in ToSet(names) => f \in Fields
    BY SameFields DEF ToSet, Submessage
  <2>3. CASE f \in Varying(h)
    <3>1. CASE h = "SET_COLOR"
      <4>1. f = "Color" /\ val.Color = ColorOf(ColorBytes(bx.val.Color))
        BY <1>4, <2>3, <3>1 DEF Varying
      <4>2. bx.val.Color \in Seq(ToSet(bx.val.Color))
        BY <3>1 DEF Submessage, Varying
      <4>3. PICK c : c = bx.val.Color
        OBVIOUS
      <4>4. /\ ValidColor(c) => (ColorOf(ColorBytes(c)) = c
                                   <=> \A i \in {1, 3, 5} : c[i] # 0)
            /\ ~ ValidColor(c) => ColorOf(ColorBytes(c)) = <<0, 0, 0>>
        BY <4>2, <4>3, ColorBack, ColorLost, ColorBlack
      <4> QED BY <4>1, <4>3, <4>4
    <3>2. CASE h = "SET_MODERATION_TABLE"
      <4>1. /\ f = "Table"
            /\ val.Table = IF Len(bx.val.Table) > MaxTable THEN <<>> ELSE bx.val.Table
        BY <1>4, <2>3, <3>2 DEF Varying
      <4> QED BY <4>1
    <3>3. CASE h \notin {"SET_COLOR", "SET_MODERATION_TABLE"}
      BY <2>3, <3>3 DEF Varying
    <3> QED BY <3>1, <3>2, <3>3
  <2>4. CASE f \notin Varying(h)
    <3>1. f \in ToSet(names) /\ f \notin {"Color", "Table"}
      BY <2>1, <2>2, <2>4 DEF Fields
    <3>2. val[f] = fixed[f]
      BY <1>4, <2>4, <3>1
    <3>3. val[f] = bx.val[f]
      BY <1>3, <3>1, <3>2
    <3> HIDE DEF val
    <3> QED BY <3>1, <3>3
  <2> QED BY <2>3, <2>4
<1> HIDE DEF val, fixed, body
<1>7. Same(bx, ReadOne)
  <2>1. ReadOne.Header = h /\ ReadOne.val = val
    BY <1>2
  <2> QED BY <1>5, <1>6, <2>1 DEF Same
<1>8. ReadLength = n + BodyLength(h, n)
  BY <1>1 DEF ReadLength
<1>9. Len(EncodeOne(bx)) = n + Len(EncodeBody(bx))
  <2>1. Len(EncodeOne(bx)) = 1 + Len(names) + Len(EncodeBody(bx))
    BY SubmessageLayout DEF Layout
  <2>2. Len(names) \in Nat /\ Len(EncodeBody(bx)) \in Nat
    BY SameFields, BodySeq DEF Submessage
  <2> QED BY <2>1, <2>2
<1> QED BY <1>4, <1>7, <1>8, <1>9

-----------------------------------------------------------------------------
(* The packet: after k submessages, the unread tokens are those of the rest. *)

Encoded == [i \in 1..length |-> EncodeOne(sent[i])]

Rest ==
    \E T, g :
        /\ Parts(T, length, Encoded)
        /\ Flattens(g, Encoded, length)
        /\ wire = SubSeq(g[length], End(g, Len(b)) + 1, Len(g[length]))

Shape ==
    /\ sent \in Packets /\ length = Len(sent)
    /\ b \in Seq(ToSet(b)) /\ Len(b) <= length

\* Nothing takes effect before the packet was decoded to its end.
Phases ==
    /\ pc = "decode" => effects = <<>>
    /\ pc # "decode" => length > MaxSubmessages \/ Len(b) = length
    /\ length > MaxSubmessages => effects = <<>> /\ pc # "handle"

\* No table among the first n submessages is over the limit: behind one that
\* is, the decoder stands at tokens that are no submessages.
Clean(n) == \A j \in 1..n : ~ TooLong(sent[j])

Agree == \A i \in 1..Len(b) : Clean(i - 1) => Same(sent[i], b[i])

BInv ==
    /\ Shape
    /\ Phases
    /\ Agree
    /\ Len(b) < length /\ Clean(Len(b)) => Rest

LEMMA SentShape ==
    ASSUME Shape
    PROVE  /\ length \in Nat /\ Len(b) \in Nat
           /\ \A i \in 1..length : Submessage(sent[i])
BY PacketsAssumption DEF Shape

\* All tokens are members of one set.
LEMMA AllParts ==
    ASSUME Shape
    PROVE  \E T : Parts(T, length, Encoded)
<1> DEFINE T == UNION {ToSet(EncodeOne(sent[i])) : i \in 1..length}
<1>1. ASSUME NEW i \in 1..length PROVE Encoded[i] \in Seq(T)
  <2>1. PICK s : s = EncodeOne(sent[i])
    OBVIOUS
  <2>2. s \in Seq(ToSet(s)) /\ Encoded[i] = s
    BY <2>1, SentShape, SubmessageLayout DEF Encoded
  <2>3. ToSet(s) \subseteq T
    BY <2>1
  <2> HIDE DEF T
  <2> QED BY <2>2, <2>3
<1> QED BY <1>1 DEF Parts

LEMMA InitRest ==
    ASSUME Init, Shape, Len(b) < length
    PROVE  Rest
<1>1. PICK T : Parts(T, length, Encoded)
  BY AllParts
<1>2. length \in Nat /\ length # 0 /\ Len(b) = 0
  BY SentShape DEF Init
<1>3. PICK p : p = Encoded
  OBVIOUS
<1>4. Len(p) = length
  BY <1>2, <1>3 DEF Encoded
<1>5. wire = FlattenSeq(p)
  BY <1>3 DEF Init, EncodeBEX, Encoded
<1>6. PICK g : Flattens(g, p, length) /\ wire = g[length]
  BY <1>2, <1>4, <1>5, FlattenSeqFlattens
<1>7. g[length] \in Seq(T)
  BY <1>1, <1>2, <1>3, <1>6, Concatenations
<1>8. SubSeq(g[length], 1, Len(g[length])) = g[length]
  BY <1>7
<1>9. wire = SubSeq(g[length], End(g, Len(b)) + 1, Len(g[length]))
  BY <1>2, <1>6, <1>8 DEF End
<1> QED BY <1>1, <1>3, <1>6, <1>9 DEF Rest

\* The next tokens are those of the next submessage; reading it leaves the rest.
LEMMA RestStep ==
    ASSUME Shape, Rest, Len(b) < length
    PROVE  /\ Ahead(sent[Len(b) + 1]) /\ wire # <<>>
           /\ \A m \in Nat : m = Len(EncodeOne(sent[Len(b) + 1])) =>
                \E T, g :
                  /\ Parts(T, length, Encoded)
                  /\ Flattens(g, Encoded, length)
                  /\ SubSeq(wire, m + 1, Len(wire)) =
                       SubSeq(g[length], End(g, Len(b) + 1) + 1, Len(g[length]))
<1>1. PICK T, g : /\ Parts(T, length, Encoded)
                  /\ Flattens(g, Encoded, length)
                  /\ wire = SubSeq(g[length], End(g, Len(b)) + 1, Len(g[length]))
  BY DEF Rest
<1>2. PICK n, k, p : n = length /\ k = Len(b) /\ p = Encoded
  OBVIOUS
<1>3. n \in Nat /\ k \in 0..(n - 1) /\ k + 1 \in 1..n
  BY <1>2, SentShape
<1>4. Parts(T, n, p) /\ Flattens(g, p, n)
  BY <1>1, <1>2
<1>5. /\ g[n] \in Seq(T)
      /\ End(g, k) \in Nat
      /\ End(g, k + 1) = End(g, k) + Len(p[k + 1])
      /\ End(g, k + 1) <= Len(g[n])
      /\ At(g[n], End(g, k), p[k + 1])
  BY <1>3, <1>4, PartInPlace
<1>6. PICK s, e, m : s = g[n] /\ e = End(g, k) /\ m = Len(p[k + 1])
  OBVIOUS
<1>7. p[k + 1] \in Seq(T) /\ m \in Nat
  BY <1>3, <1>4, <1>6 DEF Parts
<1>8. s \in Seq(T) /\ Len(s) \in Nat /\ e \in Nat /\ e + m <= Len(s)
  BY <1>5, <1>6
<1>9. wire = SubSeq(s, e + 1, Len(s))
  BY <1>1, <1>2, <1>6
<1>10. /\ Len(wire) = Len(s) - e
       /\ \A j \in 1..(Len(s) - e) : wire[j] = s[e + j]
  BY <1>7, <1>8, <1>9
<1>11. p[k + 1] = EncodeOne(sent[k + 1])
  BY <1>2, <1>3 DEF Encoded
<1>12. \A j \in 1..m : j \in 1..(Len(s) - e) /\ 0 + j = j
  BY <1>7, <1>8
<1>13. \A j \in 1..m : s[e + j] = p[k + 1][j]
  BY <1>5, <1>6 DEF At
<1>14. Ahead(sent[k + 1])
  BY <1>6, <1>10, <1>11, <1>12, <1>13 DEF Ahead, At
<1>15. wire # <<>>
  <2>1. m = 1 + Len(Writes(sent[k + 1].Header)) + Len(EncodeBody(sent[k + 1]))
    BY <1>2, <1>3, <1>6, <1>11, SentShape, SubmessageLayout DEF Layout
  <2>2. Len(Writes(sent[k + 1].Header)) \in Nat /\ Len(EncodeBody(sent[k + 1])) \in Nat
    BY <1>2, <1>3, SentShape, SameFields, BodySeq DEF Submessage
  <2>3. Len(wire) # 0
    BY <2>1, <2>2, <1>8, <1>10
  <2> QED BY <2>3
<1>16. SubSeq(wire, m + 1, Len(wire)) = SubSeq(s, e + m + 1, Len(s))
  <2>1. wire \in Seq(T)
    BY <1>8, <1>9
  <2>2. SubSeq(wire, m + 1, Len(wire)) = [j \in 1..(Len(wire) - m) |-> wire[m + j]]
    BY <2>1, <1>7, <1>8, <1>10
  <2>3. SubSeq(s, e + m + 1, Len(s)) = [j \in 1..(Len(s) - (e + m)) |-> s[e + m + j]]
    BY <1>7, <1>8
  <2>4. \A j \in 1..(Len(s) - (e + m)) : wire[m + j] = s[e + m + j]
    <3> TAKE j \in 1..(Len(s) - (e + m))
    <3>1. m + j \in 1..(Len(s) - e) /\ e + (m + j) = e + m + j
      BY <1>7, <1>8
    <3> QED BY <3>1, <1>10
  <2>5. Len(wire) - m = Len(s) - (e + m)
    BY <1>7, <1>8, <1>10
  <2> QED BY <2>2, <2>3, <2>4, <2>5
<1>17. SubSeq(wire, m + 1, Len(wire)) = SubSeq(g[n], End(g, k + 1) + 1, Len(g[n]))
  BY <1>5, <1>6, <1>16
<1> QED BY <1>2, <1>4, <1>6, <1>11, <1>14, <1>15, <1>17

LEMMA BInvInit == Init => BInv
<1> SUFFICES ASSUME Init PROVE BInv
  OBVIOUS
<1>1. Shape
  BY PacketsAssumption DEF Init, Shape, ToSet
<1>2. Phases
  BY <1>1, SentShape DEF Init, Phases
<1>3. Agree
  BY DEF Init, Agree
<1> QED BY <1>1, <1>2, <1>3, InitRest DEF BInv

LEMMA AppendShape ==
    ASSUME NEW s, s \in Seq(ToSet(s)), NEW x
    PROVE  /\ Append(s, x) \in Seq(ToSet(Append(s, x)))
           /\ Len(Append(s, x)) = Len(s) + 1
           /\ \A i \in 1..Len(s) : Append(s, x)[i] = s[i]
           /\ Append(s, x)[Len(s) + 1] = x
<1>1. PICK T : T = ToSet(s) \union {x}
  OBVIOUS
<1>2. s \in Seq(T) /\ x \in T
  BY <1>1
<1>3. PICK r : r = Append(s, x)
  OBVIOUS
<1>4. /\ r \in Seq(T) /\ Len(r) = Len(s) + 1
      /\ \A i \in 1..Len(s) : r[i] = s[i]
      /\ r[Len(s) + 1] = x
  BY <1>2, <1>3
<1>5. r \in Seq(ToSet(r))
  BY <1>4 DEF ToSet
<1> QED BY <1>3, <1>4, <1>5

\* A round of the loop appends a submessage, and the ones before it stay.
LEMMA RoundStep ==
    ASSUME BInv, NEW x, pc = "decode", Len(b) < length, b' = Append(b, x),
           UNCHANGED <<sent, private, length, pc, handled, effects>>,
           Clean(Len(b)) => Same(sent[Len(b) + 1], x)
    PROVE  Shape' /\ Phases' /\ Agree' /\ Len(b') = Len(b) + 1
<1>1. Shape /\ Phases /\ Agree
  BY DEF BInv
<1>2. length \in Nat /\ Len(b) \in Nat
  BY <1>1, SentShape
<1>3. PICK k : k = Len(b)
  OBVIOUS
<1>4. /\ b' \in Seq(ToSet(b')) /\ Len(b') = k + 1
      /\ \A i \in 1..k : b'[i] = b[i]
      /\ b'[k + 1] = x
  BY <1>1, <1>3, AppendShape DEF Shape
<1>5. Shape'
  BY <1>1, <1>2, <1>3, <1>4 DEF Shape
<1>6. Phases'
  BY <1>1 DEF Phases
<1>7. \A i \in 1..Len(b') : Clean(i - 1) => Same(sent[i], b'[i])
  <2> TAKE i \in 1..Len(b')
  <2>1. i \in 1..k \/ (i = k + 1 /\ i - 1 = k)
    BY <1>2, <1>3, <1>4
  <2> QED BY <2>1, <1>1, <1>3, <1>4 DEF Agree
<1>8. Agree'
  BY <1>7 DEF Agree, Clean, TooLong, Same
<1> QED BY <1>3, <1>4, <1>5, <1>6, <1>8

LEMMA DecodeStep ==
    ASSUME BInv, DecodeOne
    PROVE  BInv'
<1>1. /\ pc = "decode" /\ length <= MaxSubmessages /\ Len(b) < length
      /\ b' = Append(b, ReadOne)
      /\ wire' = SubSeq(wire, ReadLength + 1, Len(wire))
      /\ UNCHANGED <<sent, private, length, pc, handled, effects>>
  BY DEF DecodeOne
<1>2. Shape /\ Phases /\ Agree
  BY <1>1 DEF BInv
<1>3. length \in Nat /\ Len(b) \in Nat
  BY <1>2, SentShape
<1>4. PICK k, bx : k = Len(b) /\ bx = sent[k + 1]
  OBVIOUS
<1>5. k + 1 \in 1..length
  BY <1>1, <1>3, <1>4
<1>6. Submessage(bx)
  BY <1>2, <1>4, <1>5, SentShape
<1>7. ASSUME Clean(k) PROVE Same(bx, ReadOne) /\ (~ TooLong(bx) => ReadLength = Len(EncodeOne(bx)))
  <2>1. Rest
    BY <1>1, <1>4, <1>7 DEF BInv
  <2>2. Ahead(bx)
    BY <1>1, <1>2, <1>4, <2>1, RestStep
  <2> QED BY <1>6, <2>2, ReadsBack
<1>8. Shape' /\ Phases' /\ Agree' /\ Len(b') = k + 1
  BY <1>1, <1>4, <1>7, RoundStep
<1>9. ASSUME Len(b') < length', Clean(Len(b))' PROVE Rest'
  <2>1. Clean(k) /\ ~ TooLong(bx)
    <3>1. \A j \in 1..(k + 1) : ~ TooLong(sent[j])
      BY <1>1, <1>8, <1>9 DEF Clean, TooLong
    <3>2. k \in Nat
      BY <1>3, <1>4
    <3> QED BY <1>4, <3>1, <3>2 DEF Clean
  <2>2. ReadLength = Len(EncodeOne(bx)) /\ Rest
    BY <1>1, <1>4, <1>7, <2>1 DEF BInv
  <2>3. ReadLength \in Nat
    BY <2>2, <1>6, SubmessageLayout
  <2>4. PICK T, g : /\ Parts(T, length, Encoded)
                    /\ Flattens(g, Encoded, length)
                    /\ SubSeq(wire, ReadLength + 1, Len(wire)) =
                         SubSeq(g[length], End(g, k + 1) + 1, Len(g[length]))
    BY <2>2, <2>3, <1>1, <1>2, <1>4, RestStep
  <2>5. Encoded' = Encoded
    BY <1>1 DEF Encoded, EncodeOne, EncodeFields, EncodeBody
  <2>6. wire' = SubSeq(g[length], End(g, Len(b')) + 1, Len(g[length]))
    BY <2>4, <1>1, <1>8
  <2> QED BY <2>4, <2>5, <2>6, <1>1 DEF Rest
<1> QED BY <1>8, <1>9 DEF BInv

\* Behind a clean prefix the decoder stands at a header: it misreads only behind
\* a table that is over the limit, where nothing is promised.
LEMMA MisreadStep ==
    ASSUME BInv, Misread
    PROVE  BInv'
<1>1. PICK x : /\ pc = "decode" /\ Len(b) < length /\ ~ AtHeader
               /\ b' = Append(b, x)
               /\ UNCHANGED <<sent, private, length, pc, handled, effects>>
  BY DEF Misread
<1>2. Shape
  BY DEF BInv
<1>3. ~ Clean(Len(b))
  <2> SUFFICES ASSUME Clean(Len(b)) PROVE FALSE
    OBVIOUS
  <2>1. Rest
    BY <1>1 DEF BInv
  <2>2. PICK bx : bx = sent[Len(b) + 1]
    OBVIOUS
  <2>3. Ahead(bx) /\ wire # <<>>
    BY <1>1, <1>2, <2>1, <2>2, RestStep
  <2>4. length \in Nat /\ Len(b) \in Nat
    BY <1>2, SentShape
  <2>5. Submessage(bx)
    BY <1>1, <1>2, <2>2, <2>4, SentShape
  <2>6. wire[1] = <<"Header", bx.Header>>
    BY <2>3, <2>5, Tokens
  <2> QED BY <1>1, <2>3, <2>6 DEF AtHeader
<1>4. Shape' /\ Phases' /\ Agree' /\ Len(b') = Len(b) + 1
  BY <1>1, <1>3, RoundStep
<1>5. ~ Clean(Len(b))'
  <2>1. PICK j \in 1..Len(b) : TooLong(sent[j])
    BY <1>3 DEF Clean
  <2>2. j \in 1..Len(b')
    BY <1>2, <1>4, SentShape
  <2>3. TooLong(sent'[j])
    BY <1>1, <2>1 DEF TooLong
  <2> QED BY <2>2, <2>3 DEF Clean, TooLong
<1> QED BY <1>4, <1>5 DEF BInv

LEMMA BInvNext == BInv /\ [Next]_vars => BInv'
<1> SUFFICES ASSUME BInv, [Next]_vars PROVE BInv'
  OBVIOUS
<1>1. CASE DecodeOne
  BY <1>1, DecodeStep
<1>2. ASSUME UNCHANGED <<sent, wire, length, b>>, Phases' PROVE BInv'
  <2>1. length' = length
    BY <1>2
  <2>2. Shape'
    BY <1>2, <2>1 DEF BInv, Shape
  <2>3. Encoded' = Encoded
    BY <1>2, <2>1 DEF Encoded, EncodeOne, EncodeFields, EncodeBody
  <2>4. (Len(b) < length /\ Clean(Len(b)) => Rest)'
    BY <1>2, <2>1, <2>3 DEF BInv, Rest, Clean, TooLong
  <2>5. Agree'
    BY <1>2 DEF BInv, Agree, Clean, TooLong, Same
  <2> QED BY <1>2, <2>2, <2>4, <2>5 DEF BInv
<1>3. CASE TooMany
  <2>1. Phases'
    BY <1>3, SentShape DEF TooMany, BInv, Phases
  <2> QED BY <1>2, <1>3, <2>1 DEF TooMany
<1>8. CASE Misread
  BY <1>8, MisreadStep
<1>4. CASE EndDecode
  <2>1. Phases'
    BY <1>4, SentShape, BexAssumption DEF EndDecode, BInv, Phases
  <2> QED BY <1>2, <1>4, <2>1 DEF EndDecode
<1>5. CASE HandleOne
  <2>1. Phases'
    BY <1>5, SentShape DEF HandleOne, BInv, Phases
  <2> QED BY <1>2, <1>5, <2>1 DEF HandleOne
<1>6. CASE EndHandle
  <2>1. Phases'
    BY <1>6, SentShape DEF EndHandle, BInv, Phases
  <2> QED BY <1>2, <1>6, <2>1 DEF EndHandle
<1>7. CASE UNCHANGED vars
  BY <1>2, <1>7 DEF vars, BInv, Phases
<1> QED BY <1>1, <1>3, <1>4, <1>5, <1>6, <1>7, <1>8 DEF Next

LEMMA Inductive == Spec => []BInv
BY BInvInit, BInvNext, PTL DEF Spec

\* RoundTrip: for every packet, every limit and every order of submessages, what
\* DecodeBEX returns is, field by field and up to the first table over the limit,
\* what EncodeBEX was given.
THEOREM EveryFieldComesBack == Spec => []RoundTrip
<1>1. BInv => RoundTrip
  <2> SUFFICES ASSUME BInv, Decoded
               PROVE  /\ Len(b) = length
                      /\ \A i \in 1..length : Clean(i - 1) => Same(sent[i], b[i])
    BY DEF RoundTrip, Clean
  <2>1. Len(b) = length
    BY BexAssumption, SentShape DEF BInv, Phases, Decoded
  <2> QED BY <2>1 DEF BInv, Agree
<1> QED BY <1>1, Inductive, PTL
=============================================================================
