--------------------------- MODULE DIDCodecProofs ---------------------------
(***************************************************************************)
(* DID::to_string and DID::from_str (name-lib/src/did.rs) are inverse for  *)
(* every method and id of every length over every alphabet: the property  *)
(* the run checks on short strings, proved for all.                       *)
(*                                                                         *)
(* The argument: to_string lays out "did", ':', the method, ':', the id;  *)
(* when neither part holds a ':', the separators of the text are exactly  *)
(* the two it wrote, so split gives back "did", the method and the id;    *)
(* when one does, the text has a third ':' and split gives four pieces or *)
(* more, which from_str refuses.                                           *)
(***************************************************************************)
EXTENDS DIDCodec, SequenceTheorems, FiniteSetTheorems, TLAPS

(* The text to_string writes for method m and id i, position by position.  *)
LEMMA TextLayout ==
    ASSUME NEW m \in Seq(Chars), NEW i \in Seq(Chars)
    PROVE  LET s == DIDToString([method |-> m, id |-> i])
           IN  /\ s \in Seq(Chars)
               /\ Len(s) = 5 + Len(m) + Len(i)
               /\ \A p \in 1..3 : s[p] = DidWord[p]
               /\ s[4] = Colon
               /\ \A k \in 1..Len(m) : s[4 + k] = m[k]
               /\ s[5 + Len(m)] = Colon
               /\ \A k \in 1..Len(i) : s[5 + Len(m) + k] = i[k]
<1>. DEFINE a == DidWord \o <<Colon>>
            b == a \o m
            c == b \o <<Colon>>
            s == c \o i
<1>1. /\ DidWord \in Seq(Chars)
      /\ Len(DidWord) = 3
      /\ <<Colon>> \in Seq(Chars)
      /\ Len(<<Colon>>) = 1
  BY DIDAssumption DEF DidWord, Chars
<1>2. /\ a \in Seq(Chars)
      /\ Len(a) = 4
      /\ \A p \in 1..3 : a[p] = DidWord[p]
      /\ a[4] = Colon
  <2>0. /\ a \in Seq(Chars)
        /\ Len(a) = Len(DidWord) + Len(<<Colon>>)
        /\ \A p \in 1..(Len(DidWord) + Len(<<Colon>>)) :
              a[p] = IF p <= Len(DidWord) THEN DidWord[p] ELSE <<Colon>>[p - Len(DidWord)]
    BY <1>1, ConcatProperties
  <2>1. /\ a \in Seq(Chars)
        /\ Len(a) = 3 + 1
        /\ \A p \in 1..(3 + 1) : a[p] = IF p <= 3 THEN DidWord[p] ELSE <<Colon>>[p - 3]
    BY <1>1, <2>0
  <2>2. <<Colon>>[1] = Colon
    OBVIOUS
  <2>3. a[4] = Colon
    BY <2>1, <2>2
  <2>4. \A p \in 1..3 : a[p] = DidWord[p]
    BY <2>1
  <2>. QED  BY <2>1, <2>3, <2>4
<1>3. Len(m) \in Nat /\ Len(i) \in Nat
  BY LenProperties
<1>4. /\ b \in Seq(Chars)
      /\ Len(b) = 4 + Len(m)
      /\ \A p \in 1..4 : b[p] = a[p]
      /\ \A k \in 1..Len(m) : b[4 + k] = m[k]
  BY <1>2, <1>3, ConcatProperties
<1>5. /\ c \in Seq(Chars)
      /\ Len(c) = 5 + Len(m)
      /\ \A p \in 1..(4 + Len(m)) : c[p] = b[p]
      /\ c[5 + Len(m)] = Colon
  BY <1>1, <1>3, <1>4, ConcatProperties
<1>6. /\ s \in Seq(Chars)
      /\ Len(s) = 5 + Len(m) + Len(i)
      /\ \A p \in 1..(5 + Len(m)) : s[p] = c[p]
      /\ \A k \in 1..Len(i) : s[5 + Len(m) + k] = i[k]
  <2>1. /\ s \in Seq(Chars)
        /\ Len(s) = Len(c) + Len(i)
        /\ \A p \in 1..(Len(c) + Len(i)) : s[p] = IF p <= Len(c) THEN c[p] ELSE i[p - Len(c)]
    BY <1>5, ConcatProperties
  <2>2. \A k \in 1..Len(i) : s[5 + Len(m) + k] = i[k]
    BY <1>3, <1>5, <2>1
  <2>3. \A p \in 1..(5 + Len(m)) : s[p] = c[p]
    BY <1>3, <1>5, <2>1
  <2>. QED  BY <1>5, <2>1, <2>2, <2>3
<1>7. DIDToString([method |-> m, id |-> i]) = s
  BY DEF DIDToString
<1>8. \A p \in 1..3 : s[p] = DidWord[p]
  BY <1>2, <1>3, <1>4, <1>5, <1>6, SMTT(30)
<1>9. s[4] = Colon /\ \A k \in 1..Len(m) : s[4 + k] = m[k]
  BY <1>2, <1>3, <1>4, <1>5, <1>6, SMTT(30)
<1>10. s[5 + Len(m)] = Colon
  BY <1>3, <1>5, <1>6
<1>. QED  BY <1>6, <1>7, <1>8, <1>9, <1>10
(* Two distinct elements make a set of two.                               *)
LEMMA CardTwo ==
    ASSUME NEW x, NEW y, x # y
    PROVE  IsFiniteSet({x, y}) /\ Cardinality({x, y}) = 2
<1>1. IsFiniteSet({x}) /\ Cardinality({x}) = 1
  BY FS_Singleton
<1>2. {x, y} = {x} \cup {y} /\ y \notin {x}
  OBVIOUS
<1>. QED  BY <1>1, <1>2, FS_AddElement

(* Three distinct elements make a set of three.                           *)
LEMMA CardThree ==
    ASSUME NEW x, NEW y, NEW z, x # y, x # z, y # z
    PROVE  IsFiniteSet({x, y, z}) /\ Cardinality({x, y, z}) = 3
<1>1. IsFiniteSet({x, y}) /\ Cardinality({x, y}) = 2
  BY CardTwo
<1>2. {x, y, z} = {x, y} \cup {z} /\ z \notin {x, y}
  OBVIOUS
<1>. QED  BY <1>1, <1>2, FS_AddElement

(* The piece of text s from a to b, named so that a fact about a piece    *)
(* is used as it is stated.                                                *)
Piece(s, a, b) == SubSeq(s, a, b)

(* str::split on a text with exactly two separators, at p < q, gives the   *)
(* three pieces before p, between p and q, and after q.                    *)
LEMMA SplitTwo ==
    ASSUME NEW s \in Seq(Chars), NEW sep,
           NEW p \in Nat, NEW q \in Nat, 1 <= p, p < q, q <= Len(s),
           \A j \in 1..Len(s) : s[j] = sep <=> j \in {p, q}
    PROVE  Split(s, sep) = << Piece(s, 1, p - 1), Piece(s, p + 1, q - 1),
                              Piece(s, q + 1, Len(s)) >>
<1>. DEFINE seps == {j \in 1..Len(s) : s[j] = sep}
            rank(x) == Cardinality({j \in seps : j <= x})
<1>0. seps = {p, q}
  OBVIOUS
<1>1. Cardinality(seps) = 2
  <2>1. p # q
    OBVIOUS
  <2>2. Cardinality({p, q}) = 2
    BY <2>1, CardTwo
  <2>. QED  BY <1>0, <2>2
<1>2. {j \in seps : j <= p} = {p} /\ {j \in seps : j <= q} = {p, q}
  BY <1>0
<1>3. rank(p) = 1 /\ rank(q) = 2
  <2>1. Cardinality({p}) = 1
    BY FS_Singleton
  <2>2. Cardinality({p, q}) = 2
    BY <1>0, <1>1
  <2>. QED  BY <1>2, <2>1, <2>2
<1>4. (CHOOSE x \in seps : rank(x) = 1) = p
  BY <1>3
<1>5. (CHOOSE x \in seps : rank(x) = 2) = q
  BY <1>3
<1>. DEFINE n == Cardinality(seps)
            cut(k) == IF k = 0 THEN 0 ELSE IF k > n THEN Len(s) + 1
                      ELSE CHOOSE x \in seps : rank(x) = k
<1>. DEFINE f == [k \in 1..(n + 1) |-> SubSeq(s, cut(k - 1) + 1, cut(k) - 1)]
<1>6. Split(s, sep) = f
  BY Zenon DEF Split
<1>7. n = 2
  BY <1>1
<1>8. cut(1) = p
  <2>1. ~(1 > n) /\ 1 # 0
    BY <1>7
  <2>2. cut(1) = CHOOSE x \in seps : rank(x) = 1
    BY <2>1, Zenon
  <2>. QED  BY <2>2, <1>4
<1>9. cut(2) = q
  <2>1. ~(2 > n) /\ 2 # 0
    BY <1>7
  <2>2. cut(2) = CHOOSE x \in seps : rank(x) = 2
    BY <2>1, Zenon
  <2>. QED  BY <2>2, <1>5
<1>10. cut(3) = Len(s) + 1
  BY <1>7
<1>11. cut(0) = 0
  OBVIOUS
<1>. HIDE DEF cut, n, seps, rank
<1>12. /\ DOMAIN f = 1..3 /\ f \in Seq(Seq(Chars))
       /\ \A k \in 1..3 : f[k] \in Seq(Chars)
  <2>1. \A k \in 1..3 : f[k] \in Seq(Chars)
    <3>. SUFFICES ASSUME NEW k \in 1..3 PROVE f[k] \in Seq(Chars)
      OBVIOUS
    <3>1. cut(k - 1) \in Int /\ cut(k) \in Int
      BY <1>8, <1>9, <1>10, <1>11
    <3>2. \A j \in (cut(k - 1) + 1)..(cut(k) - 1) : s[j] \in Chars
      BY <1>8, <1>9, <1>10, <1>11
    <3>. QED  BY <1>7, <3>1, <3>2, SubSeqProperties
  <2>. QED  BY <1>7, <2>1
<1>13. /\ f[1] = SubSeq(s, cut(0) + 1, cut(1) - 1)
       /\ f[2] = SubSeq(s, cut(1) + 1, cut(2) - 1)
       /\ f[3] = SubSeq(s, cut(2) + 1, cut(3) - 1)
  <2>1. \A k \in 1..(n + 1) : f[k] = SubSeq(s, cut(k - 1) + 1, cut(k) - 1)
    BY Zenon
  <2>2. 1 \in 1..(n + 1) /\ 2 \in 1..(n + 1) /\ 3 \in 1..(n + 1)
    BY <1>7
  <2>3. 1 - 1 = 0 /\ 2 - 1 = 1 /\ 3 - 1 = 2
    OBVIOUS
  <2>. QED  BY <2>1, <2>2, <2>3, Zenon
<1>. HIDE DEF f
<1>14. /\ f[1] = SubSeq(s, 1, p - 1)
       /\ f[2] = SubSeq(s, p + 1, q - 1)
       /\ f[3] = SubSeq(s, q + 1, Len(s))
  <2>1. /\ cut(0) + 1 = 1 /\ cut(1) - 1 = p - 1
        /\ cut(1) + 1 = p + 1 /\ cut(2) - 1 = q - 1
        /\ cut(2) + 1 = q + 1 /\ cut(3) - 1 = Len(s)
    BY <1>8, <1>9, <1>10, <1>11
  <2>. QED  BY <2>1, <1>13, Zenon
<1>15. Len(f) = 3
  BY <1>12
<1>. DEFINE t == << Piece(s, 1, p - 1), Piece(s, p + 1, q - 1), Piece(s, q + 1, Len(s)) >>
<1>16. \A k \in 1..3 : t[k] = f[k]
  <2>1. t[1] = f[1] /\ t[2] = f[2] /\ t[3] = f[3]
    BY <1>14 DEF Piece
  <2>2. 1..3 = {1, 2, 3}
    OBVIOUS
  <2>. QED  BY <2>1, <2>2, Zenon
<1>17. t \in Seq(Seq(Chars)) /\ Len(t) = 3
  <2>1. \A k \in 1..3 : f[k] \in Seq(Chars)
    BY <1>12
  <2>2. t[1] \in Seq(Chars) /\ t[2] \in Seq(Chars) /\ t[3] \in Seq(Chars)
    BY <1>16, <2>1
  <2>. QED  BY <2>2
<1>18. f = t
  BY <1>12, <1>15, <1>16, <1>17, SeqEqual
<1>. QED  BY <1>6, <1>18

(* str::split on a text with three separators or more gives four pieces   *)
(* or more.                                                                *)
LEMMA SplitMany ==
    ASSUME NEW s \in Seq(Chars), NEW sep,
           NEW p \in 1..Len(s), NEW q \in 1..Len(s), NEW r \in 1..Len(s),
           p # q, p # r, q # r, s[p] = sep, s[q] = sep, s[r] = sep
    PROVE  Len(Split(s, sep)) # 3
<1>. DEFINE seps == {j \in 1..Len(s) : s[j] = sep}
<1>1. IsFiniteSet(1..Len(s))
  BY FS_Interval
<1>2. IsFiniteSet(seps) /\ Cardinality({p, q, r}) <= Cardinality(seps)
  <2>1. {p, q, r} \in SUBSET seps
    OBVIOUS
  <2>. QED  BY <1>1, <2>1, FS_Subset
<1>3. Cardinality(seps) >= 3 /\ Cardinality(seps) \in Nat
  BY <1>2, CardThree, FS_CardinalityType
<1>4. Len(Split(s, sep)) = Cardinality(seps) + 1
  BY <1>3 DEF Split
<1>. QED  BY <1>3, <1>4
(* A sub-sequence that agrees position by position with t is t.           *)
LEMMA SubSeqIs ==
    ASSUME NEW s \in Seq(Chars), NEW t \in Seq(Chars), NEW a \in Nat,
           a + Len(t) <= Len(s), \A k \in 1..Len(t) : s[a + k] = t[k]
    PROVE  SubSeq(s, a + 1, a + Len(t)) = t
<1>1. \A j \in (a + 1)..(a + Len(t)) : s[j] \in Chars
  OBVIOUS
<1>2. /\ SubSeq(s, a + 1, a + Len(t)) \in Seq(Chars)
      /\ Len(SubSeq(s, a + 1, a + Len(t))) = Len(t)
      /\ \A k \in 1..Len(t) : SubSeq(s, a + 1, a + Len(t))[k] = s[a + k]
  BY <1>1, SubSeqProperties
<1>. QED  BY <1>2, SeqEqual

(* DID::from_str on a text laid out as to_string lays out method m and id  *)
(* i, with its second ':' at q: the DID (m, i) when neither holds a ':',   *)
(* an error otherwise.                                                     *)
LEMMA ParseLayout ==
    ASSUME NEW m \in Seq(Chars), NEW i \in Seq(Chars), NEW s \in Seq(Chars),
           NEW q \in Nat, q = 5 + Len(m),
           Len(s) = q + Len(i),
           \A p \in 1..3 : s[p] = DidWord[p],
           s[4] = Colon,
           \A k \in 1..Len(m) : s[4 + k] = m[k],
           s[q] = Colon,
           \A k \in 1..Len(i) : s[q + k] = i[k]
    PROVE  /\ Colon \notin ToSet(m) /\ Colon \notin ToSet(i)
                 => FromStr(s) = [method |-> m, id |-> i]
           /\ Colon \in ToSet(m) \/ Colon \in ToSet(i) => FromStr(s) = None
<1>. DEFINE d == [method |-> m, id |-> i]
<1>1. /\ s \in Seq(Chars)
      /\ Len(s) = q + Len(i)
      /\ \A p \in 1..3 : s[p] = DidWord[p]
      /\ s[4] = Colon
      /\ \A k \in 1..Len(m) : s[4 + k] = m[k]
      /\ s[q] = Colon
      /\ \A k \in 1..Len(i) : s[q + k] = i[k]
  OBVIOUS
<1>2. ASSUME Colon \notin ToSet(m), Colon \notin ToSet(i)
      PROVE  FromStr(s) = d
  <2>1. \A j \in 1..Len(s) : s[j] = Colon <=> j \in {4, q}
    <3>. SUFFICES ASSUME NEW j \in 1..Len(s)
                  PROVE  s[j] = Colon <=> j \in {4, q}
      OBVIOUS
    <3>1. CASE j <= 3
      <4>1. DidWord[j] # Colon
        BY <3>1 DEF DidWord, Colon
      <4>. QED  BY <1>1, <3>1, <4>1
    <3>2. CASE 4 < j /\ j < q
      <4>1. j - 4 \in 1..Len(m) /\ j = 4 + (j - 4)
        BY <3>2 
      <4>2. m[j - 4] # Colon
        BY <1>2, <4>1 DEF ToSet
      <4>. QED  BY <1>1, <4>1, <4>2
    <3>3. CASE q < j
      <4>1. j - q \in 1..Len(i) /\ j = q + (j - q)
        BY <1>1, <3>3 
      <4>2. i[j - q] # Colon
        BY <1>2, <4>1 DEF ToSet
      <4>. QED  BY <1>1, <4>1, <4>2
    <3>4. CASE j = 4 \/ j = q
      BY <1>1, <3>4
    <3>. QED  BY <3>1, <3>2, <3>3, <3>4 
  <2>2. /\ Len(Split(s, Colon)) = 3
        /\ Split(s, Colon)[1] = SubSeq(s, 1, 4 - 1)
        /\ Split(s, Colon)[2] = SubSeq(s, 4 + 1, q - 1)
        /\ Split(s, Colon)[3] = SubSeq(s, q + 1, Len(s))
    <3>1. 4 \in Nat /\ q \in Nat /\ 1 <= 4 /\ 4 < q /\ q <= Len(s)
      BY <1>1 
    <3>2. ASSUME NEW pp \in Nat, NEW qq \in Nat, 1 <= pp, pp < qq, qq <= Len(s),
                 \A j \in 1..Len(s) : s[j] = Colon <=> j \in {pp, qq}
          PROVE  /\ Len(Split(s, Colon)) = 3
                 /\ Split(s, Colon)[1] = SubSeq(s, 1, pp - 1)
                 /\ Split(s, Colon)[2] = SubSeq(s, pp + 1, qq - 1)
                 /\ Split(s, Colon)[3] = SubSeq(s, qq + 1, Len(s))
      <4>1. Split(s, Colon) = << Piece(s, 1, pp - 1), Piece(s, pp + 1, qq - 1),
                                 Piece(s, qq + 1, Len(s)) >>
        BY <3>2, <1>1, SplitTwo
      <4>. QED  BY <4>1 DEF Piece
    <3>. QED  BY <3>2, <1>1, <2>1, <3>1
  <2>3. SubSeq(s, 0 + 1, 0 + Len(DidWord)) = DidWord
    <3>1. DidWord \in Seq(Chars) /\ Len(DidWord) = 3
      BY DIDAssumption DEF DidWord, Chars
    <3>2. /\ 0 \in Nat /\ 0 + Len(DidWord) <= Len(s)
          /\ \A k \in 1..Len(DidWord) : s[0 + k] = DidWord[k]
      BY <1>1, <3>1
    <3>. QED  BY <1>1, <3>1, <3>2, SubSeqIs
  <2>4. SubSeq(s, 4 + 1, 4 + Len(m)) = m
    <3>1. 4 \in Nat /\ 4 + Len(m) <= Len(s) /\ \A k \in 1..Len(m) : s[4 + k] = m[k]
      BY <1>1
    <3>. QED  BY <3>1, SubSeqIs
  <2>5. SubSeq(s, q + 1, q + Len(i)) = i
    <3>1. q \in Nat /\ q + Len(i) <= Len(s) /\ \A k \in 1..Len(i) : s[q + k] = i[k]
      BY <1>1
    <3>. QED  BY <3>1, SubSeqIs
  <2>6. /\ Split(s, Colon)[1] = DidWord
        /\ Split(s, Colon)[2] = m
        /\ Split(s, Colon)[3] = i
    BY <1>1, <2>2, <2>3, <2>4, <2>5 DEF DidWord
  <2>. QED  BY <2>2, <2>6 DEF FromStr
<1>3. ASSUME Colon \in ToSet(m) \/ Colon \in ToSet(i)
      PROVE  FromStr(s) = None
  <2>1. PICK r \in 1..Len(s) : s[r] = Colon /\ r # 4 /\ r # q
    <3>1. CASE Colon \in ToSet(m)
      <4>1. PICK k \in 1..Len(m) : m[k] = Colon
        BY <3>1 DEF ToSet
      <4>2. /\ 4 + k \in 1..Len(s) /\ s[4 + k] = Colon
            /\ 4 + k # 4 /\ 4 + k # q
        BY <1>1, <4>1
      <4>. QED  BY <4>2
    <3>2. CASE Colon \in ToSet(i)
      <4>1. PICK k \in 1..Len(i) : i[k] = Colon
        BY <3>2 DEF ToSet
      <4>2. /\ q + k \in 1..Len(s) /\ s[q + k] = Colon
            /\ q + k # 4 /\ q + k # q
        BY <1>1, <4>1
      <4>. QED  BY <4>2
    <3>. QED  BY <1>3, <3>1, <3>2
  <2>2. Len(Split(s, Colon)) # 3
    <3>1. 4 \in 1..Len(s) /\ q \in 1..Len(s) /\ 4 # q /\ s[4] = Colon /\ s[q] = Colon
      BY <1>1
    <3>2. ASSUME NEW a \in 1..Len(s), NEW b \in 1..Len(s), NEW c \in 1..Len(s),
                 a # b, a # c, b # c, s[a] = Colon, s[b] = Colon, s[c] = Colon
          PROVE  Len(Split(s, Colon)) # 3
      BY <3>2, <1>1, SplitMany
    <3>. QED  BY <2>1, <3>1, <3>2
  <2>. QED  BY <2>2 DEF FromStr
<1>. QED  BY <1>2, <1>3

(* DID::from_str reads back the text DID::to_string writes: the DID itself *)
(* when neither method nor id holds a ':', and an error otherwise.         *)
LEMMA FromStrOfText ==
    ASSUME NEW m \in Seq(Chars), NEW i \in Seq(Chars)
    PROVE  /\ Colon \notin ToSet(m) /\ Colon \notin ToSet(i)
                 => FromStr(DIDToString([method |-> m, id |-> i])) = [method |-> m, id |-> i]
           /\ Colon \in ToSet(m) \/ Colon \in ToSet(i)
                 => FromStr(DIDToString([method |-> m, id |-> i])) = None
<1>. DEFINE s == DIDToString([method |-> m, id |-> i])
<1>1. /\ s \in Seq(Chars)
      /\ Len(s) = (5 + Len(m)) + Len(i)
      /\ \A p \in 1..3 : s[p] = DidWord[p]
      /\ s[4] = Colon
      /\ \A k \in 1..Len(m) : s[4 + k] = m[k]
      /\ s[5 + Len(m)] = Colon
      /\ \A k \in 1..Len(i) : s[(5 + Len(m)) + k] = i[k]
  BY TextLayout
<1>. HIDE DEF s
<1>2. 5 + Len(m) \in Nat
  OBVIOUS
<1>3. ASSUME NEW q \in Nat, q = 5 + Len(m), Len(s) = q + Len(i), s[q] = Colon,
             \A k \in 1..Len(i) : s[q + k] = i[k]
      PROVE  /\ Colon \notin ToSet(m) /\ Colon \notin ToSet(i)
                   => FromStr(s) = [method |-> m, id |-> i]
             /\ Colon \in ToSet(m) \/ Colon \in ToSet(i) => FromStr(s) = None
  BY <1>1, <1>3, ParseLayout
<1>. QED  BY <1>1, <1>2, <1>3 DEF s
(* Every method and id the run enumerates is a string over the alphabet.  *)
TextsInv == method \in Seq(Chars) /\ id \in Seq(Chars)

(* A string of at most n characters, as Init enumerates it, is a sequence. *)
LEMMA StrIsSeq ==
    ASSUME NEW n \in Nat
    PROVE  Str(n) \subseteq Seq(Chars)
<1>. SUFFICES ASSUME NEW k \in 0..n, NEW x \in [1..k -> Chars]
              PROVE  x \in Seq(Chars)
  BY DEF Str
<1>. QED  OBVIOUS

(* Method and id stay strings: Init picks them so and no step changes them.*)
LEMMA TextsInvariant == Spec => []TextsInv
<1>1. Init => TextsInv
  BY DIDAssumption, StrIsSeq DEF Init, TextsInv
<1>2. TextsInv /\ [Next]_vars => TextsInv'
  BY DEF TextsInv, Next, vars
<1>. QED  BY <1>1, <1>2, PTL DEF Spec

(* The error value from_str returns is no DID.                             *)
LEMMA NoneIsNoDID ==
    ASSUME NEW m, NEW i
    PROVE  None # [method |-> m, id |-> i]
<1>1. DOMAIN None = {"none"} /\ DOMAIN [method |-> m, id |-> i] = {"method", "id"}
  BY DEF None
<1>. QED  BY <1>1

(* DID::from_str and DID::to_string are inverse for every method and id   *)
(* of every length: the text of a DID parses exactly when neither part     *)
(* holds a ':', and then back to the same DID.                             *)
THEOREM TextRoundTripHolds == Spec => []TextRoundTrip
<1>1. TextsInv => TextRoundTrip
  <2>. SUFFICES ASSUME TextsInv PROVE TextRoundTrip
    OBVIOUS
  <2>1. /\ Colon \notin ToSet(method) /\ Colon \notin ToSet(id) => Parsed = TheDID
        /\ Colon \in ToSet(method) \/ Colon \in ToSet(id) => Parsed = None
    BY FromStrOfText DEF TextsInv, Parsed, TheDID
  <2>2. TheDID # None
    BY NoneIsNoDID DEF TheDID
  <2>. QED  BY <2>1, <2>2 DEF TextRoundTrip
<1>. QED  BY <1>1, TextsInvariant, PTL
=============================================================================
