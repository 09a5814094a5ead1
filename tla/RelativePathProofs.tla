------------------------- MODULE RelativePathProofs -------------------------
(***************************************************************************)
(* get_relative_path (buckyos-kit/src/path.rs) for every pair of paths of *)
(* every length, over every alphabet: the property its test checks on one *)
(* pair holds for every base written with its trailing '/'.               *)
(***************************************************************************)
EXTENDS RelativePath, SequenceTheorems, TLAPS

Chars == Letters \cup {Slash}

(* The paths Init enumerates are strings over the alphabet and '/'.        *)
LEMMA StrIsSeq ==
    ASSUME NEW n \in Nat, NEW s \in Str(n)
    PROVE  s \in Seq(Chars)
<1>1. PICK k \in 0..n : s \in [1..k -> Chars]
  BY DEF Str, Chars
<1>. QED  BY <1>1, IsASeq

(* A non-empty sequence without its last element.                        *)
LEMMA FrontProperties ==
    ASSUME NEW S, NEW s \in Seq(S), s # <<>>
    PROVE  /\ Front(s) \in Seq(S)
           /\ Len(Front(s)) = Len(s) - 1
           /\ \A i \in 1..(Len(s) - 1) : Front(s)[i] = s[i]
<1>1. Len(s) \in Nat /\ Len(s) >= 1
  BY EmptySeq, LenProperties
<1>2. Len(s) - 1 \in Nat /\ \A i \in 1..(Len(s) - 1) : s[i] \in S
  BY <1>1, ElementOfSeq
<1>3. Len(SubSeq(s, 1, Len(s) - 1)) = Len(s) - 1
  <2>0. Len(s) = 1 \/ Len(s) > 1
    <3>1. \A n \in Nat : n >= 1 => n = 1 \/ n > 1
      OBVIOUS
    <3>. QED  BY <1>1, <3>1, Zenon
  <2>1. CASE Len(s) = 1
    BY <2>1, SubSeqEmpty
  <2>2. CASE Len(s) > 1
    BY <1>1, <1>2, <2>2, SubSeqProperties
  <2>. QED  BY <2>0, <2>1, <2>2
<1>. QED  BY <1>1, <1>2, <1>3, SubSeqProperties DEF Front

(* The result for a base ending with '/' that full_path starts with: the   *)
(* slice from the base's last character, which is that '/', on; the base  *)
(* without it followed by the result is full_path again.                  *)
LEMMA SlashBaseSplit ==
    ASSUME NEW b \in Seq(Chars), NEW f \in Seq(Chars), b # <<>>,
           IsPrefix(b, f), Last(b) = Slash
    PROVE  LET r == GetRelativePath(b, f)
           IN  /\ r # <<>> /\ Head(r) = Slash
               /\ Front(b) \o r = f
<1>. DEFINE bl == Len(b)
            r == SubSeq(f, bl, Len(f))
<1>1. bl \in Nat /\ bl >= 1 /\ Len(f) \in Nat /\ bl <= Len(f)
  BY EmptySeq, LenProperties DEF IsPrefix
<1>2. \A i \in 1..bl : b[i] = f[i]
  <2>. SUFFICES ASSUME NEW i \in 1..bl PROVE b[i] = f[i]
    OBVIOUS
  <2>1. SubSeq(b, 1, bl)[i] = SubSeq(f, 1, bl)[i]
    BY DEF IsPrefix
  <2>2. SubSeq(b, 1, bl)[i] = b[i] /\ SubSeq(f, 1, bl)[i] = f[i]
    BY <1>1, SubSeqProperties, ElementOfSeq
  <2>. QED  BY <2>1, <2>2
<1>3. GetRelativePath(b, f) = r
  BY DEF GetRelativePath
<1>4. \A i \in bl..Len(f) : f[i] \in Chars
  BY <1>1, ElementOfSeq
<1>5. r \in Seq(Chars) /\ Len(r) = Len(f) - bl + 1
      /\ \A i \in 1..(Len(f) - bl + 1) : r[i] = f[bl + i - 1]
  BY <1>1, <1>4, SubSeqProperties
<1>6. r # <<>> /\ Head(r) = Slash
  <2>1. Len(r) >= 1
    BY <1>1, <1>5
  <2>2. r[1] = b[bl]
    BY <1>1, <1>2, <1>5
  <2>3. b[bl] = Slash
    BY DEF Last
  <2>4. r # <<>> /\ Head(r) = r[1]
    BY <1>5, <2>1
  <2>. QED  BY <2>2, <2>3, <2>4
<1>7. Front(b) \o r = f
  <2>2. Front(b) \in Seq(Chars) /\ Len(Front(b)) = bl - 1
        /\ \A i \in 1..(bl - 1) : Front(b)[i] = b[i]
    BY FrontProperties
  <2>3. Front(b) \o r \in Seq(Chars) /\ Len(Front(b) \o r) = Len(f)
        /\ \A i \in 1..Len(f) :
              (Front(b) \o r)[i] = IF i <= bl - 1 THEN Front(b)[i] ELSE r[i - (bl - 1)]
    BY <1>1, <1>5, <2>2, ConcatProperties
  <2>4. \A i \in 1..Len(f) : (Front(b) \o r)[i] = f[i]
    <3>. SUFFICES ASSUME NEW i \in 1..Len(f) PROVE (Front(b) \o r)[i] = f[i]
      OBVIOUS
    <3>1. CASE i <= bl - 1
      BY <1>1, <1>2, <2>2, <2>3, <3>1
    <3>2. CASE ~(i <= bl - 1)
      <4>1. (Front(b) \o r)[i] = r[i - (bl - 1)]
        BY <1>1, <2>3, <3>2
      <4>2. i - (bl - 1) \in 1..(Len(f) - bl + 1)
        BY <1>1, <3>2
      <4>3. r[i - (bl - 1)] = f[bl + (i - (bl - 1)) - 1]
        BY <1>5, <4>2
      <4>. QED  BY <1>1, <4>1, <4>3
    <3>. QED  BY <3>1, <3>2
  <2>. QED  BY <2>3, <2>4, SeqEqual
<1>. QED  BY <1>3, <1>6, <1>7
-----------------------------------------------------------------------------
(* The inputs are non-empty strings over the alphabet and '/', and they    *)
(* do not change.                                                          *)
PathsInv == base \in Seq(Chars) /\ full \in Seq(Chars) /\ base # <<>>

LEMMA PathsInvInit ==
    ASSUME MaxLen \in Nat
    PROVE  Init => PathsInv
<1>. SUFFICES ASSUME Init PROVE PathsInv
  OBVIOUS
<1>1. MaxLen \in Nat /\ MaxLen + 1 \in Nat
  OBVIOUS
<1>. QED  BY <1>1, StrIsSeq DEF Init, PathsInv

(* For every pair of paths of every length: when full_path starts with a   *)
(* base_path written with its trailing '/', get_relative_path returns a   *)
(* non-empty path starting with '/', and base_path without that '/'       *)
(* followed by the result is full_path (the test of path.rs, for all      *)
(* inputs).                                                                *)
THEOREM RelativeBelowSlashBaseHolds ==
    ASSUME MaxLen \in Nat
    PROVE  Spec => []RelativeBelowSlashBase
<1>1. PathsInv /\ [Next]_vars => PathsInv'
  BY DEF PathsInv, Next, vars
<1>2. PathsInv => RelativeBelowSlashBase
  <2>. SUFFICES ASSUME PathsInv, IsPrefix(base, full), Last(base) = Slash
               PROVE  Rel # <<>> /\ Head(Rel) = Slash /\ Front(base) \o Rel = full
    BY DEF RelativeBelowSlashBase
  <2>. QED  BY SlashBaseSplit DEF PathsInv, Rel
<1>. QED  BY PathsInvInit, <1>1, <1>2, PTL DEF Spec
-----------------------------------------------------------------------------
(* Where the result of a stripped base starts: at the base's own last     *)
(* character when the base ends with '/', else at the character of        *)
(* full_path right after the base.                                         *)
LEMMA RelativeHead ==
    ASSUME NEW b \in Seq(Chars), NEW f \in Seq(Chars), b # <<>>,
           IsPrefix(b, f), Len(f) > Len(b)
    PROVE  Head(GetRelativePath(b, f)) = Slash
               <=> Last(b) = Slash \/ f[Len(b) + 1] = Slash
<1>. DEFINE bl == Len(b)
<1>1. bl \in Nat /\ bl >= 1 /\ Len(f) \in Nat /\ bl < Len(f)
  BY EmptySeq, LenProperties
<1>2. f[bl] = b[bl]
  <2>1. SubSeq(b, 1, bl)[bl] = SubSeq(f, 1, bl)[bl]
    BY <1>1 DEF IsPrefix
  <2>2. SubSeq(b, 1, bl)[bl] = b[bl] /\ SubSeq(f, 1, bl)[bl] = f[bl]
    BY <1>1, SubSeqProperties, ElementOfSeq
  <2>. QED  BY <2>1, <2>2
<1>3. CASE Last(b) = Slash
  <2>1. GetRelativePath(b, f) = SubSeq(f, bl, Len(f))
    BY <1>3 DEF GetRelativePath
  <2>2. Head(SubSeq(f, bl, Len(f))) = f[bl]
    BY <1>1, SubSeqProperties, ElementOfSeq
  <2>3. b[bl] = Slash
    BY <1>3 DEF Last
  <2>. QED  BY <1>2, <1>3, <2>1, <2>2, <2>3
<1>4. CASE Last(b) # Slash
  <2>1. GetRelativePath(b, f) = SubSeq(f, bl + 1, Len(f))
    BY <1>4 DEF GetRelativePath
  <2>2. Head(SubSeq(f, bl + 1, Len(f))) = f[bl + 1]
    BY <1>1, SubSeqProperties, ElementOfSeq
  <2>. QED  BY <1>4, <2>1, <2>2
<1>. QED  BY <1>3, <1>4

(* Exactly which stripped paths are paths below the base: the result      *)
(* starts with '/' if and only if the base ends with '/' or full_path has  *)
(* a '/' right after the base.                                             *)
SubpathExactly ==
    IsPrefix(base, full) /\ Len(full) > Len(base) =>
        (Head(Rel) = Slash <=> Last(base) = Slash \/ full[Len(base) + 1] = Slash)

(* For every pair of paths of every length: get_relative_path returns a    *)
(* path below the base exactly when the base ends with '/' or the full     *)
(* path goes on with '/'; a sibling that extends the base's last name     *)
(* (base /x, path /xx) gives a result without '/', the case the run       *)
(* relpath finds for RelativeIsSubpath.                                    *)
THEOREM SubpathExactlyHolds ==
    ASSUME MaxLen \in Nat
    PROVE  Spec => []SubpathExactly
<1>1. PathsInv /\ [Next]_vars => PathsInv'
  BY DEF PathsInv, Next, vars
<1>2. PathsInv => SubpathExactly
  <2>. SUFFICES ASSUME PathsInv, IsPrefix(base, full), Len(full) > Len(base)
               PROVE  Head(Rel) = Slash <=> Last(base) = Slash \/ full[Len(base) + 1] = Slash
    BY DEF SubpathExactly
  <2>. QED  BY RelativeHead DEF PathsInv, Rel
<1>. QED  BY PathsInvInit, <1>1, <1>2, PTL DEF Spec
=============================================================================
