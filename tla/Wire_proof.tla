----------------------------- MODULE Wire_proof -----------------------------
(***************************************************************************)
(* What arrives of the bytes between clients and server, for any number of *)
(* connections, any names and payloads, and bytes of any width.            *)
(***************************************************************************)
EXTENDS Wire, FiniteSetTheorems, SequenceTheorems, WellFoundedInduction, TLAPS

-----------------------------------------------------------------------------
(* Numbers *)

(* A set of natural numbers has a least one. *)
LEMMA LeastOf ==
  ASSUME NEW S \in SUBSET Nat, S # {}
  PROVE  \E x \in S : \A y \in S : x <= y
<1>1. PICK x \in S : \A y \in S : ~(<<y, x>> \in OpToRel(<, Nat))
  BY NatLessThanWellFounded, WFMin
<1>2. ASSUME NEW y \in S
      PROVE  x <= y
  <2>1. <<y, x>> \in Nat \X Nat
    OBVIOUS
  <2>2. OpToRel(<, Nat) = {pair \in Nat \X Nat : pair[1] < pair[2]}
    BY DEF OpToRel
  <2>3. ~(y < x)
    BY <1>1, <2>1, <2>2
  <2> QED BY <2>3
<1> QED BY <1>2

(* A number that fits is a digit and a smaller number. *)
LEMMA DigitAndRest ==
  ASSUME NEW b \in Nat, b > 1, NEW v \in Nat
  PROVE  /\ v % b \in 0 .. b - 1 /\ v \div b \in Nat /\ v = (v % b) + b * (v \div b)
         /\ \A m \in Nat : v < b * m => v \div b < m
OBVIOUS

(* The last digit of a number that has no other is the number. *)
LEMMA LastDigit ==
  ASSUME NEW b \in Nat, b > 1, NEW v \in Nat
  PROVE  (v < b => v % b = v) /\ v % b <= v
OBVIOUS

(* A shift by two or three bytes is two or three shifts. *)
LEMMA Shifts ==
  ASSUME NEW b \in Nat, b > 1, NEW v \in Nat
  PROVE  /\ v \div (b * b) = (v \div b) \div b
         /\ v \div (b * (b * b)) = ((v \div b) \div b) \div b
OBVIOUS

(* Two bytes are enough for a number below Limit16. *)
LEMMA TwoBytes ==
  ASSUME NEW v \in Nat
  PROVE  /\ PackH(v) \in Seq(Bytes) /\ Len(PackH(v)) = 2
         /\ PushU16(v) = PackH(v)
         /\ v < Limit16 => ReadUint16(PackH(v)) = v
<1>0. Base \in Nat /\ Base > 1
  BY WireAssumption
<1> USE <1>0
<1> DEFINE w == v \div Base
<1>1. /\ v % Base \in Bytes /\ w \in Nat /\ v = (v % Base) + Base * w
      /\ v < Base * Base => w < Base
  BY DigitAndRest DEF Bytes
<1> HIDE DEF w
<1>2. w % Base \in Bytes /\ (w < Base => w % Base = w)
  BY <1>1, DigitAndRest, LastDigit DEF Bytes
<1>3. PackH(v) = <<v % Base, w % Base>> /\ PushU16(v) = PackH(v)
  BY DEF PackH, PushU16, Byte, w
<1>4. ASSUME v < Limit16
      PROVE  ReadUint16(PackH(v)) = v
  BY <1>1, <1>2, <1>3, <1>4 DEF ReadUint16, Limit16
<1> QED BY <1>1, <1>2, <1>3, <1>4

(* Four bytes are enough for a number below Limit32; of others they hold   *)
(* the lowest digits.                                                      *)
LEMMA FourBytes ==
  ASSUME NEW v \in Nat
  PROVE  /\ PackI(v) \in Seq(Bytes) /\ Len(PackI(v)) = 4
         /\ PushU32(v) = PackI(v)
         /\ v < Limit32 => ReadUint32(PackI(v)) = v
         /\ ReadUint32(PackI(v)) <= v
<1>0. Base \in Nat /\ Base > 1
  BY WireAssumption
<1> USE <1>0
<1> DEFINE x == v \div Base
           y == x \div Base
           z == y \div Base
<1>1. /\ v % Base \in Bytes /\ x \in Nat /\ v = (v % Base) + Base * x
      /\ v < Base * (Base * (Base * Base)) => x < Base * (Base * Base)
  <2>1. Base * (Base * Base) \in Nat
    OBVIOUS
  <2> QED BY <2>1, DigitAndRest DEF Bytes
<1>2. v \div Limit16 = y /\ v \div (Base * Limit16) = z
  BY Shifts DEF Limit16
<1>3. PackI(v) = <<v % Base, x % Base, y % Base, z % Base>> /\ PushU32(v) = PackI(v)
  BY <1>2 DEF PackI, PushU32, Byte
<1> HIDE DEF x
<1>4. /\ x % Base \in Bytes /\ y \in Nat /\ x = (x % Base) + Base * y
      /\ x < Base * (Base * Base) => y < Base * Base
  <2>1. Base * Base \in Nat
    OBVIOUS
  <2> QED BY <1>1, <2>1, DigitAndRest DEF Bytes
<1> HIDE DEF y
<1>5. /\ y % Base \in Bytes /\ z \in Nat /\ y = (y % Base) + Base * z
      /\ y < Base * Base => z < Base
  BY <1>4, DigitAndRest DEF Bytes
<1> HIDE DEF z
<1>6. z % Base \in Bytes /\ (z < Base => z % Base = z)
  BY <1>5, DigitAndRest, LastDigit DEF Bytes
<1>7. Limit32 = Base * (Base * (Base * Base))
  BY DEF Limit16, Limit32
<1>8. ASSUME v < Limit32
      PROVE  ReadUint32(PackI(v)) = v
  <2>1. z % Base = z
    BY <1>1, <1>4, <1>5, <1>6, <1>7, <1>8
  <2>2. ReadUint32(PackI(v)) = (v % Base) + Base * ((x % Base) + Base * ((y % Base) + Base * z))
    BY <1>3, <2>1 DEF ReadUint32
  <2> QED BY <1>1, <1>4, <1>5, <2>2
<1>9. ReadUint32(PackI(v)) <= v
  <2>1. z % Base <= z
    BY <1>5, LastDigit
  <2>2. ReadUint32(PackI(v))
          = (v % Base) + Base * ((x % Base) + Base * ((y % Base) + Base * (z % Base)))
    BY <1>3 DEF ReadUint32
  <2>3. \A c, d, e \in Nat : d <= e => c + Base * d <= c + Base * e /\ c + Base * d \in Nat
    OBVIOUS
  <2>4. /\ v % Base \in Nat /\ x % Base \in Nat /\ y % Base \in Nat /\ z % Base \in Nat
        /\ x \in Nat /\ y \in Nat /\ z \in Nat
    BY <1>1, <1>4, <1>5, <1>6 DEF Bytes
  <2>5. /\ (y % Base) + Base * (z % Base) <= y
        /\ (y % Base) + Base * (z % Base) \in Nat
    BY <1>5, <2>1, <2>3, <2>4
  <2>6. /\ (x % Base) + Base * ((y % Base) + Base * (z % Base)) <= x
        /\ (x % Base) + Base * ((y % Base) + Base * (z % Base)) \in Nat
    BY <1>4, <2>3, <2>4, <2>5
  <2>7. (v % Base) + Base * ((x % Base) + Base * ((y % Base) + Base * (z % Base))) <= v
    BY <1>1, <2>3, <2>4, <2>6
  <2> QED BY <2>2, <2>7
<1> QED BY <1>1, <1>3, <1>4, <1>5, <1>6, <1>8, <1>9

(* What is read of bytes is a number. *)
LEMMA NumbersAreNat ==
  ASSUME NEW s \in Seq(Bytes)
  PROVE  /\ Len(s) = 2 => ReadUint16(s) \in Nat /\ UnpackH(s) = ReadUint16(s)
         /\ Len(s) = 4 => ReadUint32(s) \in Nat /\ UnpackI(s) = ReadUint32(s)
<1>1. \A i \in 1 .. Len(s) : s[i] \in Nat
  <2>1. \A i \in 1 .. Len(s) : s[i] \in Bytes
    OBVIOUS
  <2>2. Bytes \subseteq Nat
    BY WireAssumption DEF Bytes
  <2> QED BY <2>1, <2>2
<1>2. \A v, w \in Nat : v + Base * w \in Nat
  BY WireAssumption
<1>3. ASSUME Len(s) = 2
      PROVE  ReadUint16(s) \in Nat
  <2>1. s[1] \in Nat /\ s[2] \in Nat
    BY <1>1, <1>3
  <2> QED BY <2>1, <1>2 DEF ReadUint16
<1>4. ASSUME Len(s) = 4
      PROVE  ReadUint32(s) \in Nat
  <2>1. s[1] \in Nat /\ s[2] \in Nat /\ s[3] \in Nat /\ s[4] \in Nat
    BY <1>1, <1>4
  <2>2. s[3] + Base * s[4] \in Nat
    BY <2>1, <1>2
  <2>3. s[2] + Base * (s[3] + Base * s[4]) \in Nat
    BY <2>1, <2>2, <1>2
  <2>4. s[1] + Base * (s[2] + Base * (s[3] + Base * s[4])) \in Nat
    BY <2>1, <2>3, <1>2
  <2> QED BY <2>4 DEF ReadUint32
<1> QED BY <1>3, <1>4 DEF ReadUint16, ReadUint32, UnpackH, UnpackI

-----------------------------------------------------------------------------
(* Texts *)

(* The beginnings of a text, put together one after the other *)
Joins(f, s, n) == f = [i \in 1 .. n |-> IF i = 1 THEN s[i] ELSE f[i - 1] \o s[i]]

(* The function that FlattenSeq defines by recursion exists. *)
LEMMA JoinsExist ==
  ASSUME NEW S, NEW s \in Seq(Seq(S)), NEW n \in Nat
  PROVE  \E f : Joins(f, s, n)
<1> DEFINE T == {k \in Nat : \A f : ~Joins(f, s, k)}
<1>1. T = {}
  <2> SUFFICES ASSUME T # {} PROVE FALSE
    OBVIOUS
  <2>1. PICK k \in T : \A l \in T : k <= l
    BY LeastOf
  <2>2. k # 0
    <3> DEFINE g == [i \in 1 .. 0 |-> s[i]]
    <3>1. Joins(g, s, 0)
      BY DEF Joins
    <3> QED BY <2>1, <3>1
  <2>3. k - 1 \in Nat /\ k - 1 \notin T
    BY <2>1, <2>2
  <2>4. PICK f : Joins(f, s, k - 1)
    BY <2>3
  <2> DEFINE g == [i \in 1 .. k |-> IF i = 1 THEN s[i] ELSE f[i - 1] \o s[i]]
  <2>5. \A i \in 1 .. k - 1 : i \in 1 .. k /\ g[i] = f[i]
    <3>1. \A i \in 1 .. k - 1 : f[i] = IF i = 1 THEN s[i] ELSE f[i - 1] \o s[i]
      BY <2>4 DEF Joins
    <3>2. \A i \in 1 .. k - 1 : i \in 1 .. k
      BY <2>1, <2>2
    <3> QED BY <3>1, <3>2
  <2> HIDE DEF g
  <2>6. \A i \in 1 .. k : i # 1 => g[i - 1] = f[i - 1]
    <3>1. \A i \in 1 .. k : i # 1 => i - 1 \in 1 .. k - 1
      BY <2>1, <2>2
    <3> QED BY <2>5, <3>1
  <2>7. g = [i \in 1 .. k |-> IF i = 1 THEN s[i] ELSE g[i - 1] \o s[i]]
    BY <2>6 DEF g
  <2>8. Joins(g, s, k)
    BY <2>7 DEF Joins
  <2> QED BY <2>1, <2>8
<1> QED BY <1>1

(* So its last value is the text in one piece. *)
LEMMA FlattenJoins ==
  ASSUME NEW S, NEW s \in Seq(Seq(S)), s # <<>>
  PROVE  \E f : Joins(f, s, Len(s)) /\ FlattenSeq(s) = f[Len(s)]
<1> DEFINE f == CHOOSE f : Joins(f, s, Len(s))
<1>1. Joins(f, s, Len(s))
  BY JoinsExist
<1>2. Len(s) # 0
  OBVIOUS
<1>3. f = CHOOSE g : g = [i \in 1 .. Len(s) |-> IF i = 1 THEN s[i] ELSE g[i - 1] \o s[i]]
  BY DEF Joins
<1>4. FlattenSeq(s) = f[Len(s)]
  BY <1>2, <1>3 DEF FlattenSeq
<1> QED BY <1>1, <1>4

(* A text is encoded in the elements of its characters. *)
LEMMA EncodedInSet ==
  ASSUME NEW S, NEW s \in Seq(Seq(S))
  PROVE  Encoded(s) \in Seq(S)
<1>1. CASE s = <<>>
  BY <1>1 DEF Encoded
<1>2. CASE s # <<>>
  <2>1. PICK f : Joins(f, s, Len(s)) /\ FlattenSeq(s) = f[Len(s)]
    BY <1>2, FlattenJoins
  <2> DEFINE T == {k \in Nat : k \in 1 .. Len(s) /\ f[k] \notin Seq(S)}
  <2>2. T = {}
    <3> SUFFICES ASSUME T # {} PROVE FALSE
      OBVIOUS
    <3>1. PICK k \in T : \A l \in T : k <= l
      BY LeastOf
    <3>2. f[k] = IF k = 1 THEN s[k] ELSE f[k - 1] \o s[k]
      BY <2>1, <3>1 DEF Joins
    <3>3. s[k] \in Seq(S)
      BY <3>1
    <3>4. ASSUME k # 1
          PROVE  f[k - 1] \o s[k] \in Seq(S)
      <4>1. k - 1 \in Nat /\ k - 1 \in 1 .. Len(s) /\ k - 1 \notin T
        BY <3>1, <3>4
      <4> QED BY <3>3, <4>1, ConcatProperties
    <3> QED BY <3>1, <3>2, <3>3, <3>4
  <2>3. Len(s) \in 1 .. Len(s)
    BY <1>2
  <2> QED BY <1>2, <2>1, <2>2, <2>3 DEF Encoded
<1> QED BY <1>1, <1>2

(* These are bytes. *)
LEMMA EncodedInBytes ==
  ASSUME NEW s \in Seq(Seq(Bytes))
  PROVE  Encoded(s) \in Seq(Bytes)
BY EncodedInSet

(* A list is what comes before its last element and that element. *)
LEMMA WithoutLast ==
  ASSUME NEW S, NEW h \in Seq(S), Len(h) > 1
  PROVE  [i \in 1 .. Len(h) - 1 |-> h[i]] \o <<h[Len(h)]>> = h
<1>1. PICK g : g = [i \in 1 .. Len(h) - 1 |-> h[i]]
  OBVIOUS
<1>2. g \in Seq(S) /\ Len(g) = Len(h) - 1 /\ <<h[Len(h)]>> \in Seq(S)
  BY <1>1
<1>3. /\ g \o <<h[Len(h)]>> \in Seq(S) /\ Len(g \o <<h[Len(h)]>>) = Len(h)
      /\ \A i \in 1 .. Len(h) : (g \o <<h[Len(h)]>>)[i] = h[i]
  BY <1>1, <1>2, ConcatProperties
<1> QED BY <1>1, <1>3, SeqEqual

(* A text of one-byte characters *)
OneByteText(s) == s \in Seq(Seq(Bytes)) /\ \A i \in 1 .. Len(s) : Len(s[i]) = 1

(* It has as many bytes as characters, and is what they say. *)
LEMMA EncodedOneByte ==
  ASSUME NEW s, OneByteText(s)
  PROVE  Encoded(s) = [i \in 1 .. Len(s) |-> s[i][1]]
<1>1. CASE s = <<>>
  BY <1>1 DEF Encoded
<1>2. CASE s # <<>>
  <2> USE DEF OneByteText
  <2>1. PICK f : Joins(f, s, Len(s)) /\ FlattenSeq(s) = f[Len(s)]
    BY <1>2, FlattenJoins
  <2> DEFINE T == {k \in Nat : k \in 1 .. Len(s) /\ f[k] # [i \in 1 .. k |-> s[i][1]]}
  <2>2. T = {}
    <3> SUFFICES ASSUME T # {} PROVE FALSE
      OBVIOUS
    <3>1. PICK k \in T : \A l \in T : k <= l
      BY LeastOf
    <3>2. f[k] = IF k = 1 THEN s[k] ELSE f[k - 1] \o s[k]
      BY <2>1, <3>1 DEF Joins
    <3>3. k \in 1 .. Len(s) /\ s[k] \in Seq(Bytes) /\ Len(s[k]) = 1
      BY <3>1
    <3>4. s[k] = [i \in 1 .. 1 |-> s[k][1]]
      BY <3>3
    <3>5. CASE k = 1
      BY <3>1, <3>2, <3>4, <3>5
    <3>6. CASE k # 1
      <4>1. k - 1 \in Nat /\ k - 1 \in 1 .. Len(s) /\ ~(k <= k - 1)
        BY <3>3, <3>6
      <4>2. PICK h : h = [i \in 1 .. k |-> s[i][1]]
        OBVIOUS
      <4>3. h \in Seq(Bytes) /\ Len(h) = k /\ h[k] = s[k][1]
        <5>1. \A i \in 1 .. k : i \in 1 .. Len(s)
          BY <3>3
        <5>2. \A i \in 1 .. k : s[i] \in Seq(Bytes) /\ Len(s[i]) = 1
          BY <5>1
        <5>3. \A i \in 1 .. k : s[i][1] \in Bytes
          BY <5>2
        <5> QED BY <3>3, <4>2, <5>3
      <4>4. f[k - 1] = [i \in 1 .. Len(h) - 1 |-> h[i]]
        <5>1. f[k - 1] = [i \in 1 .. k - 1 |-> s[i][1]]
          BY <3>1, <4>1 DEF T
        <5>2. \A i \in 1 .. k - 1 : i \in 1 .. k
          BY <3>3
        <5>3. \A i \in 1 .. k - 1 : h[i] = s[i][1]
          BY <4>2, <5>2
        <5> QED BY <4>3, <5>1, <5>3
      <4>5. s[k] = <<h[Len(h)]>>
        BY <3>3, <4>3
      <4>6. f[k - 1] \o s[k] = h
        BY <3>3, <3>6, <4>3, <4>4, <4>5, WithoutLast
      <4> QED BY <3>1, <3>2, <3>6, <4>2, <4>6
    <3> QED BY <3>5, <3>6
  <2>3. Len(s) \in Nat /\ Len(s) \in 1 .. Len(s)
    BY <1>2
  <2>4. f[Len(s)] = [i \in 1 .. Len(s) |-> s[i][1]]
    BY <2>2, <2>3
  <2> QED BY <1>2, <2>1, <2>4 DEF Encoded
<1> QED BY <1>1, <1>2

-----------------------------------------------------------------------------
(* Fields *)

(* Bytes can be put together in any order of doing so. *)
LEMMA InAnyOrder ==
  \A s, t, u \in Seq(Bytes) : (s \o t) \o u = s \o (t \o u)
<1> TAKE s, t, u \in Seq(Bytes)
<1> QED BY ConcatAssociative

(* What comes after the version in three bytes *)
LEMMA TailOfThree ==
  ASSUME NEW t \in Seq(Bytes), Len(t) = 3
  PROVE  Tail(t)[1] = t[2] /\ Tail(t)[2] = t[3]
<1>1. t # <<>>
  OBVIOUS
<1>2. PICK f, n : f = Tail(t) /\ n = Len(f)
  OBVIOUS
<1>3. n = Len(t) - 1 /\ \A i \in 1 .. n : f[i] = t[i + 1]
  BY <1>1, <1>2, HeadTailProperties
<1>4. 1 \in 1 .. n /\ 2 \in 1 .. n
  BY <1>3
<1>5. f[1] = t[1 + 1] /\ f[2] = t[2 + 1]
  BY <1>3, <1>4
<1>6. f[1] = t[2] /\ f[2] = t[3]
  BY <1>5
<1> QED BY <1>2, <1>6

(* Reading a field leaves what comes after it. *)
LEMMA FieldThenRest ==
  ASSUME NEW s \in Seq(Bytes), NEW t \in Seq(Bytes)
  PROVE  /\ s \o t \in Seq(Bytes) /\ Len(s \o t) >= Len(s)
         /\ SubSeq(s \o t, 1, Len(s)) = s
         /\ SubSeq(s \o t, Len(s) + 1, Len(s \o t)) = t
<1>1. /\ s \o t \in Seq(Bytes) /\ Len(s \o t) = Len(s) + Len(t)
      /\ \A i \in 1 .. Len(s) + Len(t) : (s \o t)[i] = IF i <= Len(s) THEN s[i] ELSE t[i - Len(s)]
  BY ConcatProperties
<1>2. Len(s) \in Nat /\ Len(t) \in Nat
  OBVIOUS
<1>3. SubSeq(s \o t, 1, Len(s)) = s
  <2>1. \A i \in 1 .. Len(s) : (s \o t)[i] = s[i] /\ s[i] \in Bytes
    BY <1>1, <1>2
  <2>2. /\ SubSeq(s \o t, 1, Len(s)) \in Seq(Bytes) /\ Len(SubSeq(s \o t, 1, Len(s))) = Len(s)
        /\ \A i \in 1 .. Len(s) : SubSeq(s \o t, 1, Len(s))[i] = s[i]
    BY <1>2, <2>1, SubSeqProperties
  <2> QED BY <2>2, SeqEqual
<1>4. SubSeq(s \o t, Len(s) + 1, Len(s \o t)) = t
  <2> DEFINE u == SubSeq(s \o t, Len(s) + 1, Len(s \o t))
  <2>1. \A i \in Len(s) + 1 .. Len(s) + Len(t) : (s \o t)[i] \in Bytes
    BY <1>1, <1>2
  <2>2. /\ u \in Seq(Bytes) /\ Len(u) = Len(t)
        /\ \A i \in 1 .. Len(t) : u[i] = (s \o t)[Len(s) + i]
    BY <1>1, <1>2, <2>1, SubSeqProperties
  <2>3. \A i \in 1 .. Len(t) : (s \o t)[Len(s) + i] = t[i]
    BY <1>1, <1>2
  <2> HIDE DEF u
  <2>4. u = t
    BY <2>2, <2>3, SeqEqual
  <2> QED BY <2>4 DEF u
<1> QED BY <1>1, <1>2, <1>3, <1>4

(* A part of a sequence of bytes is one. *)
LEMMA PartsAreBytes ==
  ASSUME NEW s \in Seq(Bytes), NEW n \in Nat, n <= Len(s)
  PROVE  /\ SubSeq(s, 1, n) \in Seq(Bytes) /\ Len(SubSeq(s, 1, n)) = n
         /\ SubSeq(s, n + 1, Len(s)) \in Seq(Bytes)
<1>1. \A i \in 1 .. Len(s) : s[i] \in Bytes
  OBVIOUS
<1>2. \A i \in 1 .. n : s[i] \in Bytes
  BY <1>1
<1>3. \A i \in n + 1 .. Len(s) : s[i] \in Bytes
  BY <1>1
<1> QED BY <1>2, <1>3, SubSeqProperties

(* A field has the width it is given, and what fits exactly is unchanged.  *)
LEMMA FieldsFit ==
  ASSUME NEW s \in Seq(Bytes), NEW n \in Nat
  PROVE  /\ Field(s, n) \in Seq(Bytes) /\ Len(Field(s, n)) = n
         /\ n = Len(s) => Field(s, n) = s
<1>1. 0 \in Bytes
  BY WireAssumption DEF Bytes
<1>2. \A i \in 1 .. n : (IF i <= Len(s) THEN s[i] ELSE 0) \in Bytes
  BY <1>1
<1>3. Field(s, n) = [i \in 1 .. n |-> IF i <= Len(s) THEN s[i] ELSE 0]
  BY DEF Field
<1>4. PICK f : f = Field(s, n)
  OBVIOUS
<1>5. f \in Seq(Bytes) /\ Len(f) = n /\ \A i \in 1 .. n : i <= Len(s) => f[i] = s[i]
  BY <1>2, <1>3, <1>4
<1>6. n = Len(s) => f = s
  BY <1>5, SeqEqual
<1> QED BY <1>4, <1>5, <1>6

(* Names and payloads are texts, and names are not empty. *)
LEMMA TextsAre ==
  /\ \A n \in Names : n \in Seq(Seq(Bytes)) /\ Len(n) > 0 /\ n \in Seq(Characters)
  /\ \A p \in Payloads : p \in Seq(Seq(Bytes))
<1>1. Characters \subseteq Seq(Bytes)
  BY WireAssumption
<1>2. \A n \in Names : n \in Seq(Characters) /\ n # <<>>
  BY WireAssumption
<1>3. \A n \in Seq(Characters) : n \in Seq(Seq(Bytes))
  BY <1>1, SeqMonotonic
<1>4. \A n \in Seq(Characters) : n # <<>> => Len(n) > 0
  OBVIOUS
<1> QED BY <1>2, <1>3, <1>4, WireAssumption

(* The fields that a call has. *)
LEMMA CallFields ==
  ASSUME NEW c \in Calls
  PROVE  /\ c.op \in DOMAIN RequestOP
         /\ c.op # "LIST_FILES" => c.name \in Names
         /\ c.op = "BACKUP_FILE" => c.payload \in Payloads
         /\ c # None /\ c.op # "none"
<1>1. CASE c \in [op : {"LIST_FILES"}]
  BY <1>1, WireAssumption DEF None
<1>2. CASE c \in [op : {"RESTORE_FILE", "DELETE_FILE"}, name : Names]
  BY <1>2, WireAssumption DEF None
<1>3. CASE c \in [op : {"BACKUP_FILE"}, name : Names, payload : Payloads]
  BY <1>3, WireAssumption DEF None
<1> QED BY <1>1, <1>2, <1>3 DEF Calls

-----------------------------------------------------------------------------
(* Requests *)

NameField(c)    == Field(Encoded(c.name), Len(c.name))
PayloadField(c) == Field(Encoded(c.payload), Len(c.payload))

AfterName(c) == IF c.op = "BACKUP_FILE" THEN PackI(Len(c.payload)) \o PayloadField(c) ELSE <<>>
AfterOp(c) ==
  IF c.op = "LIST_FILES" THEN <<>> ELSE PackH(Len(c.name)) \o (NameField(c) \o AfterName(c))

(* What is left of the request of a call from a field on *)
Remaining(c, next) ==
  CASE next = "user_id" -> PackI(user_id) \o (<<version>> \o (<<RequestOP[c.op]>> \o AfterOp(c)))
    [] next = "version" -> <<version>> \o (<<RequestOP[c.op]>> \o AfterOp(c))
    [] next = "op" -> <<RequestOP[c.op]>> \o AfterOp(c)
    [] next = "name_length" -> AfterOp(c)
    [] next = "name" -> NameField(c) \o AfterName(c)
    [] next = "payload_length" -> AfterName(c)
    [] next = "payload" -> PayloadField(c)
    [] next = "handle" -> <<>>

(* The process is of a client with one of the user ids and versions. *)
ClientTyped == user_id \in UserIds /\ version \in ClientVersions

(* The numbers in a request are bytes, and its lengths are natural.        *)
LEMMA ClientIsTyped ==
  ASSUME ClientTyped
  PROVE  user_id \in Nat /\ user_id < Limit32 /\ version \in Bytes
<1>1. Limit32 \in Nat
  <2>1. Limit16 \in Nat
    BY WireAssumption DEF Limit16
  <2> QED BY <2>1 DEF Limit32
<1> QED BY <1>1, WireAssumption DEF ClientTyped

(* The fields of a request are bytes. *)
LEMMA RequestFields ==
  ASSUME NEW c \in Calls
  PROVE  /\ <<RequestOP[c.op]>> \in Seq(Bytes) /\ AfterOp(c) \in Seq(Bytes)
         /\ AfterName(c) \in Seq(Bytes)
         /\ c.op # "LIST_FILES" =>
              /\ Len(c.name) \in Nat /\ Len(c.name) > 0
              /\ NameField(c) \in Seq(Bytes) /\ Len(NameField(c)) = Len(c.name)
              /\ PackH(Len(c.name)) \in Seq(Bytes) /\ Len(PackH(Len(c.name))) = 2
         /\ c.op = "BACKUP_FILE" =>
              /\ Len(c.payload) \in Nat
              /\ PayloadField(c) \in Seq(Bytes) /\ Len(PayloadField(c)) = Len(c.payload)
              /\ PackI(Len(c.payload)) \in Seq(Bytes) /\ Len(PackI(Len(c.payload))) = 4
<1>1. RequestOP[c.op] \in Bytes
  <2>1. c.op \in DOMAIN RequestOP
    BY CallFields
  <2>2. RequestOP[c.op] \in Range(RequestOP)
    BY <2>1 DEF Range
  <2> QED BY <2>2, WireAssumption
<1>2. ASSUME c.op # "LIST_FILES"
      PROVE  /\ Len(c.name) \in Nat /\ Len(c.name) > 0
             /\ NameField(c) \in Seq(Bytes) /\ Len(NameField(c)) = Len(c.name)
             /\ PackH(Len(c.name)) \in Seq(Bytes) /\ Len(PackH(Len(c.name))) = 2
  <2>1. c.name \in Seq(Seq(Bytes)) /\ Len(c.name) > 0
    BY <1>2, CallFields, TextsAre
  <2>2. Len(c.name) \in Nat /\ Encoded(c.name) \in Seq(Bytes)
    BY <2>1, EncodedInBytes
  <2> QED BY <2>1, <2>2, FieldsFit, TwoBytes DEF NameField
<1>3. ASSUME c.op = "BACKUP_FILE"
      PROVE  /\ Len(c.payload) \in Nat
             /\ PayloadField(c) \in Seq(Bytes) /\ Len(PayloadField(c)) = Len(c.payload)
             /\ PackI(Len(c.payload)) \in Seq(Bytes) /\ Len(PackI(Len(c.payload))) = 4
  <2>1. c.payload \in Seq(Seq(Bytes))
    BY <1>3, CallFields, TextsAre
  <2>2. Len(c.payload) \in Nat /\ Encoded(c.payload) \in Seq(Bytes)
    BY <2>1, EncodedInBytes
  <2> QED BY <2>1, <2>2, FieldsFit, FourBytes DEF PayloadField
<1>4. <<>> \in Seq(Bytes)
  OBVIOUS
<1>5. AfterName(c) \in Seq(Bytes)
  BY <1>3, <1>4, ConcatProperties DEF AfterName
<1>6. ASSUME c.op # "LIST_FILES"
      PROVE  PackH(Len(c.name)) \o (NameField(c) \o AfterName(c)) \in Seq(Bytes)
  <2>1. NameField(c) \o AfterName(c) \in Seq(Bytes)
    BY <1>2, <1>5, <1>6, ConcatProperties
  <2> QED BY <1>2, <1>6, <2>1, ConcatProperties
<1>7. AfterOp(c) \in Seq(Bytes)
  BY <1>4, <1>6 DEF AfterOp
<1> QED BY <1>1, <1>2, <1>3, <1>5, <1>7

(* A request is its fields, one after the other. *)
LEMMA RequestIsFields ==
  ASSUME ClientTyped, NEW c \in Calls
  PROVE  PackRequest(c) = Remaining(c, "user_id") /\ PackRequest(c) \in Seq(Bytes)
<1> DEFINE u == PackI(user_id)
           h == <<version, RequestOP[c.op]>>
           a == IF c.op = "LIST_FILES" THEN <<>> ELSE PackFilename(c.name)
           p == IF c.op = "BACKUP_FILE" THEN PackPayload(c.payload) ELSE <<>>
<1>1. u \in Seq(Bytes)
  BY ClientIsTyped, FourBytes
<1>2. <<version>> \in Seq(Bytes) /\ <<RequestOP[c.op]>> \in Seq(Bytes)
  BY ClientIsTyped, RequestFields
<1>3. h = <<version>> \o <<RequestOP[c.op]>> /\ h \in Seq(Bytes)
  BY <1>2
<1>4. p = AfterName(c) /\ p \in Seq(Bytes)
  BY RequestFields DEF PackPayload, PayloadField, AfterName
<1>5. a \in Seq(Bytes) /\ a \o p = AfterOp(c)
  <2>1. CASE c.op = "LIST_FILES"
    <3>1. p = <<>>
      BY <2>1
    <3> QED BY <2>1, <3>1 DEF AfterOp
  <2>2. CASE c.op # "LIST_FILES"
    <3>1. a = PackH(Len(c.name)) \o NameField(c)
      BY <2>2 DEF PackFilename, NameField
    <3>2. a \in Seq(Bytes)
      <4>1. PackH(Len(c.name)) \in Seq(Bytes) /\ NameField(c) \in Seq(Bytes)
        BY <2>2, RequestFields
      <4>2. PackH(Len(c.name)) \o NameField(c) \in Seq(Bytes)
        BY <4>1, ConcatProperties
      <4> QED BY <3>1, <4>2
    <3>3. (PackH(Len(c.name)) \o NameField(c)) \o AfterName(c) =
            PackH(Len(c.name)) \o (NameField(c) \o AfterName(c))
      <4>1. /\ PackH(Len(c.name)) \in Seq(Bytes) /\ NameField(c) \in Seq(Bytes)
            /\ AfterName(c) \in Seq(Bytes)
        BY <2>2, RequestFields
      <4> QED BY <4>1, InAnyOrder
    <3>4. a \o p = PackH(Len(c.name)) \o (NameField(c) \o AfterName(c))
      BY <1>4, <3>1, <3>3
    <3> QED BY <2>2, <3>2, <3>4 DEF AfterOp
  <2> QED BY <2>1, <2>2
<1>6. PackRequest(c) = ((u \o h) \o a) \o p
  BY DEF PackRequest
<1> HIDE DEF u, h, a, p
<1>7. /\ a \o p \in Seq(Bytes) /\ h \o (a \o p) \in Seq(Bytes)
      /\ u \o (h \o (a \o p)) \in Seq(Bytes) /\ u \o h \in Seq(Bytes)
  BY <1>1, <1>3, <1>4, <1>5, ConcatProperties
<1>8. /\ u \o h \in Seq(Bytes) /\ a \in Seq(Bytes) /\ p \in Seq(Bytes)
      /\ u \in Seq(Bytes) /\ h \in Seq(Bytes) /\ a \o p \in Seq(Bytes)
      /\ <<version>> \in Seq(Bytes) /\ <<RequestOP[c.op]>> \in Seq(Bytes)
  BY <1>1, <1>2, <1>3, <1>4, <1>5, <1>7
<1>9. ((u \o h) \o a) \o p = (u \o h) \o (a \o p)
  BY <1>8, InAnyOrder, SMTT(30)
<1>10. (u \o h) \o (a \o p) = u \o (h \o (a \o p))
  BY <1>8, InAnyOrder, SMTT(30)
<1>11. (<<version>> \o <<RequestOP[c.op]>>) \o (a \o p)
         = <<version>> \o (<<RequestOP[c.op]>> \o (a \o p))
  BY <1>8, InAnyOrder
<1> QED BY <1>3, <1>5, <1>6, <1>7, <1>9, <1>10, <1>11 DEF Remaining, u

-----------------------------------------------------------------------------
(* RequestParser *)

(* What r has read is the beginning of the request of c. *)
FieldsMatch(c, r) ==
  /\ c \in Calls /\ CanPack(c)
  /\ r.next # "user_id" => r.user = user_id
  /\ r.next \notin {"user_id", "version", "op"} => r.op = c.op
  /\ r.next \in {"name_length", "name"} => c.op # "LIST_FILES"
  /\ r.next \in {"payload_length", "payload"} => c.op = "BACKUP_FILE" /\ r.name = NameField(c)
  /\ r.next = "name" => r.length = Len(c.name)
  /\ r.next = "payload" => r.length = Len(c.payload)
  /\ r.next = "handle" =>
       /\ c.op # "LIST_FILES" => r.name = NameField(c)
       /\ c.op = "BACKUP_FILE" => r.payload = PayloadField(c)

(* RequestParser goes on from one of its states to another. *)
LEMMA ParsersAreClosed ==
  ASSUME NEW r \in Parsers, r.next \notin {"none", "error", "handle"},
         NEW s \in Seq(Bytes), Len(s) = Width(r)
  PROVE  AfterField(r, s) \in Parsers /\ AfterField(r, s).next # "none"
<1> USE DEF AfterField, Parsers, Width
<1>1. CASE r.next = "user_id"
  BY <1>1, NumbersAreNat
<1>2. CASE r.next = "version"
  BY <1>2
<1>3. CASE r.next = "op"
  <2>1. s[1] \in Range(RequestOP) => OpOf(s[1]) \in DOMAIN RequestOP
    BY DEF OpOf, Range
  <2> QED BY <1>3, <2>1
<1>4. CASE r.next = "name_length"
  BY <1>4, NumbersAreNat
<1>5. CASE r.next = "name"
  BY <1>5
<1>6. CASE r.next = "payload_length"
  BY <1>6, NumbersAreNat
<1>7. CASE r.next = "payload"
  BY <1>7
<1> QED BY <1>1, <1>2, <1>3, <1>4, <1>5, <1>6, <1>7

(* The field t is next in the request of c, and after it u is left.        *)
NextField(c, r, t, u) ==
  /\ t \in Seq(Bytes) /\ u \in Seq(Bytes)
  /\ Len(t) = Width(r)
  /\ Remaining(c, r.next) = t \o u
  /\ \/ AfterField(r, t).next = "error" /\ version # ServerVersion
     \/ /\ AfterField(r, t).next \notin {"none", "error"}
        /\ FieldsMatch(c, AfterField(r, t))
        /\ u = Remaining(c, AfterField(r, t).next)

(* The field that RequestParser reads next is the one that comes next. *)
LEMMA FieldsAreInOrder ==
  ASSUME ClientTyped, NEW c, NEW r \in Parsers, FieldsMatch(c, r),
         r.next \notin {"none", "error", "handle"}
  PROVE  \E t, u : NextField(c, r, t, u)
<1>1. /\ c \in Calls /\ CanPack(c)
      /\ <<RequestOP[c.op]>> \in Seq(Bytes) /\ AfterOp(c) \in Seq(Bytes)
      /\ AfterName(c) \in Seq(Bytes) /\ <<version>> \in Seq(Bytes)
  BY RequestFields, ClientIsTyped DEF FieldsMatch
<1>2. CASE r.next = "user_id"
  <2> DEFINE t == PackI(user_id)
             u == <<version>> \o (<<RequestOP[c.op]>> \o AfterOp(c))
  <2>1. t \in Seq(Bytes) /\ Len(t) = 4 /\ ReadUint32(t) = user_id
    BY ClientIsTyped, FourBytes
  <2>2. u \in Seq(Bytes)
    <3>1. <<RequestOP[c.op]>> \o AfterOp(c) \in Seq(Bytes)
      BY <1>1, ConcatProperties
    <3> QED BY <1>1, <3>1, ConcatProperties
  <2>3. Width(r) = 4 /\ Remaining(c, r.next) = t \o u
    BY <1>2 DEF Width, Remaining
  <2>4. AfterField(r, t) = [r EXCEPT !.next = "version", !.user = user_id]
    BY <1>2, <2>1 DEF AfterField
  <2>5. AfterField(r, t).next = "version" /\ AfterField(r, t).user = user_id
    BY <2>4 DEF Parsers
  <2>6. u = Remaining(c, "version")
    BY DEF Remaining
  <2> HIDE DEF t, u
  <2>7. FieldsMatch(c, AfterField(r, t))
    BY <1>1, <2>5 DEF FieldsMatch
  <2>8. NextField(c, r, t, u)
    BY <2>1, <2>2, <2>3, <2>5, <2>6, <2>7 DEF NextField
  <2> QED BY <2>8
<1>3. CASE r.next = "version"
  <2> DEFINE t == <<version>>
             u == <<RequestOP[c.op]>> \o AfterOp(c)
  <2>1. t \in Seq(Bytes) /\ Len(t) = 1 /\ t[1] = version
    BY <1>1
  <2>2. u \in Seq(Bytes)
    BY <1>1, ConcatProperties
  <2>3. Width(r) = 1 /\ Remaining(c, r.next) = t \o u
    BY <1>3 DEF Width, Remaining
  <2>4. AfterField(r, t) = [r EXCEPT !.next = IF version = ServerVersion THEN "op" ELSE "error"]
    BY <1>3, <2>1 DEF AfterField
  <2>5. /\ AfterField(r, t).user = user_id
        /\ AfterField(r, t).next = IF version = ServerVersion THEN "op" ELSE "error"
    BY <1>3, <2>4 DEF Parsers, FieldsMatch
  <2>6. u = Remaining(c, "op")
    BY DEF Remaining
  <2> HIDE DEF t, u
  <2>7. version = ServerVersion => FieldsMatch(c, AfterField(r, t))
    BY <1>1, <2>5 DEF FieldsMatch
  <2>8. NextField(c, r, t, u)
    BY <2>1, <2>2, <2>3, <2>5, <2>6, <2>7 DEF NextField
  <2> QED BY <2>8
<1>4. CASE r.next = "op"
  <2> DEFINE t == <<RequestOP[c.op]>>
             u == AfterOp(c)
             n == IF c.op = "LIST_FILES" THEN "handle" ELSE "name_length"
  <2>1. t \in Seq(Bytes) /\ Len(t) = 1 /\ t[1] = RequestOP[c.op]
    BY <1>1
  <2>2. Width(r) = 1 /\ Remaining(c, r.next) = t \o u
    BY <1>4 DEF Width, Remaining
  <2>3. t[1] \in Range(RequestOP) /\ OpOf(t[1]) = c.op
    <3>1. c.op \in DOMAIN RequestOP
      BY <1>1, CallFields
    <3>2. \A op \in DOMAIN RequestOP : RequestOP[op] = RequestOP[c.op] => op = c.op
      BY <3>1, WireAssumption DEF IsInjective
    <3> QED BY <2>1, <3>1, <3>2 DEF Range, OpOf
  <2>4. AfterField(r, t) = [r EXCEPT !.op = c.op, !.next = n]
    BY <1>4, <2>3 DEF AfterField
  <2>5. /\ AfterField(r, t).user = user_id /\ AfterField(r, t).op = c.op
        /\ AfterField(r, t).next = n
    BY <1>4, <2>4 DEF Parsers, FieldsMatch
  <2>6. u = Remaining(c, n)
    BY DEF Remaining, AfterOp
  <2>7. n \in {"handle", "name_length"} /\ (n = "handle" <=> c.op = "LIST_FILES")
    OBVIOUS
  <2>8. c.op = "LIST_FILES" => c.op # "BACKUP_FILE"
    OBVIOUS
  <2> HIDE DEF t, u, n
  <2>9. FieldsMatch(c, AfterField(r, t))
    BY <1>1, <2>5, <2>7, <2>8 DEF FieldsMatch
  <2>10. NextField(c, r, t, u)
    BY <1>1, <2>1, <2>2, <2>5, <2>6, <2>7, <2>9 DEF NextField, u
  <2> QED BY <2>10
<1>5. CASE r.next = "name_length"
  <2> DEFINE t == PackH(Len(c.name))
             u == NameField(c) \o AfterName(c)
  <2>1. c.op # "LIST_FILES" /\ r.user = user_id /\ r.op = c.op
    BY <1>5 DEF FieldsMatch
  <2>2. /\ Len(c.name) \in Nat /\ NameField(c) \in Seq(Bytes)
        /\ Len(c.name) < Limit16
    BY <1>1, <2>1, RequestFields DEF CanPack
  <2>3. t \in Seq(Bytes) /\ Len(t) = 2 /\ ReadUint16(t) = Len(c.name)
    BY <2>2, TwoBytes
  <2>4. u \in Seq(Bytes)
    BY <1>1, <2>2, ConcatProperties
  <2>5. Width(r) = 2 /\ Remaining(c, r.next) = t \o u
    BY <1>5, <2>1 DEF Width, Remaining, AfterOp
  <2>6. AfterField(r, t) = [r EXCEPT !.next = "name", !.length = Len(c.name)]
    BY <1>5, <2>3 DEF AfterField
  <2>7. /\ AfterField(r, t).user = user_id /\ AfterField(r, t).op = c.op
        /\ AfterField(r, t).next = "name" /\ AfterField(r, t).length = Len(c.name)
    BY <2>1, <2>6 DEF Parsers
  <2>8. u = Remaining(c, "name")
    BY DEF Remaining
  <2> HIDE DEF t, u
  <2>9. FieldsMatch(c, AfterField(r, t))
    BY <1>1, <2>1, <2>7 DEF FieldsMatch
  <2>10. NextField(c, r, t, u)
    BY <2>3, <2>4, <2>5, <2>7, <2>8, <2>9 DEF NextField
  <2> QED BY <2>10
<1>6. CASE r.next = "name"
  <2> DEFINE t == NameField(c)
             u == AfterName(c)
             n == IF c.op = "BACKUP_FILE" THEN "payload_length" ELSE "handle"
  <2>1. /\ c.op # "LIST_FILES" /\ r.user = user_id /\ r.op = c.op
        /\ r.length = Len(c.name)
    BY <1>6 DEF FieldsMatch
  <2>2. t \in Seq(Bytes) /\ Len(t) = Len(c.name)
    BY <1>1, <2>1, RequestFields
  <2>3. Width(r) = Len(c.name) /\ Remaining(c, r.next) = t \o u
    BY <1>6, <2>1 DEF Width, Remaining
  <2>4. AfterField(r, t) = [r EXCEPT !.name = t, !.next = n]
    BY <1>6, <2>1 DEF AfterField
  <2>5. /\ AfterField(r, t).user = user_id /\ AfterField(r, t).op = c.op
        /\ AfterField(r, t).next = n /\ AfterField(r, t).name = t
    BY <2>1, <2>4 DEF Parsers
  <2>6. u = Remaining(c, n)
    BY DEF Remaining, AfterName
  <2>7. n \in {"payload_length", "handle"} /\ (n = "payload_length" <=> c.op = "BACKUP_FILE")
    OBVIOUS
  <2>8. t = NameField(c)
    OBVIOUS
  <2> HIDE DEF t, u, n
  <2>9. FieldsMatch(c, AfterField(r, t))
    BY <1>1, <2>1, <2>5, <2>7, <2>8 DEF FieldsMatch
  <2>10. NextField(c, r, t, u)
    BY <1>1, <2>2, <2>3, <2>5, <2>6, <2>7, <2>9 DEF NextField, u
  <2> QED BY <2>10
<1>7. CASE r.next = "payload_length"
  <2> DEFINE t == PackI(Len(c.payload))
             u == PayloadField(c)
  <2>1. /\ c.op = "BACKUP_FILE" /\ r.user = user_id /\ r.op = c.op
        /\ r.name = NameField(c)
    BY <1>7 DEF FieldsMatch
  <2>2. /\ Len(c.payload) \in Nat /\ u \in Seq(Bytes)
        /\ Len(c.payload) < Limit32
    BY <1>1, <2>1, RequestFields DEF CanPack
  <2>3. t \in Seq(Bytes) /\ Len(t) = 4 /\ ReadUint32(t) = Len(c.payload)
    BY <2>2, FourBytes
  <2>4. Width(r) = 4 /\ Remaining(c, r.next) = t \o u
    BY <1>7, <2>1 DEF Width, Remaining, AfterName
  <2>5. AfterField(r, t) = [r EXCEPT !.next = "payload", !.length = Len(c.payload)]
    BY <1>7, <2>3 DEF AfterField
  <2>6. /\ AfterField(r, t).user = user_id /\ AfterField(r, t).op = c.op
        /\ AfterField(r, t).next = "payload" /\ AfterField(r, t).length = Len(c.payload)
        /\ AfterField(r, t).name = NameField(c)
    BY <2>1, <2>5 DEF Parsers
  <2>7. u = Remaining(c, "payload")
    BY DEF Remaining
  <2> HIDE DEF t, u
  <2>8. FieldsMatch(c, AfterField(r, t))
    BY <1>1, <2>1, <2>6 DEF FieldsMatch
  <2>9. NextField(c, r, t, u)
    BY <2>2, <2>3, <2>4, <2>6, <2>7, <2>8 DEF NextField
  <2> QED BY <2>9
<1>8. CASE r.next = "payload"
  <2> DEFINE t == PayloadField(c)
  <2>1. /\ c.op = "BACKUP_FILE" /\ r.user = user_id /\ r.op = c.op
        /\ r.name = NameField(c) /\ r.length = Len(c.payload)
    BY <1>8 DEF FieldsMatch
  <2>2. t \in Seq(Bytes) /\ Len(t) = Len(c.payload) /\ t \o <<>> = t /\ <<>> \in Seq(Bytes)
    BY <1>1, <2>1, RequestFields, ConcatEmptySeq
  <2>3. Width(r) = Len(c.payload) /\ Remaining(c, r.next) = t \o <<>>
    BY <1>8, <2>1, <2>2 DEF Width, Remaining
  <2>4. AfterField(r, t) = [r EXCEPT !.next = "handle", !.payload = t]
    BY <1>8 DEF AfterField
  <2>5. /\ AfterField(r, t).user = user_id /\ AfterField(r, t).op = c.op
        /\ AfterField(r, t).next = "handle" /\ AfterField(r, t).payload = PayloadField(c)
        /\ AfterField(r, t).name = NameField(c)
    BY <2>1, <2>4 DEF Parsers
  <2>6. <<>> = Remaining(c, "handle")
    BY DEF Remaining
  <2> HIDE DEF t
  <2>7. FieldsMatch(c, AfterField(r, t))
    BY <1>1, <2>1, <2>5 DEF FieldsMatch
  <2>8. NextField(c, r, t, <<>>)
    BY <2>2, <2>3, <2>5, <2>6, <2>7 DEF NextField
  <2> QED BY <2>8
<1> QED BY <1>2, <1>3, <1>4, <1>5, <1>6, <1>7, <1>8 DEF Parsers

-----------------------------------------------------------------------------
(* The invariant of the requests *)

(* The client is in a call exactly when it waits for an answer. *)
ConnectionsMatch ==
  /\ conn = NoConnection <=> answer.next = "none"
  /\ conn # NoConnection => call[conn] \in Calls

(* What a session has read, and what is on its way to it, are the request  *)
(* of the call: all of it, or nothing once the connection is broken.       *)
RequestMatches(d) ==
  /\ read[d].next = "none" => read[d] = Idle /\ up[d] = <<>>
  /\ read[d].next = "error" => version # ServerVersion
  /\ read[d].next \notin {"none", "error"} =>
       /\ FieldsMatch(call[d], read[d])
       /\ up[d] = Remaining(call[d], read[d].next) \/ (up[d] = <<>> /\ ~live[d])

RequestInv ==
  /\ TypeOK
  /\ ConnectionsMatch
  /\ \A d \in Connections : RequestMatches(d)

-----------------------------------------------------------------------------
(* The invariant of the answers *)

(* The responses of the server with names from a set *)
Responses(names) ==
  [op : {"NO_BACKUP_FILES_FOR_CLIENT", "SERVER_ERROR"}]
    \cup [op : {"SUCCESSFUL_BACKUP_OR_DELETE", "FILE_NOT_FOUND"}, name : names]
    \cup [op : {"SUCCESSFUL_RESTORE", "SUCCESSFUL_LIST_FILES"}, name : names, payload : Seq(Bytes)]

(* Names that arrive *)
GoodNames == {b \in Seq(Bytes) : Len(b) < Limit16 /\ IsUTF8(b)}

PayloadPart(r) ==
  IF r.op \in WithFile THEN PushU32(Len(r.payload)) \o r.payload ELSE <<>>
NamePart(r) ==
  IF r.op \in Named THEN PushU16(Len(r.name)) \o (r.name \o PayloadPart(r)) ELSE <<>>

(* What is left of a response from a field on *)
AnswerRemaining(r, next) ==
  CASE next = "header" -> (<<ServerVersion>> \o PushU16(ResponseOP[r.op])) \o NamePart(r)
    [] next = "name_length" -> NamePart(r)
    [] next = "name" -> r.name \o PayloadPart(r)
    [] next = "payload_length" -> PayloadPart(r)
    [] next = "payload" -> r.payload

(* What a has read is the beginning of the response r; of a payload whose  *)
(* length does not fit only a part is read.                                *)
AnswerFieldsMatch(r, a) ==
  /\ a.next \notin {"none", "error"}
  /\ a.next # "header" => a.op = r.op
  /\ a.next \in {"name_length", "name"} => r.op \in Named
  /\ a.next = "name" => a.length = Len(r.name)
  /\ a.next \in {"payload_length", "payload"} => r.op \in WithFile
  /\ a.next = "payload" => a.length = UnpackI(PushU32(Len(r.payload)))
  /\ a.next \in {"payload_length", "payload", "done"} /\ r.op \in Named => a.name = r.name
  /\ a.next = "done" /\ r.op \in WithFile =>
       a.payload = SubSeq(r.payload, 1, UnpackI(PushU32(Len(r.payload))))
  /\ a.next = "done" /\ r.op \in WithFile /\ Len(r.payload) < Limit32 => a.payload = r.payload

(* What the client has read, and what is on its way to it, are the         *)
(* response of the server: all of it, or nothing once the connection is    *)
(* broken.  Before there is one there is nothing to read.                  *)
AnswerMatches(r, a, bytes, alive) ==
  \/ a.next = "error" /\ a.cut /\ (r = None \/ r.op = "lost" => bytes = <<>>)
     /\ (r.op = "lost" => ~alive)
  \/ r = None /\ a.next = "header" /\ bytes = <<>>
  \/ r.op = "lost" /\ a.next = "header" /\ bytes = <<>> /\ ~alive
  \/ /\ r \in Responses(GoodNames) /\ AnswerFieldsMatch(r, a)
     /\ a.next = "done" \/ bytes = AnswerRemaining(r, a.next) \/ (bytes = <<>> /\ ~alive)

Decisions == Responses(GoodNames) \cup {None, [op |-> "lost"]}

(* The parser fails only on an answer that does not arrive in full. *)
ParsedUnlessCut == result.op = "FailedToParseMessage" => result.cut

AnswerInv ==
  /\ decided \in [Connections -> Decisions]
  /\ \A d \in Connections \ {conn} : down[d] = <<>> /\ live[d] = FALSE /\ decided[d] = None
  /\ conn # NoConnection =>
       /\ AnswerMatches(decided[conn], answer, down[conn], live[conn])
       /\ decided[conn] = None <=> read[conn].next # "none"
  /\ ParsedUnlessCut

-----------------------------------------------------------------------------
(* Types *)

(* A response is bytes. *)
LEMMA ResponsesAreBytes ==
  ASSUME NEW r \in Responses(Seq(Bytes))
  PROVE  /\ PackResponse(r) \in Seq(Bytes)
         /\ PackResponse(r) = AnswerRemaining(r, "header")
<1> DEFINE h == <<ServerVersion>> \o PushU16(ResponseOP[r.op])
           n == IF "name" \in DOMAIN r THEN PushU16(Len(r.name)) \o r.name ELSE <<>>
           p == IF "payload" \in DOMAIN r THEN PushU32(Len(r.payload)) \o r.payload ELSE <<>>
<1>1. /\ r.op \in DOMAIN ResponseOP
      /\ r.op \in Named <=> "name" \in DOMAIN r
      /\ r.op \in WithFile <=> "payload" \in DOMAIN r
      /\ r.op \in WithFile => r.op \in Named
      /\ r.op \in Named => r.name \in Seq(Bytes)
      /\ r.op \in WithFile => r.payload \in Seq(Bytes)
  <2> USE DEF Responses, Named, WithFile
  <2>1. CASE r \in [op : {"NO_BACKUP_FILES_FOR_CLIENT", "SERVER_ERROR"}]
    BY <2>1, WireAssumption
  <2>2. CASE r \in [op : {"SUCCESSFUL_BACKUP_OR_DELETE", "FILE_NOT_FOUND"}, name : Seq(Bytes)]
    BY <2>2, WireAssumption
  <2>3. CASE r \in [op : {"SUCCESSFUL_RESTORE", "SUCCESSFUL_LIST_FILES"},
                    name : Seq(Bytes), payload : Seq(Bytes)]
    BY <2>3, WireAssumption
  <2> QED BY <2>1, <2>2, <2>3
<1>2. h \in Seq(Bytes)
  <2>1. ResponseOP[r.op] \in Nat
    <3>1. ResponseOP[r.op] \in Range(ResponseOP)
      BY <1>1 DEF Range
    <3> QED BY <3>1, WireAssumption
  <2>2. PushU16(ResponseOP[r.op]) \in Seq(Bytes)
    BY <2>1, TwoBytes
  <2>3. <<ServerVersion>> \in Seq(Bytes)
    BY WireAssumption
  <2> QED BY <2>2, <2>3, ConcatProperties
<1>3. p = PayloadPart(r) /\ p \in Seq(Bytes)
  <2>1. CASE r.op \in WithFile
    <3>1. Len(r.payload) \in Nat
      BY <1>1, <2>1
    <3>2. PushU32(Len(r.payload)) \in Seq(Bytes)
      BY <3>1, FourBytes
    <3>3. PushU32(Len(r.payload)) \o r.payload \in Seq(Bytes)
      BY <1>1, <2>1, <3>2, ConcatProperties
    <3> QED BY <1>1, <2>1, <3>3 DEF PayloadPart
  <2>2. CASE r.op \notin WithFile
    BY <1>1, <2>2 DEF PayloadPart
  <2> QED BY <2>1, <2>2
<1>4. n \in Seq(Bytes) /\ n \o p \in Seq(Bytes) /\ n \o p = NamePart(r)
  <2>1. n = IF r.op \in Named THEN PushU16(Len(r.name)) \o r.name ELSE <<>>
    BY <1>1
  <2>2. r.op \notin Named => p = <<>>
    BY <1>1
  <2> HIDE DEF n, p
  <2>3. CASE r.op \in Named
    <3>1. Len(r.name) \in Nat /\ r.name \in Seq(Bytes)
      BY <1>1, <2>3
    <3>2. PushU16(Len(r.name)) \in Seq(Bytes)
      BY <3>1, TwoBytes
    <3>3. n = PushU16(Len(r.name)) \o r.name
      BY <2>1, <2>3
    <3>4. n \in Seq(Bytes) /\ n \o p \in Seq(Bytes)
      BY <1>3, <3>1, <3>2, <3>3, ConcatProperties
    <3>5. n \o p = PushU16(Len(r.name)) \o (r.name \o p)
      BY <1>3, <3>1, <3>2, <3>3, InAnyOrder
    <3>6. NamePart(r) = PushU16(Len(r.name)) \o (r.name \o p)
      BY <1>3, <2>3 DEF NamePart
    <3> QED BY <3>4, <3>5, <3>6
  <2>4. CASE r.op \notin Named
    <3>1. n = <<>> /\ p = <<>> /\ <<>> \in Seq(Bytes)
      BY <2>1, <2>2, <2>4
    <3>2. n \o p = <<>>
      BY <3>1, ConcatEmptySeq
    <3> QED BY <2>4, <3>1, <3>2 DEF NamePart
  <2> QED BY <2>3, <2>4
<1>5. PackResponse(r) = (h \o n) \o p /\ AnswerRemaining(r, "header") = h \o NamePart(r)
  BY DEF PackResponse, AnswerRemaining
<1> HIDE DEF h, n, p
<1>6. (h \o n) \o p = h \o (n \o p)
  BY <1>2, <1>3, <1>4, InAnyOrder
<1>7. n \o p \in Seq(Bytes) /\ h \o (n \o p) \in Seq(Bytes)
  BY <1>2, <1>3, <1>4, ConcatProperties
<1> QED BY <1>4, <1>5, <1>6, <1>7

(* ResponseParser ends with an error. *)
LEMMA ParseErrors ==
  ASSUME NEW c \in BOOLEAN
  PROVE  /\ ParseError(c) \in AnswerParsers
         /\ ParseError(c).next = "error" /\ ParseError(c).cut = c
<1>1. AnswerParser("error") \in AnswerParsers /\ AnswerParser("error").next = "error"
  BY DEF AnswerParser, AnswerParsers
<1>2. ParseError(c) = [AnswerParser("error") EXCEPT !.cut = c]
  BY DEF ParseError
<1> QED BY <1>1, <1>2 DEF AnswerParsers

(* ResponseParser goes on from one of its states to another. *)
LEMMA AnswerParsersAreClosed ==
  ASSUME NEW a \in AnswerParsers, a.next \notin {"none", "error", "done"},
         NEW s \in Seq(Bytes), Len(s) = AnswerWidth(a)
  PROVE  AfterAnswerField(a, s) \in AnswerParsers /\ AfterAnswerField(a, s).next # "none"
<1>1. ParseError(FALSE) \in AnswerParsers /\ ParseError(FALSE).next = "error"
  BY ParseErrors
<1>2. CASE a.next = "header"
  <2> DEFINE ops == {op \in DOMAIN ResponseOP : ResponseOP[op] = UnpackH(Tail(s))}
             o == CHOOSE op \in ops : TRUE
             n == IF o \in Named THEN "name_length" ELSE "done"
  <2>1. AfterAnswerField(a, s) = IF ops = {} THEN ParseError(FALSE)
                                 ELSE [a EXCEPT !.op = o, !.next = n]
    BY <1>2 DEF AfterAnswerField
  <2>2. ops # {} => o \in DOMAIN ResponseOP
    OBVIOUS
  <2>3. n \in {"name_length", "done"}
    OBVIOUS
  <2> HIDE DEF ops, o, n
  <2>4. o \in DOMAIN ResponseOP => [a EXCEPT !.op = o, !.next = n] \in AnswerParsers
                                  /\ [a EXCEPT !.op = o, !.next = n].next = n
    BY <2>3 DEF AnswerParsers
  <2> QED BY <1>1, <2>1, <2>2, <2>3, <2>4
<1>3. CASE a.next = "name_length"
  <2>1. UnpackH(s) \in Nat
    BY <1>3, NumbersAreNat DEF AnswerWidth
  <2>2. AfterAnswerField(a, s) = [a EXCEPT !.next = "name", !.length = UnpackH(s)]
    BY <1>3 DEF AfterAnswerField
  <2> QED BY <2>1, <2>2 DEF AnswerParsers
<1>4. CASE a.next = "name"
  <2> DEFINE n == IF a.op \in WithFile THEN "payload_length" ELSE "done"
  <2>1. AfterAnswerField(a, s) = IF ~IsUTF8(s) THEN ParseError(FALSE)
                                 ELSE [a EXCEPT !.name = s, !.next = n]
    BY <1>4 DEF AfterAnswerField
  <2>2. n \in {"payload_length", "done"}
    OBVIOUS
  <2> HIDE DEF n
  <2> QED BY <1>1, <2>1, <2>2 DEF AnswerParsers
<1>5. CASE a.next = "payload_length"
  <2>1. UnpackI(s) \in Nat
    BY <1>5, NumbersAreNat DEF AnswerWidth
  <2>2. AfterAnswerField(a, s) = [a EXCEPT !.next = "payload", !.length = UnpackI(s)]
    BY <1>5 DEF AfterAnswerField
  <2> QED BY <2>1, <2>2 DEF AnswerParsers
<1>6. CASE a.next = "payload"
  <2>1. AfterAnswerField(a, s) = [a EXCEPT !.next = "done", !.payload = s]
    BY <1>6 DEF AfterAnswerField
  <2> QED BY <2>1 DEF AnswerParsers
<1> QED BY <1>2, <1>3, <1>4, <1>5, <1>6 DEF AnswerParsers

(* A field is some number of bytes wide. *)
LEMMA WidthsAreNat ==
  /\ \A r \in Parsers : r.next \notin {"none", "error", "handle"} => Width(r) \in Nat
  /\ \A a \in AnswerParsers : a.next \notin {"none", "error", "done"} => AnswerWidth(a) \in Nat
BY DEF Parsers, AnswerParsers, Width, AnswerWidth

(* A directory from which a file is taken *)
LEMMA SmallerDirectory ==
  ASSUME NEW f, NEW n
  PROVE  /\ DOMAIN Without(f, n) = DOMAIN f \ {n}
         /\ \A m \in DOMAIN f : m # n => Without(f, n)[m] = f[m]
BY DEF Without, Restrict

(* It has nothing new but what is added. *)
LEMMA DirectoriesHold ==
  ASSUME NEW f, NEW T, Range(f) \subseteq T, NEW n, NEW p \in T
  PROVE  Range(Stored(f, n, p)) \subseteq T /\ Range(Without(f, n)) \subseteq T
<1>1. \A m \in DOMAIN f : f[m] \in T
  BY DEF Range
<1>2. PICK g : g = Stored(f, n, p)
  OBVIOUS
<1>3. \A m \in DOMAIN g : g[m] \in T
  BY <1>1, <1>2 DEF Stored
<1>4. PICK h : h = Without(f, n)
  OBVIOUS
<1>5. \A m \in DOMAIN h : h[m] \in T
  BY <1>1, <1>4 DEF Without, Restrict
<1>6. Range(g) \subseteq T
  BY <1>3 DEF Range
<1>7. Range(h) \subseteq T
  BY <1>5 DEF Range
<1> QED BY <1>2, <1>4, <1>6, <1>7

-----------------------------------------------------------------------------
(* The steps and the requests *)

(* What matches a request goes on to do so while client and session leave  *)
(* it alone, also when its connection breaks, whether it arrives or not.   *)
LEMMA SameRequest ==
  ASSUME UNCHANGED client, NEW d \in Connections, RequestMatches(d),
         call'[d] = call[d], read'[d] = read[d],
         \/ up'[d] = up[d] /\ (live[d] \/ ~live'[d])
         \/ up'[d] = <<>> /\ ~live'[d]
  PROVE  RequestMatches(d)'
<1>1. user_id' = user_id /\ version' = version
  BY DEF client
<1>2. FieldsMatch(call[d], read[d])' <=> FieldsMatch(call[d], read[d])
  BY <1>1 DEF FieldsMatch
<1>3. Remaining(call[d], read[d].next)' = Remaining(call[d], read[d].next)
  BY <1>1 DEF Remaining
<1> QED BY <1>1, <1>2, <1>3 DEF RequestMatches

(* The end of a session leaves nothing of its request. *)
LEMMA SessionsEnd ==
  ASSUME RequestInv, NEW d \in Connections, NEW r, EndSession(d, r),
         down' \in [Connections -> Seq(Bytes)], known' \in BOOLEAN,
         DOMAIN files' \cup Range(files') \subseteq Seq(Bytes), IsFiniteSet(DOMAIN files')
  PROVE  RequestInv'
<1> USE DEF RequestInv
<1>1. Idle \in Parsers /\ Idle.next = "none"
  BY DEF Idle, Parser, Parsers
<1>2. TypeOK'
  <2>1. call' \in [Connections -> Calls \cup {None}]
    BY DEF EndSession, TypeOK
  <2>2. read' \in [Connections -> Parsers] /\ up' \in [Connections -> Seq(Bytes)]
    BY <1>1 DEF EndSession, TypeOK
  <2> QED BY <2>1, <2>2 DEF EndSession, TypeOK, client, history
<1>3. ConnectionsMatch'
  BY DEF EndSession, ConnectionsMatch, TypeOK
<1>4. ASSUME NEW e \in Connections
      PROVE  RequestMatches(e)'
  <2>1. CASE e = d
    <3>1. read'[d] = Idle /\ up'[d] = <<>>
      BY DEF EndSession, TypeOK
    <3> QED BY <1>1, <2>1, <3>1 DEF RequestMatches
  <2>2. CASE e # d
    <3>1. call'[e] = call[e] /\ read'[e] = read[e] /\ up'[e] = up[e] /\ live'[e] = live[e]
      BY <2>2 DEF EndSession, TypeOK
    <3>2. RequestMatches(e) /\ UNCHANGED client
      BY DEF EndSession
    <3> QED BY <3>1, <3>2, SameRequest
  <2> QED BY <2>1, <2>2
<1> QED BY <1>2, <1>3, <1>4

(* At first nothing is on its way. *)
LEMMA RequestInvInit == Init => RequestInv
<1> SUFFICES ASSUME Init PROVE RequestInv
  OBVIOUS
<1>1. Idle \in Parsers /\ Idle.next = "none"
  BY DEF Idle, Parser, Parsers
<1>2. Nothing \in AnswerParsers /\ Nothing.next = "none"
  BY DEF Nothing, AnswerParser, AnswerParsers
<1>3. TypeOK
  <2>1. DOMAIN files \cup Range(files) \subseteq Seq(Bytes) /\ IsFiniteSet(DOMAIN files)
    BY WireAssumption DEF Init
  <2>2. DOMAIN kept = {} /\ Range(kept) = {}
    BY DEF Init, Range
  <2>3. <<>> \in Seq(Bytes)
    OBVIOUS
  <2>4. {up, down} \subseteq [Connections -> Seq(Bytes)] /\ read \in [Connections -> Parsers]
    BY <1>1, <2>3 DEF Init
  <2> QED BY <1>2, <2>1, <2>2, <2>4 DEF Init, TypeOK
<1>4. ConnectionsMatch
  BY <1>2 DEF Init, ConnectionsMatch
<1>5. \A d \in Connections : RequestMatches(d)
  BY <1>1 DEF Init, RequestMatches
<1> QED BY <1>3, <1>4, <1>5 DEF RequestInv

(* A new request is all on its way. *)
LEMMA SendRequestStep ==
  ASSUME RequestInv, NEW c \in Calls, NEW d \in Connections, SendRequest(d, c)
  PROVE  RequestInv'
<1> USE DEF RequestInv
<1>1. /\ Parser("user_id") \in Parsers /\ Parser("user_id").next = "user_id"
      /\ AnswerParser("header") \in AnswerParsers /\ AnswerParser("header").next = "header"
  BY DEF Parser, Parsers, AnswerParser, AnswerParsers
<1>2. PackRequest(c) = Remaining(c, "user_id") /\ PackRequest(c) \in Seq(Bytes)
  BY RequestIsFields DEF TypeOK, ClientTyped
<1>3. TypeOK'
  <2>1. call' \in [Connections -> Calls \cup {None}] /\ live' \in [Connections -> BOOLEAN]
    BY DEF SendRequest, TypeOK
  <2>2. up' \in [Connections -> Seq(Bytes)] /\ read' \in [Connections -> Parsers]
    BY <1>1, <1>2 DEF SendRequest, TypeOK
  <2>3. disputed' \in BOOLEAN /\ conn' \in Connections /\ answer' \in AnswerParsers
    BY <1>1 DEF SendRequest, TypeOK
  <2> QED BY <2>1, <2>2, <2>3 DEF SendRequest, TypeOK, client, disk
<1>4. ConnectionsMatch'
  BY <1>1, WireAssumption DEF SendRequest, ConnectionsMatch, TypeOK
<1>5. ASSUME NEW e \in Connections
      PROVE  RequestMatches(e)'
  <2>1. CASE e = d
    <3>1. /\ call'[d] = c /\ read'[d] = Parser("user_id") /\ CanPack(c)
          /\ up'[d] = Remaining(c, "user_id")
      BY <1>2 DEF SendRequest, TypeOK
    <3>2. FieldsMatch(c, Parser("user_id"))'
      BY <1>1, <3>1 DEF FieldsMatch
    <3>3. Remaining(c, "user_id")' = Remaining(c, "user_id")
      BY DEF SendRequest, client, Remaining
    <3> QED BY <1>1, <2>1, <3>1, <3>2, <3>3 DEF RequestMatches
  <2>2. CASE e # d
    <3>1. call'[e] = call[e] /\ read'[e] = read[e] /\ up'[e] = up[e] /\ live'[e] = live[e]
      BY <2>2 DEF SendRequest, TypeOK
    <3>2. RequestMatches(e) /\ UNCHANGED client
      BY DEF SendRequest
    <3> QED BY <2>2, <3>1, <3>2, SameRequest DEF TypeOK
  <2> QED BY <2>1, <2>2
<1> QED BY <1>3, <1>4, <1>5

(* Steps that leave the requests alone do no harm to them. *)
LEMMA OtherSteps ==
  ASSUME RequestInv, UNCHANGED <<client, conn, call, live, up, read, disk>>, TypeOK', ConnectionsMatch'
  PROVE  RequestInv'
<1>1. ASSUME NEW d \in Connections
      PROVE  RequestMatches(d)'
  BY SameRequest DEF RequestInv
<1> QED BY <1>1 DEF RequestInv

(* A request whose connection breaks arrives as it is or not at all. *)
LEMMA BreakStep ==
  ASSUME RequestInv, Break
  PROVE  RequestInv'
<1> USE DEF RequestInv
<1>1. live' \in [Connections -> BOOLEAN] /\ conn \in Connections
  BY DEF Break, TypeOK
<1>2. up' \in [Connections -> Seq(Bytes)] /\ down' \in [Connections -> Seq(Bytes)]
  <2>1. <<>> \in Seq(Bytes) /\ up \in [Connections -> Seq(Bytes)] /\ down \in [Connections -> Seq(Bytes)]
    BY DEF TypeOK
  <2>2. up' = up \/ up' = [up EXCEPT ![conn] = <<>>]
    BY DEF Break
  <2>3. down' = down \/ down' = [down EXCEPT ![conn] = <<>>]
    BY DEF Break
  <2> QED BY <2>1, <2>2, <2>3
<1>3. TypeOK' /\ ConnectionsMatch'
  BY <1>1, <1>2 DEF Break, TypeOK, ConnectionsMatch, client, disk, history
<1>4. ASSUME NEW d \in Connections
      PROVE  RequestMatches(d)'
  <2>1. RequestMatches(d) /\ UNCHANGED client /\ call'[d] = call[d] /\ read'[d] = read[d]
    BY DEF Break
  <2>2. \/ up'[d] = up[d] /\ (live[d] \/ ~live'[d])
        \/ up'[d] = <<>> /\ ~live'[d]
    BY <1>1 DEF Break, TypeOK
  <2> QED BY <2>1, <2>2, SameRequest
<1> QED BY <1>3, <1>4

(* RequestParser reads the field of the request that comes next. *)
LEMMA ReadFieldStep ==
  ASSUME RequestInv, NEW d \in Connections, ReadField(d)
  PROVE  RequestInv'
<1> USE DEF RequestInv
<1> DEFINE r == read[d]
           n == Width(r)
           f == SubSeq(up[d], 1, n)
           g == SubSeq(up[d], n + 1, Len(up[d]))
<1>1. /\ r \in Parsers /\ r.next \notin {"none", "error", "handle"}
      /\ up[d] \in Seq(Bytes) /\ n \in Nat /\ n <= Len(up[d])
  BY WidthsAreNat DEF ReadField, Reading, TypeOK
<1>2. f \in Seq(Bytes) /\ Len(f) = n /\ g \in Seq(Bytes)
  BY <1>1, PartsAreBytes
<1>3. AfterField(r, f) \in Parsers
  BY <1>1, <1>2, ParsersAreClosed
<1>4. read' = [read EXCEPT ![d] = AfterField(r, f)] /\ up' = [up EXCEPT ![d] = g]
  BY DEF ReadField, TypeOK
<1>5. RequestMatches(d)
  OBVIOUS
<1>6. \/ AfterField(r, f).next = "error" /\ version # ServerVersion
      \/ /\ AfterField(r, f).next \notin {"none", "error"}
         /\ FieldsMatch(call[d], AfterField(r, f))
         /\ g = Remaining(call[d], AfterField(r, f).next) \/ (g = <<>> /\ ~live[d])
  <2>1. PICK t, u : NextField(call[d], r, t, u)
    BY <1>1, <1>5, FieldsAreInOrder DEF RequestMatches, TypeOK, ClientTyped
  <2>2. /\ t \in Seq(Bytes) /\ u \in Seq(Bytes) /\ Len(t) = n
        /\ Remaining(call[d], r.next) = t \o u
    BY <2>1 DEF NextField
  <2>3. CASE up[d] = Remaining(call[d], r.next)
    <3>1. f = t /\ g = u
      BY <2>2, <2>3, FieldThenRest
    <3> QED BY <2>1, <3>1 DEF NextField
  <2>4. CASE up[d] = <<>> /\ ~live[d]
    <3>1. n = 0
      BY <1>1, <2>4
    <3>2. f = t
      BY <1>2, <2>2, <3>1
    <3>3. g = <<>>
      BY <1>1, <2>4, <3>1
    <3> QED BY <2>1, <2>4, <3>2, <3>3 DEF NextField
  <2> QED BY <1>1, <1>5, <2>3, <2>4 DEF RequestMatches
<1> HIDE DEF f, g, n
<1>7. TypeOK' /\ ConnectionsMatch'
  <2>1. read' \in [Connections -> Parsers] /\ up' \in [Connections -> Seq(Bytes)]
    BY <1>2, <1>3, <1>4 DEF TypeOK
  <2> QED BY <2>1 DEF ReadField, TypeOK, ConnectionsMatch, client, disk, history
<1>8. ASSUME NEW e \in Connections
      PROVE  RequestMatches(e)'
  <2>1. UNCHANGED client /\ call'[e] = call[e] /\ live'[e] = live[e]
    BY DEF ReadField
  <2>2. CASE e # d
    <3>1. RequestMatches(e) /\ read'[e] = read[e] /\ up'[e] = up[e]
      BY <1>4, <2>2 DEF TypeOK
    <3> QED BY <2>1, <3>1, SameRequest
  <2>3. CASE e = d
    <3>1. read'[d] = AfterField(r, f) /\ up'[d] = g
      BY <1>4 DEF TypeOK
    <3>2. PICK q : q = AfterField(r, f)
      OBVIOUS
    <3>3. user_id' = user_id /\ version' = version
      BY <2>1 DEF client
    <3>4. Remaining(call[d], q.next)' = Remaining(call[d], q.next)
      BY <2>1, <2>3, <3>3 DEF Remaining
    <3>5. FieldsMatch(call[d], q)' <=> FieldsMatch(call[d], q)
      BY <2>1, <2>3, <3>3 DEF FieldsMatch
    <3> QED BY <1>6, <2>1, <2>3, <3>1, <3>2, <3>3, <3>4, <3>5 DEF RequestMatches
  <2> QED BY <2>2, <2>3
<1> QED BY <1>7, <1>8

(* What is sent is a response or nothing, and both are bytes. *)
LEMMA SentIsBytes ==
  ASSUME TypeOK, NEW d \in Connections, NEW r \in Responses(Seq(Bytes)), Send(d, r)
  PROVE  down' \in [Connections -> Seq(Bytes)]
<1>1. PackResponse(r) \in Seq(Bytes)
  BY ResponsesAreBytes
<1> QED BY <1>1 DEF Send, TypeOK

(* The names that are listed, each with a newline, are bytes, and text if  *)
(* the names are.                                                          *)
LEMMA ListingIsIn ==
  ASSUME TypeOK, NEW names \in SetToSeqs(DOMAIN files),
         NEW S, Newline \in S, \A name \in DOMAIN files : name \in Seq(S)
  PROVE  Encoded([i \in DOMAIN names |-> Append(names[i], Newline)]) \in Seq(S)
<1>1. Cardinality(DOMAIN files) \in Nat
  BY FS_CardinalityType DEF TypeOK
<1>2. names \in [1 .. Cardinality(DOMAIN files) -> DOMAIN files]
  BY DEF SetToSeqs
<1>3. \A i \in DOMAIN names : names[i] \in Seq(S)
  BY <1>2
<1>4. ASSUME NEW i \in DOMAIN names
      PROVE  Append(names[i], Newline) \in Seq(S)
  <2> QED BY <1>3, AppendProperties
<1>5. [i \in DOMAIN names |-> Append(names[i], Newline)] \in Seq(Seq(S))
  <2> DEFINE n == Cardinality(DOMAIN files)
             line(i) == Append(names[i], Newline)
  <2>1. n \in Nat /\ \A i \in 1 .. n : line(i) \in Seq(S)
    BY <1>1, <1>2, <1>4
  <2>2. DOMAIN names = 1 .. n
    BY <1>2
  <2> HIDE DEF n, line
  <2>3. [i \in 1 .. n |-> line(i)] \in Seq(Seq(S))
    BY <2>1
  <2>4. [i \in DOMAIN names |-> line(i)] \in Seq(Seq(S))
    BY <2>2, <2>3
  <2> QED BY <2>4 DEF line
<1> QED BY <1>5, EncodedInSet

(* The steps that answer a request *)
Answers(d) ==
  RejectRequest(d) \/ BackUpFile(d) \/ RestoreFile(d) \/ DeleteFile(d) \/ ListFiles(d)

(* They answer with a response, whose name is that of the request or of a list. *)
LEMMA AnswersAreResponses ==
  ASSUME TypeOK, NEW d \in Connections, Answers(d),
         NEW names \in SUBSET Seq(Bytes), ListName \in names,
         read[d].next = "handle" /\ read[d].op # "LIST_FILES" => read[d].name \in names
  PROVE  \E r \in Responses(names) : Answer(d, r)
<1>1. [op |-> "SERVER_ERROR"] \in Responses(names)
  BY DEF Responses
<1>2. ASSUME read[d].name \in names,
             NEW op \in {"SUCCESSFUL_BACKUP_OR_DELETE", "FILE_NOT_FOUND"}
      PROVE  [op |-> op, name |-> read[d].name] \in Responses(names)
  BY <1>2 DEF Responses
<1>3. CASE RejectRequest(d)
  BY <1>1, <1>3 DEF RejectRequest
<1>4. CASE BackUpFile(d)
  <2>1. read[d].name \in names
    BY <1>4 DEF BackUpFile, Handles
  <2> QED BY <1>1, <1>2, <1>4, <2>1 DEF BackUpFile
<1>5. CASE RestoreFile(d)
  <2>1. read[d].name \in names
    BY <1>5 DEF RestoreFile, Handles
  <2>2. ASSUME read[d].name \in DOMAIN files
        PROVE  [op |-> "SUCCESSFUL_RESTORE", name |-> read[d].name,
                payload |-> files[read[d].name]] \in Responses(names)
    <3>1. files[read[d].name] \in Seq(Bytes)
      BY <2>2 DEF TypeOK, Range
    <3> QED BY <2>1, <3>1 DEF Responses
  <2> QED BY <1>1, <1>2, <1>5, <2>1, <2>2 DEF RestoreFile
<1>6. CASE DeleteFile(d)
  <2>1. read[d].name \in names
    BY <1>6 DEF DeleteFile, Handles
  <2> QED BY <1>1, <1>2, <1>6, <2>1 DEF DeleteFile
<1>7. CASE ListFiles(d)
  <2>1. PICK ns \in SetToSeqs(DOMAIN files) :
          Answer(d, IF ~known THEN [op |-> "NO_BACKUP_FILES_FOR_CLIENT"]
                    ELSE [op |-> "SUCCESSFUL_LIST_FILES", name |-> ListName,
                          payload |-> Encoded([i \in DOMAIN ns |-> Append(ns[i], Newline)])])
    BY <1>7 DEF ListFiles
  <2>2. PICK p : p = Encoded([i \in DOMAIN ns |-> Append(ns[i], Newline)])
    OBVIOUS
  <2>3. p \in Seq(Bytes)
    <3>1. Newline \in Bytes /\ \A name \in DOMAIN files : name \in Seq(Bytes)
      BY WireAssumption DEF TypeOK
    <3> QED BY <2>2, <3>1, ListingIsIn
  <2>4. [op |-> "SUCCESSFUL_LIST_FILES", name |-> ListName, payload |-> p] \in Responses(names)
    BY <2>3 DEF Responses
  <2>5. [op |-> "NO_BACKUP_FILES_FOR_CLIENT"] \in Responses(names)
    BY DEF Responses
  <2> QED BY <2>1, <2>2, <2>4, <2>5
<1> QED BY <1>3, <1>4, <1>5, <1>6, <1>7 DEF Answers

(* They leave a directory of files with bytes. *)
LEMMA AnswersKeepDirectories ==
  ASSUME TypeOK, NEW d \in Connections, Answers(d)
  PROVE  /\ known' \in BOOLEAN
         /\ DOMAIN files' \cup Range(files') \subseteq Seq(Bytes) /\ IsFiniteSet(DOMAIN files')
<1>1. /\ known \in BOOLEAN /\ DOMAIN files \subseteq Seq(Bytes) /\ Range(files) \subseteq Seq(Bytes)
      /\ IsFiniteSet(DOMAIN files)
      /\ read[d].name \in Seq(Bytes) /\ read[d].payload \in Seq(Bytes)
  BY DEF TypeOK, Parsers
<1>2. CASE UNCHANGED disk
  BY <1>1, <1>2 DEF disk
<1>3. CASE BackUpFile(d)
  <2> DEFINE g == Stored(files, read[d].name, read[d].payload)
  <2>1. DOMAIN g = DOMAIN files \cup {read[d].name}
    BY DEF Stored
  <2>2. Range(g) \subseteq Seq(Bytes)
    BY <1>1, DirectoriesHold
  <2>3. IsFiniteSet(DOMAIN files \cup {read[d].name})
    BY <1>1, FS_AddElement
  <2>4. (files' = g \/ files' = files) /\ known' = TRUE
    BY <1>3 DEF BackUpFile
  <2> HIDE DEF g
  <2> QED BY <1>1, <2>1, <2>2, <2>3, <2>4
<1>4. CASE DeleteFile(d)
  <2> DEFINE g == Without(files, read[d].name)
  <2>1. DOMAIN g = DOMAIN files \ {read[d].name}
    BY SmallerDirectory
  <2>2. Range(g) \subseteq Seq(Bytes)
    BY <1>1, DirectoriesHold
  <2>3. IsFiniteSet(DOMAIN files \ {read[d].name})
    BY <1>1, FS_RemoveElement
  <2>4. (files' = g \/ files' = files) /\ known' = known
    BY <1>4 DEF DeleteFile
  <2> HIDE DEF g
  <2> QED BY <1>1, <2>1, <2>2, <2>3, <2>4
<1> QED BY <1>2, <1>3, <1>4 DEF Answers, RejectRequest, RestoreFile, ListFiles

(* An answer ends its session. *)
LEMMA AnswersStep ==
  ASSUME RequestInv, NEW d \in Connections, Answers(d)
  PROVE  RequestInv'
<1>1. TypeOK
  BY DEF RequestInv
<1>2. PICK r \in Responses(Seq(Bytes)) : Answer(d, r)
  <2>1. ListName \in Seq(Bytes) /\ read[d].name \in Seq(Bytes)
    BY <1>1, WireAssumption DEF TypeOK, Parsers
  <2> QED BY <1>1, <2>1, AnswersAreResponses
<1>3. down' \in [Connections -> Seq(Bytes)]
  BY <1>1, <1>2, SentIsBytes DEF Answer
<1>4. /\ known' \in BOOLEAN
      /\ DOMAIN files' \cup Range(files') \subseteq Seq(Bytes) /\ IsFiniteSet(DOMAIN files')
  BY <1>1, AnswersKeepDirectories
<1>5. EndSession(d, r)
  BY <1>2 DEF Answer
<1> QED BY <1>3, <1>4, <1>5, SessionsEnd

(* So does a request that is lost. *)
LEMMA LoseRequestStep ==
  ASSUME RequestInv, NEW d \in Connections, LoseRequest(d)
  PROVE  RequestInv'
<1>1. /\ down' \in [Connections -> Seq(Bytes)] /\ known' \in BOOLEAN
      /\ DOMAIN files' \cup Range(files') \subseteq Seq(Bytes) /\ IsFiniteSet(DOMAIN files')
  BY DEF RequestInv, TypeOK, LoseRequest, disk
<1>2. EndSession(d, [op |-> "lost"])
  BY DEF LoseRequest
<1> QED BY <1>1, <1>2, SessionsEnd

OneByteCharacters == \A c \in Characters : Len(c) = 1

(* Where every character is one byte a text of characters is one of bytes. *)
LEMMA CharactersAreOneByte ==
  ASSUME OneByteCharacters, NEW s \in Seq(Characters)
  PROVE  /\ OneByteText(s) /\ Encoded(s) = [i \in 1 .. Len(s) |-> s[i][1]]
         /\ Encoded(s) \in Seq(Bytes) /\ Len(Encoded(s)) = Len(s)
<1>1. s \in Seq(Seq(Bytes))
  BY WireAssumption, SeqMonotonic
<1>2. OneByteText(s)
  BY <1>1, ElementOfSeq DEF OneByteText, OneByteCharacters
<1>3. Encoded(s) = [i \in 1 .. Len(s) |-> s[i][1]] /\ Encoded(s) \in Seq(Bytes)
  BY <1>1, <1>2, EncodedOneByte, EncodedInBytes
<1>4. Len(Encoded(s)) = Len(s)
  <2>1. PICK g : g = [i \in 1 .. Len(s) |-> s[i][1]]
    OBVIOUS
  <2>2. Len(s) \in Nat
    OBVIOUS
  <2>3. DOMAIN g = 1 .. Len(s) /\ g \in Seq(Bytes)
    BY <1>3, <2>1
  <2>4. Len(g) = Len(s)
    BY <2>2, <2>3
  <2> QED BY <1>3, <2>1, <2>4
<1> QED BY <1>2, <1>3, <1>4

(* A field then holds all of its text. *)
LEMMA FieldsAreTexts ==
  ASSUME OneByteCharacters, NEW c \in Calls, CanPack(c)
  PROVE  /\ c.op # "LIST_FILES" => NameField(c) = Encoded(c.name) /\ c.name \in Seq(Characters)
         /\ c.op = "BACKUP_FILE" =>
              PayloadField(c) = Encoded(c.payload) /\ c.payload \in Seq(Characters)
<1>1. ASSUME NEW s \in Seq(Characters)
      PROVE  Field(Encoded(s), Len(s)) = Encoded(s)
  BY CharactersAreOneByte, FieldsFit
<1>2. c.op # "LIST_FILES" => c.name \in Seq(Characters)
  BY CallFields, TextsAre
<1>3. ASSUME c.op = "BACKUP_FILE"
      PROVE  c.payload \in Seq(Characters)
  <2>1. c.payload \in Seq(Seq(Bytes)) /\ Range(c.payload) \subseteq Characters
    BY <1>3, CallFields, TextsAre DEF CanPack
  <2>2. \A i \in 1 .. Len(c.payload) : c.payload[i] \in Characters
    BY <2>1 DEF Range
  <2>3. Len(c.payload) \in Nat /\ c.payload = [i \in 1 .. Len(c.payload) |-> c.payload[i]]
    BY <2>1
  <2> QED BY <2>2, <2>3
<1> QED BY <1>1, <1>2, <1>3 DEF NameField, PayloadField

(* The client leaves the requests alone while it receives an answer. *)
LEMMA ReceiveFieldStep ==
  ASSUME RequestInv, ReceiveField
  PROVE  RequestInv'
<1> USE DEF RequestInv
<1> DEFINE w == AnswerWidth(answer)
<1>1. /\ conn \in Connections /\ answer \in AnswerParsers /\ answer.next \notin {"none", "error", "done"}
      /\ down[conn] \in Seq(Bytes) /\ w \in Nat /\ w <= Len(down[conn])
  BY WidthsAreNat DEF ReceiveField, Receiving, ConnectionsMatch, TypeOK
<1>2. PICK n \in 0 .. w :
        /\ down' = [down EXCEPT ![conn] = SubSeq(@, n + 1, Len(@))]
        /\ answer' = IF n < w THEN ParseError(TRUE)
                     ELSE AfterAnswerField(answer, SubSeq(down[conn], 1, n))
  BY DEF ReceiveField
<1>3. n \in Nat /\ n <= Len(down[conn])
  BY <1>1
<1>4. /\ SubSeq(down[conn], n + 1, Len(down[conn])) \in Seq(Bytes)
      /\ SubSeq(down[conn], 1, n) \in Seq(Bytes) /\ Len(SubSeq(down[conn], 1, n)) = n
  BY <1>1, <1>3, PartsAreBytes
<1>5. down' \in [Connections -> Seq(Bytes)]
  BY <1>2, <1>4 DEF TypeOK
<1>6. answer' \in AnswerParsers /\ answer'.next # "none"
  <2>1. CASE n < w
    BY <1>2, <2>1, ParseErrors
  <2>2. CASE n = w
    <3>1. PICK f : f = SubSeq(down[conn], 1, n)
      OBVIOUS
    <3>2. f \in Seq(Bytes) /\ Len(f) = AnswerWidth(answer)
      BY <1>4, <2>2, <3>1
    <3>3. answer' = AfterAnswerField(answer, f)
      <4>1. ~(n < w)
        BY <1>1, <2>2
      <4> QED BY <1>2, <3>1, <4>1
    <3>4. AfterAnswerField(answer, f) \in AnswerParsers /\ AfterAnswerField(answer, f).next # "none"
      BY <1>1, <3>2, AnswerParsersAreClosed
    <3> QED BY <3>3, <3>4
  <2>3. n \in 0 .. w /\ w \in Nat
    BY <1>1, <1>2
  <2> QED BY <2>1, <2>2, <2>3
<1> HIDE DEF w
<1>7. UNCHANGED <<client, conn, call, live, up, read, disk>>
  BY DEF ReceiveField
<1>8. TypeOK'
  BY <1>5, <1>6, <1>7 DEF ReceiveField, TypeOK, client, disk, history
<1>9. ConnectionsMatch'
  BY <1>1, <1>6, <1>7 DEF ConnectionsMatch
<1> QED BY <1>7, <1>8, <1>9, OtherSteps

(* It does so when there is nothing more to receive. *)
LEMMA ReceiveEndStep ==
  ASSUME RequestInv, ReceiveEnd
  PROVE  RequestInv'
<1> USE DEF RequestInv
<1>1. answer' \in AnswerParsers /\ answer'.next # "none"
  <2>1. conn \in Connections
    BY DEF ReceiveEnd, Receiving, ConnectionsMatch, TypeOK
  <2>2. live[conn] = TRUE \/ live[conn] = FALSE
    BY <2>1 DEF TypeOK
  <2>3. answer' = ParseError(TRUE) \/ answer' = ParseError(FALSE)
    BY <2>2 DEF ReceiveEnd
  <2> QED BY <2>3, ParseErrors
<1>2. UNCHANGED <<client, conn, call, live, up, read, disk>>
  BY DEF ReceiveEnd
<1>3. TypeOK'
  BY <1>1, <1>2 DEF ReceiveEnd, TypeOK, client, disk, history
<1>4. ConnectionsMatch'
  BY <1>1, <1>2 DEF ReceiveEnd, Receiving, ConnectionsMatch
<1> QED BY <1>2, <1>3, <1>4, OtherSteps

(* A call that the client ends is done, or its session goes on with it. *)
LEMMA EndCallStep ==
  ASSUME RequestInv, conn # NoConnection, NEW r, EndCall(r),
         DOMAIN kept' \subseteq Names, Range(kept') \subseteq Payloads
  PROVE  RequestInv'
<1> USE DEF RequestInv
<1>1. conn \in Connections /\ <<>> \in Seq(Bytes)
  BY DEF TypeOK
<1>2. Nothing \in AnswerParsers /\ Nothing.next = "none"
  BY DEF Nothing, AnswerParser, AnswerParsers
<1>3. TypeOK'
  <2>1. call' \in [Connections -> Calls \cup {None}]
    BY DEF EndCall, TypeOK
  <2>2. live' \in [Connections -> BOOLEAN] /\ down' \in [Connections -> Seq(Bytes)]
    BY <1>1 DEF EndCall, TypeOK
  <2> QED BY <1>2, <2>1, <2>2 DEF EndCall, TypeOK, client, disk
<1>4. ConnectionsMatch'
  BY <1>2 DEF EndCall, ConnectionsMatch
<1>5. ASSUME NEW d \in Connections
      PROVE  RequestMatches(d)'
  <2>1. UNCHANGED client /\ RequestMatches(d) /\ read'[d] = read[d] /\ up'[d] = up[d]
    BY DEF EndCall
  <2>2. live[d] \/ ~live'[d]
    BY DEF EndCall, TypeOK
  <2>3. CASE call'[d] = call[d]
    BY <2>1, <2>2, <2>3, SameRequest
  <2>4. CASE call'[d] # call[d]
    <3>1. d = conn /\ read[d] = Idle
      BY <2>4 DEF EndCall, TypeOK
    <3>2. read[d].next = "none"
      BY <3>1 DEF Idle, Parser
    <3> QED BY <2>1, <3>2 DEF RequestMatches
  <2> QED BY <2>3, <2>4
<1> QED BY <1>3, <1>4, <1>5

(* What the client keeps of a call that returns is of its calls. *)
LEMMA ReturnStep ==
  ASSUME RequestInv, Return \/ FailToParse
  PROVE  RequestInv'
<1>1. conn # NoConnection
  BY DEF RequestInv, ConnectionsMatch, Return, FailToParse
<1>2. PICK r : EndCall(r)
  BY DEF Return, FailToParse
<1>3. call[conn] \in Calls /\ DOMAIN kept \subseteq Names /\ Range(kept) \subseteq Payloads
  BY <1>1 DEF RequestInv, ConnectionsMatch, TypeOK
<1> DEFINE c == call[conn]
<1>4. \/ kept' = kept
      \/ kept' = Without(kept, c.name)
      \/ c.op = "BACKUP_FILE" /\ kept' = Stored(kept, c.name, c.payload)
  BY DEF Return, FailToParse, Forget
<1>5. c.op = "BACKUP_FILE" => c.name \in Names /\ c.payload \in Payloads
  BY <1>3, CallFields
<1> HIDE DEF c
<1>6. CASE kept' = kept
  BY <1>1, <1>2, <1>3, <1>6, EndCallStep
<1>7. CASE kept' = Without(kept, c.name)
  <2>1. DOMAIN kept' = DOMAIN kept \ {c.name}
    BY <1>7, SmallerDirectory
  <2>2. Range(kept') \subseteq Payloads
    <3>1. CASE DOMAIN kept = {}
      <4>1. DOMAIN kept' = {}
        BY <2>1, <3>1
      <4> QED BY <4>1 DEF Range
    <3>2. CASE DOMAIN kept # {}
      <4>1. PICK p : p \in Payloads
        BY <1>3, <3>2 DEF Range
      <4> QED BY <1>3, <1>7, <4>1, DirectoriesHold
    <3> QED BY <3>1, <3>2
  <2> QED BY <1>1, <1>2, <1>3, <2>1, <2>2, EndCallStep
<1>8. CASE c.op = "BACKUP_FILE" /\ kept' = Stored(kept, c.name, c.payload)
  <2>1. DOMAIN kept' = DOMAIN kept \cup {c.name}
    BY <1>8 DEF Stored
  <2>2. Range(kept') \subseteq Payloads
    BY <1>3, <1>5, <1>8, DirectoriesHold
  <2>3. DOMAIN kept' \subseteq Names
    BY <1>3, <1>5, <1>8, <2>1
  <2> QED BY <1>1, <1>2, <2>2, <2>3, EndCallStep
<1> QED BY <1>4, <1>6, <1>7, <1>8

(* A call that cannot be packed changes nothing but what the client returns. *)
LEMMA FailToPackStep ==
  ASSUME RequestInv, NEW c, FailToPack(c)
  PROVE  RequestInv'
<1>1. UNCHANGED <<client, conn, call, live, up, read, disk>>
  BY DEF FailToPack
<1>2. TypeOK' /\ ConnectionsMatch'
  BY <1>1 DEF RequestInv, FailToPack, TypeOK, ConnectionsMatch, client, disk
<1> QED BY <1>1, <1>2, OtherSteps

(* All steps keep the invariant. *)
LEMMA RequestInvNext == RequestInv /\ [Next]_vars => RequestInv'
<1> SUFFICES ASSUME RequestInv, [Next]_vars
             PROVE  RequestInv'
  OBVIOUS
<1>1. ASSUME NEW c \in Calls, FailToPack(c) \/ \E d \in Connections : SendRequest(d, c)
      PROVE  RequestInv'
  BY <1>1, FailToPackStep, SendRequestStep
<1>2. CASE Break
  BY <1>2, BreakStep
<1>3. ASSUME NEW d \in Connections, ServerStep(d)
      PROVE  RequestInv'
  BY <1>3, ReadFieldStep, LoseRequestStep, AnswersStep DEF ServerStep, Answers
<1>4. CASE ClientStep
  BY <1>4, ReceiveFieldStep, ReceiveEndStep, ReturnStep DEF ClientStep
<1>5. CASE UNCHANGED vars
  <2>1. UNCHANGED <<client, conn, call, live, up, read, disk>>
    BY <1>5 DEF vars
  <2>2. TypeOK' /\ ConnectionsMatch'
    BY <1>5 DEF vars, RequestInv, TypeOK, ConnectionsMatch, client, disk, history
  <2> QED BY <2>1, <2>2, OtherSteps
<1> QED BY <1>1, <1>2, <1>3, <1>4, <1>5 DEF Next

(* The requests on their way are always those of the calls. *)
THEOREM RequestsMatch == Spec => []RequestInv
BY RequestInvInit, RequestInvNext, PTL DEF Spec

(* Whatever the client writes and the server answers is bytes, and so is   *)
(* what is on the disk, in every state of the program.                     *)
THEOREM TypeCorrect == Spec => []TypeOK
<1>1. RequestInv => TypeOK
  BY DEF RequestInv
<1> QED BY <1>1, RequestsMatch, PTL

(* The request that the server handles is the one of the client's call,    *)
(* and nothing of it is left on the wire, if every character is one byte.  *)
THEOREM RequestsArrive ==
  ASSUME OneByteCharacters
  PROVE  Spec => []RequestsArriveUnchanged
<1>1. RequestInv => RequestsArriveUnchanged
  <2> SUFFICES ASSUME RequestInv, NEW d \in Connections, read[d].next = "handle"
               PROVE  /\ up[d] = <<>>
                      /\ read[d].user = user_id /\ read[d].op = call[d].op
                      /\ call[d].op # "LIST_FILES" => read[d].name = Encoded(call[d].name)
                      /\ call[d].op = "BACKUP_FILE" => read[d].payload = Encoded(call[d].payload)
    BY DEF RequestsArriveUnchanged
  <2>1. RequestMatches(d)
    BY DEF RequestInv
  <2>2. /\ FieldsMatch(call[d], read[d])
        /\ up[d] = <<>>
    BY <2>1 DEF RequestMatches, Remaining
  <2>3. call[d] \in Calls /\ CanPack(call[d])
    BY <2>2 DEF FieldsMatch
  <2>4. call[d].op # "LIST_FILES" => NameField(call[d]) = Encoded(call[d].name)
    BY <2>3, FieldsAreTexts
  <2>5. call[d].op = "BACKUP_FILE" => PayloadField(call[d]) = Encoded(call[d].payload)
    BY <2>3, FieldsAreTexts
  <2> QED BY <2>2, <2>4, <2>5 DEF FieldsMatch
<1> QED BY <1>1, RequestsMatch, PTL

-----------------------------------------------------------------------------
(* Answers *)

(* What decode makes of bytes, from each place on *)
Decodes(f, bytes) ==
  f = [i \in 1 .. Len(bytes) + 1 |->
         \/ i = Len(bytes) + 1
         \/ \E c \in Characters :
              /\ i + Len(c) <= Len(bytes) + 1
              /\ SubSeq(bytes, i, i + Len(c) - 1) = c
              /\ f[i + Len(c)]]

(* Bytes that are one-byte characters are decoded. *)
LEMMA OneByteIsUTF8 ==
  ASSUME NEW bytes \in Seq(Bytes), \A i \in 1 .. Len(bytes) : <<bytes[i]>> \in Characters
  PROVE  IsUTF8(bytes)
<1> DEFINE n == Len(bytes)
<1>1. n \in Nat
  OBVIOUS
<1>2. ASSUME NEW i \in 1 .. n
      PROVE  /\ <<bytes[i]>> \in Characters /\ Len(<<bytes[i]>>) = 1
             /\ i + 1 <= n + 1 /\ SubSeq(bytes, i, i + 1 - 1) = <<bytes[i]>>
  <2>1. bytes[i] \in Bytes /\ i + 1 - 1 = i /\ i \in Nat
    BY <1>1
  <2>2. \A j \in i .. i : bytes[j] \in Bytes
    BY <2>1
  <2>3. /\ SubSeq(bytes, i, i) \in Seq(Bytes) /\ Len(SubSeq(bytes, i, i)) = 1
        /\ SubSeq(bytes, i, i)[1] = bytes[i]
    BY <2>1, <2>2, SubSeqProperties
  <2>4. /\ <<bytes[i]>> \in Seq(Bytes) /\ Len(<<bytes[i]>>) = 1
        /\ \A j \in 1 .. 1 : SubSeq(bytes, i, i)[j] = <<bytes[i]>>[j]
    BY <2>1, <2>3
  <2>5. SubSeq(bytes, i, i) = <<bytes[i]>>
    BY <2>3, <2>4, SeqEqual
  <2> QED BY <1>1, <2>1, <2>5
<1>3. \E f : Decodes(f, bytes)
  <2>1. PICK g : g = [i \in 1 .. n + 1 |-> TRUE]
    OBVIOUS
  <2>2. ASSUME NEW i \in 1 .. n + 1
        PROVE  (\/ i = n + 1
                \/ \E c \in Characters :
                     /\ i + Len(c) <= n + 1
                     /\ SubSeq(bytes, i, i + Len(c) - 1) = c
                     /\ g[i + Len(c)]) = TRUE
    <3>1. CASE i = n + 1
      BY <3>1
    <3>2. CASE i # n + 1
      <4>1. i \in 1 .. n /\ i + 1 \in 1 .. n + 1
        BY <1>1, <3>2
      <4>2. g[i + 1] = TRUE
        BY <2>1, <4>1
      <4>3. \E c \in Characters : /\ i + Len(c) <= n + 1
                                  /\ SubSeq(bytes, i, i + Len(c) - 1) = c
                                  /\ g[i + Len(c)]
        BY <1>2, <4>1, <4>2
      <4> QED BY <4>3
    <3> QED BY <3>1, <3>2
  <2>3. Decodes(g, bytes)
    BY <2>1, <2>2 DEF Decodes
  <2> QED BY <2>3
<1> DEFINE f == CHOOSE f : Decodes(f, bytes)
<1>4. Decodes(f, bytes)
  BY <1>3
<1>5. IsUTF8(bytes) = f[1]
  BY DEF IsUTF8, Decodes
<1> HIDE DEF f
<1>6. ASSUME NEW i \in 1 .. n
      PROVE  f[i + 1] => f[i]
  <2>1. i \in 1 .. n + 1
    BY <1>1
  <2>2. f[i] = (\/ i = n + 1
                \/ \E c \in Characters :
                     /\ i + Len(c) <= n + 1
                     /\ SubSeq(bytes, i, i + Len(c) - 1) = c
                     /\ f[i + Len(c)])
    BY <1>4, <2>1 DEF Decodes
  <2> QED BY <1>2, <2>2
<1>7. f[n + 1]
  <2>1. n + 1 \in 1 .. n + 1
    BY <1>1
  <2> QED BY <1>4, <2>1 DEF Decodes
<1> DEFINE T == {k \in Nat : k <= n /\ ~f[n + 1 - k]}
<1>8. T = {}
  <2> SUFFICES ASSUME T # {} PROVE FALSE
    OBVIOUS
  <2>1. PICK k \in T : \A l \in T : k <= l
    BY LeastOf
  <2>2. k \in Nat /\ k <= n /\ ~f[n + 1 - k]
    OBVIOUS
  <2>3. k # 0
    BY <1>1, <1>7, <2>2
  <2>4. k - 1 \in Nat /\ k - 1 <= n /\ k - 1 \notin T
    BY <1>1, <2>1, <2>2, <2>3
  <2>5. f[n + 1 - (k - 1)]
    BY <2>4
  <2>6. n + 1 - k \in 1 .. n /\ (n + 1 - k) + 1 = n + 1 - (k - 1)
    BY <1>1, <2>2, <2>3
  <2> QED BY <1>6, <2>2, <2>5, <2>6
<1>9. n \in Nat /\ n \notin T /\ n + 1 - n = 1
  BY <1>1, <1>8
<1> QED BY <1>5, <1>9

(* Where every character is one byte the encoding of a text is decoded. *)
LEMMA EncodedIsUTF8 ==
  ASSUME OneByteCharacters, NEW s \in Seq(Characters)
  PROVE  IsUTF8(Encoded(s))
<1>1. PICK b : b = Encoded(s)
  OBVIOUS
<1>2. b \in Seq(Bytes) /\ Len(b) = Len(s) /\ b = [i \in 1 .. Len(s) |-> s[i][1]]
  BY <1>1, CharactersAreOneByte
<1>3. ASSUME NEW i \in 1 .. Len(b)
      PROVE  <<b[i]>> \in Characters
  <2>1. i \in 1 .. Len(s) /\ b[i] = s[i][1]
    BY <1>2
  <2>2. s[i] \in Characters /\ s[i] \in Seq(Bytes) /\ Len(s[i]) = 1
    BY <2>1, WireAssumption, ElementOfSeq DEF OneByteCharacters
  <2>3. s[i] = <<s[i][1]>>
    BY <2>2
  <2> QED BY <2>1, <2>2, <2>3
<1> QED BY <1>1, <1>2, <1>3, OneByteIsUTF8

(* A length that does not fit in four bytes is read as a smaller one. *)
LEMMA LengthsAreRead ==
  ASSUME NEW v \in Nat
  PROVE  /\ UnpackI(PushU32(v)) \in Nat /\ UnpackI(PushU32(v)) <= v
         /\ v < Limit32 => UnpackI(PushU32(v)) = v
         /\ PushU32(v) \in Seq(Bytes) /\ Len(PushU32(v)) = 4
         /\ v < Limit16 => UnpackH(PushU16(v)) = v
         /\ PushU16(v) \in Seq(Bytes) /\ Len(PushU16(v)) = 2
<1>1. /\ PushU32(v) = PackI(v) /\ PushU32(v) \in Seq(Bytes) /\ Len(PushU32(v)) = 4
      /\ UnpackI(PushU32(v)) = ReadUint32(PushU32(v)) /\ UnpackI(PushU32(v)) \in Nat
      /\ v < Limit32 => ReadUint32(PackI(v)) = v
  BY FourBytes, NumbersAreNat
<1>2. /\ PushU16(v) = PackH(v) /\ PushU16(v) \in Seq(Bytes) /\ Len(PushU16(v)) = 2
      /\ UnpackH(PushU16(v)) = ReadUint16(PushU16(v))
      /\ v < Limit16 => ReadUint16(PackH(v)) = v
  BY TwoBytes, NumbersAreNat
<1>3. UnpackI(PushU32(v)) <= v
  <2>1. ReadUint32(PackI(v)) <= v
    BY FourBytes
  <2> QED BY <1>1, <2>1
<1> QED BY <1>1, <1>2, <1>3

(* The fields that a response has *)
LEMMA ResponseFields ==
  ASSUME NEW r \in Responses(GoodNames)
  PROVE  /\ r \in Responses(Seq(Bytes)) /\ r.op \in DOMAIN ResponseOP
         /\ r.op \in Named =>
              r.name \in Seq(Bytes) /\ Len(r.name) \in Nat /\ Len(r.name) < Limit16 /\ IsUTF8(r.name)
         /\ r.op \in WithFile =>
              r.op \in Named /\ r.payload \in Seq(Bytes) /\ Len(r.payload) \in Nat
         /\ PayloadPart(r) \in Seq(Bytes) /\ NamePart(r) \in Seq(Bytes)
<1>1. GoodNames \subseteq Seq(Bytes) /\ \A n \in GoodNames : Len(n) < Limit16 /\ IsUTF8(n)
  BY DEF GoodNames
<1>2. /\ r \in Responses(Seq(Bytes)) /\ r.op \in DOMAIN ResponseOP
      /\ r.op \in Named => r.name \in GoodNames
      /\ r.op \in WithFile => r.op \in Named /\ r.payload \in Seq(Bytes)
  <2> USE DEF Responses, Named, WithFile
  <2>1. CASE r \in [op : {"NO_BACKUP_FILES_FOR_CLIENT", "SERVER_ERROR"}]
    BY <2>1, WireAssumption
  <2>2. CASE r \in [op : {"SUCCESSFUL_BACKUP_OR_DELETE", "FILE_NOT_FOUND"}, name : GoodNames]
    BY <1>1, <2>2, WireAssumption
  <2>3. CASE r \in [op : {"SUCCESSFUL_RESTORE", "SUCCESSFUL_LIST_FILES"},
                    name : GoodNames, payload : Seq(Bytes)]
    BY <1>1, <2>3, WireAssumption
  <2> QED BY <2>1, <2>2, <2>3
<1>3. /\ r.op \in Named =>
           r.name \in Seq(Bytes) /\ Len(r.name) \in Nat /\ Len(r.name) < Limit16 /\ IsUTF8(r.name)
      /\ r.op \in WithFile => Len(r.payload) \in Nat
  BY <1>1, <1>2
<1>4. <<>> \in Seq(Bytes)
  OBVIOUS
<1>5. PayloadPart(r) \in Seq(Bytes)
  <2>1. ASSUME r.op \in WithFile
        PROVE  PushU32(Len(r.payload)) \o r.payload \in Seq(Bytes)
    <3>1. PushU32(Len(r.payload)) \in Seq(Bytes)
      BY <1>3, <2>1, LengthsAreRead
    <3> QED BY <1>2, <2>1, <3>1, ConcatProperties
  <2> QED BY <1>4, <2>1 DEF PayloadPart
<1>6. NamePart(r) \in Seq(Bytes)
  <2>1. ASSUME r.op \in Named
        PROVE  PushU16(Len(r.name)) \o (r.name \o PayloadPart(r)) \in Seq(Bytes)
    <3>1. PushU16(Len(r.name)) \in Seq(Bytes)
      BY <1>3, <2>1, LengthsAreRead
    <3>2. r.name \o PayloadPart(r) \in Seq(Bytes)
      BY <1>3, <1>5, <2>1, ConcatProperties
    <3> QED BY <3>1, <3>2, ConcatProperties
  <2> QED BY <1>4, <2>1 DEF NamePart
<1> QED BY <1>2, <1>3, <1>5, <1>6

(* The field t is next in the response r, of which s is left. *)
NextAnswerField(r, a, s, t) ==
  /\ s = AnswerRemaining(r, a.next) /\ s \in Seq(Bytes) /\ Len(s) >= AnswerWidth(a)
  /\ t = SubSeq(s, 1, AnswerWidth(a))
  /\ AnswerFieldsMatch(r, AfterAnswerField(a, t))
  /\ AfterAnswerField(a, t).next # "done" =>
       SubSeq(s, AnswerWidth(a) + 1, Len(s)) = AnswerRemaining(r, AfterAnswerField(a, t).next)

(* The field that ResponseParser reads next is the one that comes next. *)
LEMMA AnswersAreInOrder ==
  ASSUME NEW r \in Responses(GoodNames), NEW a \in AnswerParsers, AnswerFieldsMatch(r, a),
         a.next # "done"
  PROVE  \E s, t : NextAnswerField(r, a, s, t)
<1>1. /\ r \in Responses(Seq(Bytes)) /\ r.op \in DOMAIN ResponseOP
      /\ PayloadPart(r) \in Seq(Bytes) /\ NamePart(r) \in Seq(Bytes)
  BY ResponseFields
<1>2. CASE a.next = "header"
  <2> DEFINE code == ResponseOP[r.op]
             t == <<ServerVersion>> \o PushU16(code)
             u == NamePart(r)
             n == IF r.op \in Named THEN "name_length" ELSE "done"
  <2>1. code \in Nat /\ code < Limit16
    <3>1. code \in Range(ResponseOP)
      BY <1>1 DEF Range
    <3>2. Limit16 \in Nat
      BY WireAssumption DEF Limit16
    <3> QED BY <3>1, <3>2, WireAssumption
  <2>2. /\ <<ServerVersion>> \in Seq(Bytes) /\ Len(<<ServerVersion>>) = 1
        /\ PushU16(code) \in Seq(Bytes) /\ Len(PushU16(code)) = 2
        /\ UnpackH(PushU16(code)) = code
    <3>1. <<ServerVersion>> \in Seq(Bytes) /\ Len(<<ServerVersion>>) = 1
      BY WireAssumption
    <3> HIDE DEF code
    <3> QED BY <2>1, <3>1, LengthsAreRead
  <2> HIDE DEF code
  <2>3. /\ t \in Seq(Bytes) /\ Len(t) = 3
        /\ t[2] = PushU16(code)[1] /\ t[3] = PushU16(code)[2]
    <3>1. /\ t \in Seq(Bytes) /\ Len(t) = 1 + 2
          /\ \A i \in 1 .. 1 + 2 :
               t[i] = IF i <= 1 THEN <<ServerVersion>>[i] ELSE PushU16(code)[i - 1]
      BY <2>2, ConcatProperties, SMTT(30)
    <3> HIDE DEF t
    <3>2. t[2] = PushU16(code)[2 - 1] /\ t[3] = PushU16(code)[3 - 1]
      BY <3>1
    <3> QED BY <3>1, <3>2
  <2>4. UnpackH(Tail(t)) = code
    <3> HIDE DEF t
    <3>1. Tail(t)[1] = t[2] /\ Tail(t)[2] = t[3]
      BY <2>3, TailOfThree
    <3> QED BY <2>2, <2>3, <3>1 DEF UnpackH
  <2>5. AnswerWidth(a) = 3 /\ AnswerRemaining(r, a.next) = t \o u
    BY <1>2 DEF AnswerWidth, AnswerRemaining, code
  <2>6. {op \in DOMAIN ResponseOP : ResponseOP[op] = code} = {r.op}
    BY <1>1, WireAssumption DEF IsInjective, code
  <2>7. u = AnswerRemaining(r, "name_length")
    BY DEF AnswerRemaining
  <2> HIDE DEF t, u
  <2>8. AfterAnswerField(a, t) = [a EXCEPT !.op = r.op, !.next = n]
    BY <1>2, <2>4, <2>6 DEF AfterAnswerField
  <2>9. n \in {"name_length", "done"} /\ (n = "name_length" <=> r.op \in Named)
    OBVIOUS
  <2> HIDE DEF n
  <2>10. AfterAnswerField(a, t).op = r.op /\ AfterAnswerField(a, t).next = n
    BY <2>8, <2>9 DEF AnswerParsers
  <2>11. r.op \in WithFile => r.op \in Named
    BY ResponseFields
  <2>12. AnswerFieldsMatch(r, AfterAnswerField(a, t))
    BY <2>9, <2>10, <2>11 DEF AnswerFieldsMatch
  <2>13. /\ t \o u \in Seq(Bytes) /\ Len(t \o u) >= 3 /\ SubSeq(t \o u, 1, 3) = t
         /\ SubSeq(t \o u, 3 + 1, Len(t \o u)) = u
    <3>1. u \in Seq(Bytes)
      BY <1>1 DEF u
    <3>2. /\ t \o u \in Seq(Bytes) /\ Len(t \o u) >= Len(t) /\ SubSeq(t \o u, 1, Len(t)) = t
          /\ SubSeq(t \o u, Len(t) + 1, Len(t \o u)) = u
      BY <2>3, <3>1, FieldThenRest
    <3> QED BY <2>3, <3>2
  <2>14. NextAnswerField(r, a, t \o u, t)
    BY <2>5, <2>7, <2>9, <2>10, <2>12, <2>13 DEF NextAnswerField
  <2> QED BY <2>14
<1>3. CASE a.next = "name_length"
  <2> DEFINE t == PushU16(Len(r.name))
             u == r.name \o PayloadPart(r)
  <2>1. a.op = r.op /\ r.op \in Named
    BY <1>3 DEF AnswerFieldsMatch
  <2>2. /\ r.name \in Seq(Bytes) /\ t \in Seq(Bytes) /\ Len(t) = 2
        /\ UnpackH(t) = Len(r.name)
    BY <2>1, ResponseFields, LengthsAreRead
  <2>3. u \in Seq(Bytes)
    BY <1>1, <2>2, ConcatProperties
  <2>4. AnswerWidth(a) = 2 /\ AnswerRemaining(r, a.next) = t \o u
    BY <1>3, <2>1 DEF AnswerWidth, AnswerRemaining, NamePart
  <2>5. u = AnswerRemaining(r, "name")
    BY DEF AnswerRemaining
  <2> HIDE DEF t, u
  <2>6. AfterAnswerField(a, t) = [a EXCEPT !.next = "name", !.length = Len(r.name)]
    BY <1>3, <2>2 DEF AfterAnswerField
  <2>7. /\ AfterAnswerField(a, t).op = r.op /\ AfterAnswerField(a, t).next = "name"
        /\ AfterAnswerField(a, t).length = Len(r.name)
    BY <2>1, <2>6 DEF AnswerParsers
  <2>8. AnswerFieldsMatch(r, AfterAnswerField(a, t))
    BY <2>1, <2>7 DEF AnswerFieldsMatch
  <2>9. /\ t \o u \in Seq(Bytes) /\ Len(t \o u) >= 2 /\ SubSeq(t \o u, 1, 2) = t
        /\ SubSeq(t \o u, 2 + 1, Len(t \o u)) = u
    <3>1. t \in Seq(Bytes) /\ u \in Seq(Bytes)
      BY <2>2, <2>3
    <3>2. /\ t \o u \in Seq(Bytes) /\ Len(t \o u) >= Len(t) /\ SubSeq(t \o u, 1, Len(t)) = t
          /\ SubSeq(t \o u, Len(t) + 1, Len(t \o u)) = u
      BY <3>1, FieldThenRest
    <3> QED BY <2>2, <3>2
  <2>10. NextAnswerField(r, a, t \o u, t)
    BY <2>4, <2>5, <2>7, <2>8, <2>9 DEF NextAnswerField
  <2> QED BY <2>10
<1>4. CASE a.next = "name"
  <2> DEFINE t == r.name
             u == PayloadPart(r)
             n == IF r.op \in WithFile THEN "payload_length" ELSE "done"
  <2>1. a.op = r.op /\ r.op \in Named /\ a.length = Len(r.name)
    BY <1>4 DEF AnswerFieldsMatch
  <2>2. t \in Seq(Bytes) /\ u \in Seq(Bytes) /\ IsUTF8(t) /\ Len(t) = Len(r.name)
    BY <1>1, <2>1, ResponseFields
  <2>3. AnswerWidth(a) = Len(t) /\ AnswerRemaining(r, a.next) = t \o u
    BY <1>4, <2>1 DEF AnswerWidth, AnswerRemaining
  <2>4. u = AnswerRemaining(r, "payload_length")
    BY DEF AnswerRemaining
  <2>5. AfterAnswerField(a, t) = [a EXCEPT !.name = t, !.next = n]
    BY <1>4, <2>1, <2>2 DEF AfterAnswerField
  <2>6. n \in {"payload_length", "done"} /\ (n = "payload_length" <=> r.op \in WithFile)
    OBVIOUS
  <2>7. t = r.name
    OBVIOUS
  <2> HIDE DEF t, u, n
  <2>8. /\ AfterAnswerField(a, t).op = r.op /\ AfterAnswerField(a, t).next = n
        /\ AfterAnswerField(a, t).name = t
    BY <2>1, <2>5, <2>6 DEF AnswerParsers
  <2>9. AnswerFieldsMatch(r, AfterAnswerField(a, t))
    BY <2>1, <2>6, <2>7, <2>8 DEF AnswerFieldsMatch
  <2>10. /\ t \o u \in Seq(Bytes) /\ Len(t \o u) >= Len(t) /\ SubSeq(t \o u, 1, Len(t)) = t
         /\ SubSeq(t \o u, Len(t) + 1, Len(t \o u)) = u
    BY <2>2, FieldThenRest
  <2>11. NextAnswerField(r, a, t \o u, t)
    BY <2>3, <2>4, <2>6, <2>8, <2>9, <2>10 DEF NextAnswerField
  <2> QED BY <2>11
<1>5. CASE a.next = "payload_length"
  <2> DEFINE t == PushU32(Len(r.payload))
             u == r.payload
  <2>1. a.op = r.op /\ r.op \in WithFile /\ r.op \in Named /\ a.name = r.name
    BY <1>5, ResponseFields DEF AnswerFieldsMatch
  <2>2. u \in Seq(Bytes) /\ t \in Seq(Bytes) /\ Len(t) = 4
    BY <2>1, ResponseFields, LengthsAreRead
  <2>3. AnswerWidth(a) = 4 /\ AnswerRemaining(r, a.next) = t \o u
    BY <1>5, <2>1 DEF AnswerWidth, AnswerRemaining, PayloadPart
  <2>4. u = AnswerRemaining(r, "payload")
    BY DEF AnswerRemaining
  <2>5. AfterAnswerField(a, t) = [a EXCEPT !.next = "payload", !.length = UnpackI(t)]
    BY <1>5 DEF AfterAnswerField
  <2>6. t = PushU32(Len(r.payload))
    OBVIOUS
  <2> HIDE DEF t, u
  <2>7. /\ AfterAnswerField(a, t).op = r.op /\ AfterAnswerField(a, t).next = "payload"
        /\ AfterAnswerField(a, t).length = UnpackI(t) /\ AfterAnswerField(a, t).name = r.name
    BY <2>1, <2>5 DEF AnswerParsers
  <2>8. AnswerFieldsMatch(r, AfterAnswerField(a, t))
    BY <2>1, <2>6, <2>7 DEF AnswerFieldsMatch
  <2>9. /\ t \o u \in Seq(Bytes) /\ Len(t \o u) >= 4 /\ SubSeq(t \o u, 1, 4) = t
        /\ SubSeq(t \o u, 4 + 1, Len(t \o u)) = u
    <3>1. t \in Seq(Bytes) /\ u \in Seq(Bytes)
      BY <2>2
    <3>2. /\ t \o u \in Seq(Bytes) /\ Len(t \o u) >= Len(t) /\ SubSeq(t \o u, 1, Len(t)) = t
          /\ SubSeq(t \o u, Len(t) + 1, Len(t \o u)) = u
      BY <3>1, FieldThenRest
    <3> QED BY <2>2, <3>2
  <2>10. NextAnswerField(r, a, t \o u, t)
    BY <2>3, <2>4, <2>7, <2>8, <2>9 DEF NextAnswerField
  <2> QED BY <2>10
<1>6. CASE a.next = "payload"
  <2> DEFINE t == SubSeq(r.payload, 1, a.length)
  <2>1. /\ a.op = r.op /\ r.op \in WithFile /\ r.op \in Named /\ a.name = r.name
        /\ a.length = UnpackI(PushU32(Len(r.payload)))
    BY <1>6, ResponseFields DEF AnswerFieldsMatch
  <2>2. /\ r.payload \in Seq(Bytes) /\ a.length \in Nat /\ a.length <= Len(r.payload)
        /\ Len(r.payload) < Limit32 => a.length = Len(r.payload)
    BY <2>1, ResponseFields, LengthsAreRead
  <2>3. AnswerWidth(a) = a.length /\ AnswerRemaining(r, a.next) = r.payload
    BY <1>6 DEF AnswerWidth, AnswerRemaining
  <2>4. Len(r.payload) < Limit32 => t = r.payload
    BY <2>2
  <2>9. t = SubSeq(r.payload, 1, UnpackI(PushU32(Len(r.payload))))
    BY <2>1
  <2> HIDE DEF t
  <2>5. AfterAnswerField(a, t) = [a EXCEPT !.next = "done", !.payload = t]
    BY <1>6 DEF AfterAnswerField
  <2>6. /\ AfterAnswerField(a, t).op = r.op /\ AfterAnswerField(a, t).next = "done"
        /\ AfterAnswerField(a, t).payload = t /\ AfterAnswerField(a, t).name = r.name
    BY <2>1, <2>5 DEF AnswerParsers
  <2>7. AnswerFieldsMatch(r, AfterAnswerField(a, t))
    BY <2>4, <2>6, <2>9 DEF AnswerFieldsMatch
  <2>8. NextAnswerField(r, a, r.payload, t)
    BY <2>2, <2>3, <2>6, <2>7 DEF NextAnswerField, t
  <2> QED BY <2>8
<1> QED BY <1>2, <1>3, <1>4, <1>5, <1>6 DEF AnswerParsers, AnswerFieldsMatch

-----------------------------------------------------------------------------
(* The steps and the answers *)

(* A response is one, and no other outcome of a call. *)
LEMMA ResponsesDiffer ==
  ASSUME NEW r \in Responses(GoodNames)
  PROVE  r # None /\ r.op # "lost" /\ r.op # "none"
<1>1. r.op \in DOMAIN ResponseOP
  BY ResponseFields
<1> QED BY <1>1, WireAssumption DEF None

(* An answer whose connection breaks arrives as it is or not at all. *)
LEMMA BrokenAnswer ==
  ASSUME NEW r, NEW a, NEW bytes, NEW alive, AnswerMatches(r, a, bytes, alive),
         NEW rest \in {bytes, <<>>}
  PROVE  AnswerMatches(r, a, rest, FALSE)
<1>1. CASE rest = bytes
  BY <1>1 DEF AnswerMatches
<1>2. CASE rest = <<>>
  BY <1>2 DEF AnswerMatches
<1> QED BY <1>1, <1>2

(* Once there is a response, it is all to be read, or the connection is    *)
(* broken.                                                                 *)
LEMMA NewAnswer ==
  ASSUME NEW a, NEW bytes, NEW alive \in BOOLEAN, AnswerMatches(None, a, bytes, alive),
         NEW r \in Responses(GoodNames)
  PROVE  AnswerMatches(r, a, IF alive THEN PackResponse(r) ELSE bytes, alive)
<1>1. None.op # "lost" /\ r # None /\ r.op # "lost"
  BY ResponsesDiffer DEF None
<1>2. None \notin Responses(GoodNames)
  BY ResponsesDiffer
<1>3. PackResponse(r) = AnswerRemaining(r, "header")
  BY ResponseFields, ResponsesAreBytes
<1>4. CASE a.next = "error" /\ a.cut
  BY <1>1, <1>4 DEF AnswerMatches
<1>5. CASE a.next = "header" /\ bytes = <<>>
  <2>1. AnswerFieldsMatch(r, a)
    BY <1>5 DEF AnswerFieldsMatch
  <2> QED BY <1>3, <1>5, <2>1 DEF AnswerMatches
<1> QED BY <1>1, <1>2, <1>4, <1>5 DEF AnswerMatches

(* A request that has been lost leaves nothing to be read. *)
LEMMA NoAnswer ==
  ASSUME NEW a, NEW bytes, AnswerMatches(None, a, bytes, FALSE)
  PROVE  AnswerMatches([op |-> "lost"], a, bytes, FALSE)
<1>1. None.op # "lost"
  BY DEF None
<1>2. None \notin Responses(GoodNames)
  BY ResponsesDiffer
<1> QED BY <1>1, <1>2 DEF AnswerMatches

(* At first there is no answer. *)
LEMMA AnswerInvInit == Init => AnswerInv
<1> SUFFICES ASSUME Init PROVE AnswerInv
  OBVIOUS
<1>1. result.op # "FailedToParseMessage"
  BY DEF Init, None
<1>2. decided \in [Connections -> Decisions]
  BY DEF Init, Decisions
<1> QED BY <1>1, <1>2 DEF Init, AnswerInv, ParsedUnlessCut

(* A new call has no answer yet. *)
LEMMA SendAnswers ==
  ASSUME RequestInv, AnswerInv, NEW c, NEW d \in Connections, SendRequest(d, c)
  PROVE  AnswerInv'
<1>1. conn = NoConnection /\ d # NoConnection /\ conn' = d
  BY WireAssumption DEF SendRequest
<1>2. down[d] = <<>> /\ decided[d] = None
  BY <1>1 DEF AnswerInv
<1>3. \A e \in Connections \ {d} : live'[e] = live[e]
  BY DEF SendRequest, RequestInv, TypeOK
<1>4. answer' = AnswerParser("header") /\ answer'.next = "header"
  BY DEF SendRequest, AnswerParser
<1>5. AnswerMatches(decided[conn], answer, down[conn], live[conn])'
  <2>1. decided'[conn'] = None /\ down'[conn'] = <<>>
    BY <1>1, <1>2 DEF SendRequest
  <2> QED BY <1>4, <2>1 DEF AnswerMatches
<1>6. decided'[d] = None /\ read'[d].next # "none"
  BY <1>2 DEF SendRequest, Parser, RequestInv, TypeOK
<1>7. ParsedUnlessCut'
  BY DEF SendRequest, ParsedUnlessCut, None
<1>8. \A e \in Connections : down[e] = <<>> /\ live[e] = FALSE /\ decided[e] = None
  BY <1>1, WireAssumption DEF AnswerInv
<1>9. down' = down /\ decided' = decided
  BY DEF SendRequest
<1>10. \A e \in Connections \ {conn'} : down'[e] = <<>> /\ live'[e] = FALSE /\ decided'[e] = None
  BY <1>1, <1>3, <1>8, <1>9
<1> QED BY <1>1, <1>5, <1>6, <1>7, <1>9, <1>10 DEF AnswerInv

(* A connection that breaks takes what it holds with it or not. *)
LEMMA BreakAnswers ==
  ASSUME RequestInv, AnswerInv, Break
  PROVE  AnswerInv'
<1>1. conn # NoConnection /\ conn \in Connections /\ conn' = conn
  BY DEF Break, RequestInv, TypeOK
<1>2. live'[conn] = FALSE /\ \A d \in Connections \ {conn} : live'[d] = live[d]
  BY <1>1 DEF Break, RequestInv, TypeOK
<1>3. down'[conn] \in {down[conn], <<>>} /\ \A d \in Connections \ {conn} : down'[d] = down[d]
  BY <1>1 DEF Break, RequestInv, TypeOK
<1>4. decided' = decided /\ answer' = answer /\ read' = read /\ result' = result
  BY DEF Break
<1>5. AnswerMatches(decided[conn], answer, down[conn], live[conn])'
  <2>1. AnswerMatches(decided[conn], answer, down[conn], live[conn])
    BY <1>1 DEF AnswerInv
  <2>2. AnswerMatches(decided[conn], answer, down'[conn], FALSE)
    BY <1>3, <2>1, BrokenAnswer
  <2> QED BY <1>1, <1>2, <1>4, <2>2
<1>6. ParsedUnlessCut'
  BY <1>4 DEF AnswerInv, ParsedUnlessCut
<1> QED BY <1>1, <1>2, <1>3, <1>4, <1>5, <1>6 DEF AnswerInv

(* While a session reads there is no answer. *)
LEMMA ReadAnswers ==
  ASSUME RequestInv, AnswerInv, NEW d \in Connections, ReadField(d)
  PROVE  AnswerInv'
<1>1. read[d].next # "none" /\ read'[d].next # "none"
  <2> DEFINE f == SubSeq(up[d], 1, Width(read[d]))
  <2>1. /\ read[d] \in Parsers /\ read[d].next \notin {"none", "error", "handle"}
        /\ up[d] \in Seq(Bytes) /\ Width(read[d]) \in Nat /\ Width(read[d]) <= Len(up[d])
    BY WidthsAreNat DEF RequestInv, ReadField, Reading, TypeOK
  <2>2. f \in Seq(Bytes) /\ Len(f) = Width(read[d])
    BY <2>1, PartsAreBytes
  <2>3. read'[d] = AfterField(read[d], f)
    BY DEF ReadField, RequestInv, TypeOK
  <2> HIDE DEF f
  <2>4. AfterField(read[d], f).next # "none"
    BY <2>1, <2>2, ParsersAreClosed
  <2> QED BY <2>1, <2>3, <2>4
<1>2. \A e \in Connections : e # d => read'[e] = read[e]
  BY DEF ReadField, RequestInv, TypeOK
<1>3. conn # NoConnection => conn \in Connections
  BY DEF RequestInv, TypeOK
<1>4. UNCHANGED <<conn, live, decided, down, answer, result>>
  BY DEF ReadField
<1>5. ParsedUnlessCut'
  BY <1>4 DEF AnswerInv, ParsedUnlessCut
<1>6. conn # NoConnection => (decided'[conn] = None <=> read'[conn].next # "none")
  BY <1>1, <1>2, <1>3, <1>4 DEF AnswerInv
<1> QED BY <1>4, <1>5, <1>6 DEF AnswerInv

(* The session of a call ends with the response to it. *)
LEMMA EndAnswers ==
  ASSUME RequestInv, AnswerInv, NEW d \in Connections, read[d].next # "none",
         NEW r, EndSession(d, r),
         \/ r \in Responses(GoodNames) /\ Send(d, r)
         \/ r = [op |-> "lost"] /\ live[d] = FALSE /\ down' = down
  PROVE  AnswerInv'
<1>1. UNCHANGED <<conn, live, answer, result>> /\ live[d] \in BOOLEAN
  BY DEF EndSession, RequestInv, TypeOK
<1>2. \A e \in Connections \ {d} : down'[e] = down[e] /\ read'[e] = read[e]
  BY DEF EndSession, Send, RequestInv, TypeOK
<1>3. read'[d].next = "none"
  BY DEF EndSession, Idle, Parser, RequestInv, TypeOK
<1>4. ParsedUnlessCut'
  BY <1>1 DEF AnswerInv, ParsedUnlessCut
<1>5. conn # NoConnection => conn \in Connections
  BY DEF RequestInv, TypeOK
<1>6. CASE d # conn
  <2>1. decided' = decided
    BY <1>6 DEF EndSession
  <2>2. down' = down
    <3>1. live[d] = FALSE
      BY <1>6 DEF AnswerInv
    <3> QED BY <3>1 DEF Send
  <2>3. conn # NoConnection => read'[conn] = read[conn]
    BY <1>2, <1>5, <1>6
  <2> QED BY <1>1, <1>4, <2>1, <2>2, <2>3 DEF AnswerInv
<1>7. CASE d = conn
  <2>1. decided[d] = None /\ AnswerMatches(None, answer, down[d], live[d])
    BY <1>5, <1>7, WireAssumption DEF AnswerInv
  <2>2. /\ decided'[d] = r /\ \A e \in Connections \ {d} : decided'[e] = decided[e]
        /\ decided' \in [Connections -> Decisions]
    <3>1. r \in Decisions /\ decided' = [decided EXCEPT ![d] = r]
      BY <1>7 DEF EndSession, Decisions
    <3> QED BY <3>1 DEF AnswerInv
  <2>3. AnswerMatches(r, answer, down'[d], live[d]) /\ r # None
    <3>1. CASE r \in Responses(GoodNames) /\ Send(d, r)
      <4>1. down'[d] = IF live[d] THEN PackResponse(r) ELSE down[d]
        BY <3>1 DEF Send, RequestInv, TypeOK
      <4> QED BY <1>1, <2>1, <3>1, <4>1, NewAnswer, ResponsesDiffer
    <3>2. CASE r = [op |-> "lost"] /\ live[d] = FALSE /\ down' = down
      <4>1. AnswerMatches(None, answer, down[d], FALSE)
        BY <2>1, <3>2
      <4>2. AnswerMatches([op |-> "lost"], answer, down[d], FALSE)
        BY <4>1, NoAnswer
      <4> QED BY <3>2, <4>2 DEF None
    <3> QED BY <3>1, <3>2
  <2>4. AnswerMatches(decided[conn], answer, down[conn], live[conn])'
    BY <1>1, <1>7, <2>2, <2>3
  <2> QED BY <1>1, <1>2, <1>3, <1>4, <1>7, <2>2, <2>3, <2>4 DEF AnswerInv
<1> QED BY <1>6, <1>7

(* The name of a request that is handled is one that arrives back. *)
LEMMA NamesAreGood ==
  ASSUME OneByteCharacters, RequestInv, NEW d \in Connections,
         read[d].next = "handle", read[d].op # "LIST_FILES"
  PROVE  /\ call[d] \in Calls /\ CanPack(call[d]) /\ call[d].op = read[d].op
         /\ read[d].name = Encoded(call[d].name) /\ read[d].name \in GoodNames
<1>1. FieldsMatch(call[d], read[d])
  BY DEF RequestInv, RequestMatches
<1>2. /\ call[d] \in Calls /\ CanPack(call[d]) /\ call[d].op = read[d].op
      /\ read[d].name = NameField(call[d])
  BY <1>1 DEF FieldsMatch
<1>3. NameField(call[d]) = Encoded(call[d].name) /\ call[d].name \in Seq(Characters)
  BY <1>2, FieldsAreTexts
<1>4. Len(Encoded(call[d].name)) < Limit16
  BY <1>2, <1>3, CharactersAreOneByte DEF CanPack
<1>5. IsUTF8(Encoded(call[d].name)) /\ Encoded(call[d].name) \in Seq(Bytes)
  BY <1>3, EncodedIsUTF8, CharactersAreOneByte
<1> QED BY <1>2, <1>3, <1>4, <1>5 DEF GoodNames

(* The server's answers can be understood. *)
LEMMA AnswerAnswers ==
  ASSUME OneByteCharacters, RequestInv, AnswerInv, NEW d \in Connections, Answers(d)
  PROVE  AnswerInv'
<1>1. GoodNames \subseteq Seq(Bytes) /\ ListName \in GoodNames
  BY WireAssumption, ListNameAssumption DEF GoodNames
<1>2. read[d].next = "handle" /\ read[d].op # "LIST_FILES" => read[d].name \in GoodNames
  BY NamesAreGood
<1>3. PICK r \in Responses(GoodNames) : Answer(d, r)
  BY <1>1, <1>2, AnswersAreResponses DEF RequestInv
<1>4. read[d].next # "none"
  BY DEF Answers, RejectRequest, BackUpFile, RestoreFile, DeleteFile, ListFiles, Handles
<1> QED BY <1>3, <1>4, EndAnswers DEF Answer

(* A lost request has no answer. *)
LEMMA LoseAnswers ==
  ASSUME RequestInv, AnswerInv, NEW d \in Connections, LoseRequest(d)
  PROVE  AnswerInv'
<1>1. read[d].next # "none" /\ live[d] = FALSE /\ down' = down
  BY DEF LoseRequest, Reading, RequestInv, TypeOK
<1>2. EndSession(d, [op |-> "lost"])
  BY DEF LoseRequest
<1> QED BY <1>1, <1>2, EndAnswers

(* The client receives the field that comes next, or raises an error when  *)
(* recv returns less.                                                      *)
LEMMA ReceiveAnswers ==
  ASSUME RequestInv, AnswerInv, ReceiveField
  PROVE  AnswerInv'
<1> DEFINE w == AnswerWidth(answer)
           bytes == down[conn]
           r == decided[conn]
<1>1. /\ conn \in Connections /\ conn # NoConnection /\ answer \in AnswerParsers
      /\ answer.next \notin {"none", "error", "done"}
      /\ bytes \in Seq(Bytes) /\ w \in Nat /\ w <= Len(bytes)
  BY WidthsAreNat DEF RequestInv, ReceiveField, Receiving, ConnectionsMatch, TypeOK
<1>2. PICK n \in 0 .. w :
        /\ n < w => ShortReads /\ n > 0
        /\ down' = [down EXCEPT ![conn] = SubSeq(bytes, n + 1, Len(bytes))]
        /\ answer' = IF n < w THEN ParseError(TRUE)
                     ELSE AfterAnswerField(answer, SubSeq(bytes, 1, n))
  BY DEF ReceiveField, RequestInv, TypeOK
<1>3. /\ UNCHANGED <<conn, live, read, decided, result>> /\ live[conn] \in BOOLEAN
      /\ down'[conn] = SubSeq(bytes, n + 1, Len(bytes))
      /\ \A d \in Connections \ {conn} : down'[d] = down[d]
  BY <1>1, <1>2 DEF ReceiveField, RequestInv, TypeOK
<1>4. AnswerMatches(r, answer, bytes, live[conn])
  BY <1>1 DEF AnswerInv
<1>5. r \in Responses(GoodNames) /\ AnswerFieldsMatch(r, answer)
      /\ (bytes = AnswerRemaining(r, answer.next) \/ (bytes = <<>> /\ ~live[conn]))
  <2>1. CASE answer.next = "header" /\ bytes = <<>>
    <3>1. w = 3
      BY <2>1 DEF AnswerWidth
    <3> QED BY <1>1, <2>1, <3>1
  <2> QED BY <1>1, <1>4, <2>1 DEF AnswerMatches
<1> HIDE DEF w, bytes, r
<1>6. r # None /\ r.op # "lost"
  BY <1>5, ResponsesDiffer
<1>7. AnswerMatches(r, answer', down'[conn], live[conn])
  <2>1. CASE n < w
    <3>1. answer'.next = "error" /\ answer'.cut = TRUE
      BY <1>2, <2>1, ParseErrors
    <3> QED BY <1>6, <3>1 DEF AnswerMatches
  <2>2. CASE n = w
    <3>1. PICK s, t : NextAnswerField(r, answer, s, t)
      BY <1>1, <1>5, AnswersAreInOrder
    <3>2. answer' = AfterAnswerField(answer, SubSeq(bytes, 1, n))
      <4>1. ~(n < w)
        BY <1>1, <2>2
      <4> QED BY <1>2, <4>1
    <3>3. CASE bytes = AnswerRemaining(r, answer.next)
      <4>1. SubSeq(bytes, 1, n) = t /\ down'[conn] = SubSeq(s, w + 1, Len(s))
        BY <1>3, <2>2, <3>1, <3>3 DEF NextAnswerField, w
      <4>2. AnswerFieldsMatch(r, answer')
        BY <3>1, <3>2, <4>1 DEF NextAnswerField
      <4>3. answer'.next = "done" \/ down'[conn] = AnswerRemaining(r, answer'.next)
        BY <3>1, <3>2, <4>1 DEF NextAnswerField, w
      <4> QED BY <1>5, <4>2, <4>3 DEF AnswerMatches
    <3>4. CASE bytes = <<>> /\ ~live[conn]
      <4>1. n = 0 /\ w = 0
        BY <1>1, <2>2, <3>4
      <4>2. SubSeq(bytes, 1, n) = <<>> /\ down'[conn] = <<>>
        BY <1>3, <3>4, <4>1
      <4>3. t = <<>>
        <5>1. t = SubSeq(s, 1, 0) /\ s \in Seq(Bytes)
          BY <3>1, <4>1 DEF NextAnswerField, w
        <5> QED BY <5>1
      <4>4. AnswerFieldsMatch(r, answer')
        BY <3>1, <3>2, <4>2, <4>3 DEF NextAnswerField
      <4> QED BY <1>5, <3>4, <4>2, <4>4 DEF AnswerMatches
    <3> QED BY <1>5, <3>3, <3>4
  <2>3. n \in 0 .. w /\ w \in Nat
    BY <1>1, <1>2
  <2> QED BY <2>1, <2>2, <2>3
<1>8. AnswerMatches(decided[conn], answer, down[conn], live[conn])'
  BY <1>3, <1>7 DEF r
<1>9. ParsedUnlessCut'
  BY <1>3 DEF AnswerInv, ParsedUnlessCut
<1> QED BY <1>1, <1>3, <1>8, <1>9 DEF AnswerInv

(* When there is nothing more to receive the connection is broken. *)
LEMMA EndOfAnswers ==
  ASSUME RequestInv, AnswerInv, ReceiveEnd
  PROVE  AnswerInv'
<1> DEFINE w == AnswerWidth(answer)
           bytes == down[conn]
           r == decided[conn]
<1>1. /\ conn \in Connections /\ conn # NoConnection /\ answer \in AnswerParsers
      /\ answer.next \notin {"none", "error", "done"} /\ bytes \in Seq(Bytes)
      /\ Len(bytes) < w /\ (read[conn] = Idle \/ ~live[conn]) /\ live[conn] \in BOOLEAN
      /\ w \in Nat
  BY WidthsAreNat DEF RequestInv, ReceiveEnd, Receiving, ConnectionsMatch, TypeOK
<1>2. AnswerMatches(r, answer, bytes, live[conn]) /\ (r = None <=> read[conn].next # "none")
  BY <1>1 DEF AnswerInv
<1> HIDE DEF w, bytes, r
<1>3. r \in Responses(GoodNames) => r # None /\ r.op # "lost"
  BY ResponsesDiffer
<1>4. live[conn] = FALSE
  <2> SUFFICES ASSUME live[conn] # FALSE PROVE FALSE
    OBVIOUS
  <2>1. read[conn].next = "none"
    <3>1. Idle.next = "none"
      BY DEF Idle, Parser
    <3>2. live[conn] = TRUE
      BY <1>1
    <3>3. read[conn] = Idle
      BY <1>1, <3>2
    <3> QED BY <3>1, <3>3
  <2>2. /\ r \in Responses(GoodNames) /\ AnswerFieldsMatch(r, answer)
        /\ bytes = AnswerRemaining(r, answer.next)
    BY <1>1, <1>2, <2>1 DEF AnswerMatches
  <2>3. PICK s, t : NextAnswerField(r, answer, s, t)
    BY <1>1, <2>2, AnswersAreInOrder
  <2>4. Len(bytes) >= w /\ Len(bytes) \in Nat
    BY <1>1, <2>2, <2>3 DEF NextAnswerField, w
  <2> QED BY <1>1, <2>4
<1>5. answer' = ParseError(TRUE) /\ answer'.next = "error" /\ answer'.cut = TRUE
  <2>1. answer' = ParseError(TRUE)
    BY <1>4 DEF ReceiveEnd
  <2> QED BY <2>1, ParseErrors
<1>6. r = None \/ r.op = "lost" => bytes = <<>>
  BY <1>1, <1>2, <1>3 DEF AnswerMatches
<1>7. UNCHANGED <<conn, live, read, decided, down, result>>
  BY DEF ReceiveEnd
<1>8. AnswerMatches(r, answer', bytes, live[conn])
  BY <1>4, <1>5, <1>6 DEF AnswerMatches
<1>9. AnswerMatches(decided[conn], answer, down[conn], live[conn])'
  BY <1>7, <1>8 DEF r, bytes
<1>10. ParsedUnlessCut'
  BY <1>7 DEF AnswerInv, ParsedUnlessCut
<1> QED BY <1>1, <1>7, <1>9, <1>10 DEF AnswerInv

(* A call that the client ends leaves nothing on its connection. *)
LEMMA EndCallAnswers ==
  ASSUME RequestInv, AnswerInv, conn # NoConnection, NEW r, EndCall(r),
         r.op = "FailedToParseMessage" => r.cut
  PROVE  AnswerInv'
<1>1. conn \in Connections /\ conn' = NoConnection /\ result' = r
  BY DEF RequestInv, TypeOK, EndCall
<1>2. /\ down' = [down EXCEPT ![conn] = <<>>] /\ live' = [live EXCEPT ![conn] = FALSE]
      /\ decided' = [decided EXCEPT ![conn] = None]
  BY DEF EndCall
<1>3. decided' \in [Connections -> Decisions]
  BY <1>2 DEF AnswerInv, Decisions
<1>4. ASSUME NEW d \in Connections
      PROVE  down'[d] = <<>> /\ live'[d] = FALSE /\ decided'[d] = None
  BY <1>2 DEF AnswerInv, RequestInv, TypeOK
<1>5. ParsedUnlessCut'
  BY <1>1 DEF ParsedUnlessCut
<1> QED BY <1>1, <1>3, <1>4, <1>5 DEF AnswerInv

(* What a method returns is no error of the parser. *)
LEMMA ReturnedIsUnderstood ==
  ASSUME NEW c \in Calls, NEW r \in AnswerParsers
  PROVE  Returned(c, r).op # "FailedToParseMessage"
<1>1. r.op \in DOMAIN ResponseOP \cup {"none"} /\ r.op # "FailedToParseMessage"
  BY WireAssumption DEF AnswerParsers
<1>2. CASE r.op \in Errors
  BY <1>1, <1>2 DEF Returned
<1>3. CASE r.op \notin Errors \cup {ExpectedOp(c)}
  BY <1>3 DEF Returned
<1>4. CASE r.op \notin Errors /\ r.op = ExpectedOp(c)
  <2>1. Returned(c, r).op \in {r.op, "UnicodeDecodeError"}
    BY <1>4 DEF Returned
  <2> QED BY <1>1, <2>1
<1> QED BY <1>2, <1>3, <1>4

(* Whatever the client makes of an answer, it is then done with it. *)
LEMMA ReturnAnswers ==
  ASSUME RequestInv, AnswerInv, Return \/ FailToParse
  PROVE  AnswerInv'
<1>1. conn # NoConnection /\ call[conn] \in Calls /\ answer \in AnswerParsers
  BY DEF RequestInv, ConnectionsMatch, TypeOK, Return, FailToParse
<1>2. CASE Return
  <2>1. EndCall(Returned(call[conn], answer))
    BY <1>2 DEF Return
  <2> QED BY <1>1, <2>1, ReturnedIsUnderstood, EndCallAnswers
<1>3. CASE FailToParse
  <2>1. EndCall([op |-> "FailedToParseMessage", cut |-> answer.cut]) /\ answer.next = "error"
    BY <1>3 DEF FailToParse
  <2>2. answer.cut
    BY <1>1, <2>1 DEF AnswerInv, AnswerMatches, AnswerFieldsMatch
  <2> QED BY <1>1, <2>1, <2>2, EndCallAnswers
<1> QED BY <1>2, <1>3

(* All steps keep the invariant. *)
LEMMA AnswerInvNext ==
  ASSUME OneByteCharacters
  PROVE  RequestInv /\ AnswerInv /\ [Next]_vars => AnswerInv'
<1> SUFFICES ASSUME RequestInv, AnswerInv, [Next]_vars
             PROVE  AnswerInv'
  OBVIOUS
<1>1. ASSUME NEW c \in Calls, FailToPack(c)
      PROVE  AnswerInv'
  BY <1>1 DEF FailToPack, AnswerInv, ParsedUnlessCut
<1>2. ASSUME NEW c \in Calls, NEW d \in Connections, SendRequest(d, c)
      PROVE  AnswerInv'
  BY <1>2, SendAnswers
<1>3. CASE Break
  BY <1>3, BreakAnswers
<1>4. ASSUME NEW d \in Connections, ServerStep(d)
      PROVE  AnswerInv'
  BY <1>4, ReadAnswers, LoseAnswers, AnswerAnswers DEF ServerStep, Answers
<1>5. CASE ClientStep
  BY <1>5, ReceiveAnswers, EndOfAnswers, ReturnAnswers DEF ClientStep
<1>6. CASE UNCHANGED vars
  BY <1>6 DEF vars, AnswerInv, ParsedUnlessCut
<1> QED BY <1>1, <1>2, <1>3, <1>4, <1>5, <1>6 DEF Next

(* The answers on their way are always those of the calls. *)
THEOREM AnswersMatch ==
  ASSUME OneByteCharacters
  PROVE  Spec => []AnswerInv
<1>1. RequestInv /\ AnswerInv /\ [Next]_vars => AnswerInv'
  BY AnswerInvNext
<1> QED BY <1>1, AnswerInvInit, RequestsMatch, PTL DEF Spec

-----------------------------------------------------------------------------
(* The invariant of the acknowledged backups *)

(* c changes the file of a name when it is performed. *)
Changes(c, name) == c.op \in {"BACKUP_FILE", "DELETE_FILE"} /\ c.name = name

StoredAs(name, payload) ==
  Encoded(name) \in DOMAIN files /\ files[Encoded(name)] = Encoded(payload)

(* No other call that is yet to be performed changes the file. *)
Settled(name) == \A d \in Connections \ {conn} : ~Changes(call[d], name)

(* The client is deleting the file, and the server has done so. *)
Deleted(name) ==
  /\ conn # NoConnection
  /\ call[conn].op = "DELETE_FILE" /\ call[conn].name = name
  /\ decided[conn].op = "SUCCESSFUL_BACKUP_OR_DELETE"

(* An acknowledged backup is on the disk until its file is deleted. *)
KeptAreStored ==
  \A n \in DOMAIN kept :
    /\ Len(kept[n]) < Limit32 /\ kept[n] \in Seq(Characters)
    /\ Settled(n)
    /\ StoredAs(n, kept[n]) \/ Deleted(n)

(* So is one that is about to be acknowledged. *)
BackupIsStored ==
  conn # NoConnection /\ call[conn].op = "BACKUP_FILE" /\ ~disputed =>
    /\ CanPack(call[conn]) /\ Settled(call[conn].name)
    /\ decided[conn].op = "SUCCESSFUL_BACKUP_OR_DELETE" =>
         StoredAs(call[conn].name, call[conn].payload)

(* A file on its way to the client is the one that was acknowledged. *)
RestoreIsKept ==
  conn # NoConnection /\ call[conn].op = "RESTORE_FILE"
      /\ decided[conn].op = "SUCCESSFUL_RESTORE" /\ call[conn].name \in DOMAIN kept =>
    decided[conn].payload = Encoded(kept[call[conn].name])

KeptInv == KeptAreStored /\ BackupIsStored /\ RestoreIsKept /\ RestoredIsBackedUp

-----------------------------------------------------------------------------
(* The steps and the acknowledged backups *)

(* Where every character is one byte different names have different files. *)
LEMMA EncodedDiffer ==
  ASSUME OneByteCharacters, NEW s \in Seq(Characters), NEW t \in Seq(Characters),
         Encoded(s) = Encoded(t)
  PROVE  s = t
<1>1. /\ Len(s) = Len(t) /\ OneByteText(s) /\ OneByteText(t)
      /\ Encoded(s) = [i \in 1 .. Len(s) |-> s[i][1]]
      /\ Encoded(t) = [i \in 1 .. Len(t) |-> t[i][1]]
  BY CharactersAreOneByte
<1>2. ASSUME NEW i \in 1 .. Len(s)
      PROVE  s[i] = t[i]
  <2>1. s[i][1] = t[i][1]
    <3>1. PICK g : g = Encoded(s)
      OBVIOUS
    <3>2. g[i] = s[i][1] /\ g[i] = t[i][1]
      <4>1. g = [j \in 1 .. Len(s) |-> s[j][1]] /\ g = [j \in 1 .. Len(s) |-> t[j][1]]
        BY <1>1, <3>1
      <4> QED BY <4>1
    <3> QED BY <3>2
  <2>2. /\ s[i] \in Seq(Bytes) /\ Len(s[i]) = 1
        /\ t[i] \in Seq(Bytes) /\ Len(t[i]) = 1
    BY <1>1 DEF OneByteText
  <2>3. \A j \in 1 .. 1 : s[i][j] = t[i][j]
    BY <2>1
  <2> QED BY <2>2, <2>3, SeqEqual
<1> QED BY <1>1, <1>2, SeqEqual

(* What the end of the session of d with r does to the files: it takes     *)
(* none away and changes none, but for the one it deletes with success.    *)
Effect(d, r) ==
  /\ EndSession(d, r)
  /\ \A n \in DOMAIN files :
       \/ n \in DOMAIN files' /\ files'[n] = files[n]
       \/ /\ call[d].op = "DELETE_FILE" /\ n = Encoded(call[d].name)
          /\ r.op = "SUCCESSFUL_BACKUP_OR_DELETE"
  /\ call[d].op = "BACKUP_FILE" /\ r.op = "SUCCESSFUL_BACKUP_OR_DELETE" =>
       /\ Encoded(call[d].name) \in DOMAIN files'
       /\ files'[Encoded(call[d].name)] = Encoded(call[d].payload)
  /\ call[d].op = "RESTORE_FILE" /\ r.op = "SUCCESSFUL_RESTORE" =>
       /\ Encoded(call[d].name) \in DOMAIN files
       /\ r.payload = files[Encoded(call[d].name)]

(* The handlers do what the client has asked for. *)
LEMMA HandlersHaveEffect ==
  ASSUME OneByteCharacters, RequestInv, NEW d \in Connections, Answers(d) \/ LoseRequest(d)
  PROVE  \E r : Effect(d, r)
<1>1. CASE LoseRequest(d)
  <2>1. Effect(d, [op |-> "lost"])
    BY <1>1 DEF LoseRequest, Effect, disk
  <2> QED BY <2>1
<1>2. CASE RejectRequest(d)
  <2>1. Effect(d, [op |-> "SERVER_ERROR"])
    BY <1>2 DEF RejectRequest, Answer, Effect, disk
  <2> QED BY <2>1
<1>3. CASE BackUpFile(d)
  <2>1. /\ call[d].op = "BACKUP_FILE" /\ read[d].name = Encoded(call[d].name)
        /\ call[d] \in Calls /\ CanPack(call[d])
    BY <1>3, NamesAreGood DEF BackUpFile, Handles
  <2>2. read[d].payload = Encoded(call[d].payload)
    <3>1. FieldsMatch(call[d], read[d]) /\ read[d].next = "handle"
      BY <1>3 DEF BackUpFile, Handles, RequestInv, RequestMatches
    <3>2. read[d].payload = PayloadField(call[d])
      BY <2>1, <3>1 DEF FieldsMatch
    <3> QED BY <2>1, <3>2, FieldsAreTexts
  <2> DEFINE n == read[d].name
  <2>3. CASE n \in DOMAIN files
    <3>1. files' = files /\ EndSession(d, [op |-> "SERVER_ERROR"])
      BY <1>3, <2>3 DEF BackUpFile, Answer
    <3>2. Effect(d, [op |-> "SERVER_ERROR"])
      BY <2>1, <3>1 DEF Effect
    <3> QED BY <3>2
  <2>4. CASE n \notin DOMAIN files
    <3> DEFINE r == [op |-> "SUCCESSFUL_BACKUP_OR_DELETE", name |-> n]
    <3>1. files' = Stored(files, n, read[d].payload) /\ EndSession(d, r)
      BY <1>3, <2>4 DEF BackUpFile, Answer
    <3>2. /\ \A m \in DOMAIN files : m \in DOMAIN files' /\ files'[m] = files[m]
          /\ n \in DOMAIN files' /\ files'[n] = read[d].payload
      <4> HIDE DEF n
      <4>1. PICK p : p = read[d].payload
        OBVIOUS
      <4>2. /\ DOMAIN files' = DOMAIN files \cup {n} /\ files'[n] = p
            /\ \A m \in DOMAIN files : m # n => files'[m] = files[m]
        BY <3>1, <4>1 DEF Stored
      <4> QED BY <2>4, <4>1, <4>2
    <3>3. Effect(d, r)
      BY <2>1, <2>2, <3>1, <3>2 DEF Effect
    <3> QED BY <3>3
  <2> QED BY <2>3, <2>4
<1>4. CASE RestoreFile(d)
  <2>1. call[d].op = "RESTORE_FILE" /\ read[d].name = Encoded(call[d].name)
    BY <1>4, NamesAreGood DEF RestoreFile, Handles
  <2>2. PICK r : /\ EndSession(d, r)
                 /\ r = IF ~known THEN [op |-> "SERVER_ERROR"]
                        ELSE IF read[d].name \in DOMAIN files
                          THEN [op |-> "SUCCESSFUL_RESTORE", name |-> read[d].name,
                                payload |-> files[read[d].name]]
                          ELSE [op |-> "FILE_NOT_FOUND", name |-> read[d].name]
    BY <1>4 DEF RestoreFile, Answer
  <2>3. r.op = "SUCCESSFUL_RESTORE" =>
          read[d].name \in DOMAIN files /\ r.payload = files[read[d].name]
    BY <2>2
  <2>4. files' = files
    BY <1>4 DEF RestoreFile, disk
  <2>5. Effect(d, r)
    BY <2>1, <2>2, <2>3, <2>4 DEF Effect
  <2> QED BY <2>5
<1>5. CASE DeleteFile(d)
  <2>1. call[d].op = "DELETE_FILE" /\ read[d].name = Encoded(call[d].name)
    BY <1>5, NamesAreGood DEF DeleteFile, Handles
  <2> DEFINE n == read[d].name
  <2>2. files' = IF known THEN Without(files, n) ELSE files
    BY <1>5 DEF DeleteFile
  <2>3. \A m \in DOMAIN files : m # n => m \in DOMAIN files' /\ files'[m] = files[m]
    <3> HIDE DEF n
    <3>1. PICK g : g = Without(files, n)
      OBVIOUS
    <3>2. /\ DOMAIN g = DOMAIN files \ {n}
          /\ \A m \in DOMAIN files : m # n => g[m] = files[m]
      BY <3>1, SmallerDirectory
    <3>3. files' = g \/ files' = files
      BY <2>2, <3>1
    <3> QED BY <3>2, <3>3
  <2>4. PICK r : /\ EndSession(d, r)
                 /\ r = IF ~known \/ n \notin DOMAIN files THEN [op |-> "SERVER_ERROR"]
                        ELSE [op |-> "SUCCESSFUL_BACKUP_OR_DELETE", name |-> n]
    BY <1>5 DEF DeleteFile, Answer
  <2>5. known /\ n \in DOMAIN files => r.op = "SUCCESSFUL_BACKUP_OR_DELETE"
    BY <2>4
  <2> HIDE DEF n
  <2>6. \A m \in DOMAIN files :
          \/ m \in DOMAIN files' /\ files'[m] = files[m]
          \/ m = n /\ r.op = "SUCCESSFUL_BACKUP_OR_DELETE"
    <3>1. CASE known
      BY <2>3, <2>5, <3>1
    <3>2. CASE ~known
      BY <2>2, <3>2
    <3> QED BY <3>1, <3>2
  <2>7. Effect(d, r)
    BY <2>1, <2>4, <2>6 DEF Effect, n
  <2> QED BY <2>7
<1>6. CASE ListFiles(d)
  <2>1. call[d].op = "LIST_FILES"
    <3>1. FieldsMatch(call[d], read[d]) /\ read[d].next = "handle" /\ read[d].op = "LIST_FILES"
      BY <1>6 DEF ListFiles, Handles, RequestInv, RequestMatches
    <3> QED BY <3>1 DEF FieldsMatch
  <2>2. PICK r : EndSession(d, r)
    BY <1>6 DEF ListFiles, Answer
  <2>3. files' = files
    BY <1>6 DEF ListFiles, disk
  <2>4. Effect(d, r)
    BY <2>1, <2>2, <2>3 DEF Effect
  <2> QED BY <2>4
<1> QED BY <1>1, <1>2, <1>3, <1>4, <1>5, <1>6 DEF Answers

(* Nothing is changed by what is no call. *)
LEMMA NoneChangesNothing == \A n : ~Changes(None, n)
BY DEF Changes, None

(* At first nothing has been acknowledged. *)
LEMMA KeptInvInit == Init => KeptInv
<1> SUFFICES ASSUME Init PROVE KeptInv
  OBVIOUS
<1>1. DOMAIN kept = {}
  BY DEF Init
<1>2. KeptAreStored
  BY <1>1 DEF KeptAreStored
<1>3. conn = NoConnection
  BY DEF Init
<1>4. BackupIsStored /\ RestoreIsKept
  BY <1>3 DEF BackupIsStored, RestoreIsKept
<1>5. RestoredIsBackedUp
  BY DEF Init, RestoredIsBackedUp, None
<1> QED BY <1>2, <1>4, <1>5 DEF KeptInv

(* Steps that leave the calls, the responses and the files alone *)
LEMMA SameKept ==
  ASSUME KeptInv, UNCHANGED <<conn, call, files, decided, disputed, kept>>, RestoredIsBackedUp'
  PROVE  KeptInv'
<1> USE DEF KeptInv
<1>1. KeptAreStored'
  BY DEF KeptAreStored, Settled, StoredAs, Deleted
<1>2. BackupIsStored'
  BY DEF BackupIsStored, Settled, StoredAs
<1>3. RestoreIsKept'
  BY DEF RestoreIsKept
<1> QED BY <1>1, <1>2, <1>3

(* A new call disputes no acknowledged backup: it is the client's own. *)
LEMMA SendKept ==
  ASSUME RequestInv, AnswerInv, KeptInv, NEW c \in Calls, NEW d \in Connections, SendRequest(d, c)
  PROVE  KeptInv'
<1>1. /\ conn = NoConnection /\ conn' = d /\ d # NoConnection /\ NoConnection \notin Connections
      /\ call'[d] = c /\ CanPack(c)
      /\ disputed' = (c.op = "BACKUP_FILE" /\ Disputed(d, c.name))
      /\ files' = files /\ kept' = kept
  BY WireAssumption DEF SendRequest, RequestInv, TypeOK, disk
<1>2. \A e \in Connections \ {d} : call'[e] = call[e]
  BY DEF SendRequest, RequestInv, TypeOK
<1>3. decided'[d].op = "none"
  BY <1>1 DEF SendRequest, AnswerInv, None
<1>4. KeptAreStored'
  <2> SUFFICES ASSUME NEW n \in DOMAIN kept
               PROVE  /\ Len(kept[n]) < Limit32 /\ kept[n] \in Seq(Characters)
                      /\ Settled(n)' /\ StoredAs(n, kept[n])'
    BY <1>1 DEF KeptAreStored
  <2>1. /\ Len(kept[n]) < Limit32 /\ kept[n] \in Seq(Characters)
        /\ Settled(n) /\ (StoredAs(n, kept[n]) \/ Deleted(n))
    BY DEF KeptInv, KeptAreStored
  <2>2. Settled(n)'
    BY <1>1, <1>2, <2>1 DEF Settled, Changes
  <2>3. StoredAs(n, kept[n])'
    BY <1>1, <2>1 DEF StoredAs, Deleted
  <2> QED BY <2>1, <2>2, <2>3
<1>5. BackupIsStored'
  <2> SUFFICES ASSUME c.op = "BACKUP_FILE", ~disputed'
               PROVE  \A e \in Connections \ {d} : ~Changes(call'[e], c.name)
    BY <1>1, <1>3 DEF BackupIsStored, Settled, CanPack
  <2> QED BY <1>1, <1>2 DEF Disputed, Changes
<1>6. RestoreIsKept'
  BY <1>1, <1>3 DEF RestoreIsKept
<1>7. RestoredIsBackedUp'
  BY DEF SendRequest, RestoredIsBackedUp, None
<1> QED BY <1>4, <1>5, <1>6, <1>7 DEF KeptInv

(* What the server does for one call keeps the backups of the others.      *)
LEMMA EffectKept ==
  ASSUME OneByteCharacters, RequestInv, AnswerInv, KeptInv,
         NEW d \in Connections, read[d].next # "none", NEW r, Effect(d, r)
  PROVE  KeptInv'
<1>1. UNCHANGED <<conn, result, of, disputed, kept>>
  BY DEF Effect, EndSession, history
<1>2. conn # NoConnection => conn \in Connections
  BY DEF RequestInv, TypeOK
<1>3. conn # NoConnection => call'[conn] = call[conn]
  BY <1>2 DEF Effect, EndSession, RequestInv, TypeOK
<1>4. d = conn => conn # NoConnection /\ decided[conn] = None /\ decided'[conn] = r
  BY <1>2, WireAssumption DEF Effect, EndSession, AnswerInv
<1>5. d # conn => decided' = decided
  BY DEF Effect, EndSession
<1>6. ASSUME NEW n, Settled(n)
      PROVE  Settled(n)'
  <2>1. \A e \in Connections : call'[e] = call[e] \/ call'[e] = None
    BY DEF Effect, EndSession, RequestInv, TypeOK
  <2> QED BY <1>1, <1>6, <2>1, NoneChangesNothing DEF Settled
<1>7. ASSUME NEW n \in Seq(Characters), NEW p, StoredAs(n, p)
      PROVE  \/ StoredAs(n, p)'
             \/ /\ call[d].op = "DELETE_FILE" /\ call[d].name = n
                /\ r.op = "SUCCESSFUL_BACKUP_OR_DELETE"
  <2>1. CASE Encoded(n) \in DOMAIN files' /\ files'[Encoded(n)] = files[Encoded(n)]
    BY <1>7, <2>1 DEF StoredAs
  <2>2. CASE /\ call[d].op = "DELETE_FILE" /\ Encoded(n) = Encoded(call[d].name)
             /\ r.op = "SUCCESSFUL_BACKUP_OR_DELETE"
    <3>1. call[d] \in Calls
      BY <2>2 DEF RequestInv, TypeOK, None
    <3>2. call[d].name \in Seq(Characters)
      BY <2>2, <3>1, CallFields, TextsAre
    <3>3. n = call[d].name
      BY <2>2, <3>2, EncodedDiffer
    <3> QED BY <2>2, <3>3
  <2> QED BY <1>7, <2>1, <2>2 DEF Effect, StoredAs
<1>8. KeptAreStored'
  <2> SUFFICES ASSUME NEW n \in DOMAIN kept
               PROVE  /\ Len(kept[n]) < Limit32 /\ kept[n] \in Seq(Characters)
                      /\ Settled(n)' /\ (StoredAs(n, kept[n])' \/ Deleted(n)')
    BY <1>1 DEF KeptAreStored
  <2>1. /\ Len(kept[n]) < Limit32 /\ kept[n] \in Seq(Characters)
        /\ Settled(n) /\ (StoredAs(n, kept[n]) \/ Deleted(n))
    BY DEF KeptInv, KeptAreStored
  <2>2. n \in Seq(Characters)
    BY TextsAre DEF RequestInv, TypeOK
  <2>3. CASE d # conn
    <3>1. Deleted(n) => Deleted(n)'
      BY <1>1, <1>3, <1>5, <2>3 DEF Deleted
    <3>2. StoredAs(n, kept[n]) => StoredAs(n, kept[n])'
      <4>1. ~Changes(call[d], n)
        BY <2>1, <2>3 DEF Settled
      <4> QED BY <1>1, <1>7, <2>2, <4>1 DEF Changes
    <3> QED BY <1>6, <2>1, <3>1, <3>2
  <2>4. CASE d = conn
    <3>1. StoredAs(n, kept[n])
      BY <1>4, <2>1, <2>4 DEF Deleted, None
    <3>2. \/ StoredAs(n, kept[n])'
          \/ /\ call[d].op = "DELETE_FILE" /\ call[d].name = n
             /\ r.op = "SUCCESSFUL_BACKUP_OR_DELETE"
      BY <1>1, <1>7, <2>2, <3>1
    <3>3. StoredAs(n, kept[n])' \/ Deleted(n)'
      BY <1>1, <1>3, <1>4, <2>4, <3>2 DEF Deleted
    <3> QED BY <1>6, <2>1, <3>3
  <2> QED BY <2>3, <2>4
<1>9. BackupIsStored'
  <2> SUFFICES ASSUME conn # NoConnection, call[conn].op = "BACKUP_FILE", ~disputed,
                      NEW n, NEW p, n = call[conn].name, p = call[conn].payload
               PROVE  /\ CanPack(call[conn]) /\ Settled(n)'
                      /\ decided'[conn].op = "SUCCESSFUL_BACKUP_OR_DELETE" => StoredAs(n, p)'
    BY <1>1, <1>3 DEF BackupIsStored, CanPack, Settled, StoredAs
  <2>1. /\ CanPack(call[conn]) /\ Settled(n)
        /\ decided[conn].op = "SUCCESSFUL_BACKUP_OR_DELETE" => StoredAs(n, p)
    BY DEF KeptInv, BackupIsStored
  <2>2. ASSUME d # conn, decided'[conn].op = "SUCCESSFUL_BACKUP_OR_DELETE"
        PROVE  StoredAs(n, p)'
    <3>1. StoredAs(n, p) /\ ~Changes(call[d], n)
      BY <1>5, <2>1, <2>2 DEF Settled
    <3>2. n \in Seq(Characters)
      BY <1>2, CallFields, TextsAre DEF RequestInv, ConnectionsMatch
    <3> QED BY <1>7, <3>1, <3>2 DEF Changes
  <2>3. ASSUME d = conn, decided'[conn].op = "SUCCESSFUL_BACKUP_OR_DELETE"
        PROVE  StoredAs(n, p)'
    BY <1>4, <2>3 DEF Effect, StoredAs
  <2> QED BY <1>6, <2>1, <2>2, <2>3
<1>10. RestoreIsKept'
  <2> SUFFICES ASSUME conn # NoConnection, call[conn].op = "RESTORE_FILE",
                      decided'[conn].op = "SUCCESSFUL_RESTORE", call[conn].name \in DOMAIN kept
               PROVE  decided'[conn].payload = Encoded(kept[call[conn].name])
    BY <1>1, <1>3 DEF RestoreIsKept
  <2>1. CASE d # conn
    BY <1>5, <2>1 DEF KeptInv, RestoreIsKept
  <2>2. CASE d = conn
    <3>1. decided'[conn].payload = files[Encoded(call[conn].name)]
      BY <1>4, <2>2 DEF Effect
    <3>2. StoredAs(call[conn].name, kept[call[conn].name])
      BY <1>4, <2>2 DEF KeptInv, KeptAreStored, Deleted, None
    <3> QED BY <3>1, <3>2 DEF StoredAs
  <2> QED BY <2>1, <2>2
<1>11. RestoredIsBackedUp'
  BY <1>1 DEF KeptInv, RestoredIsBackedUp
<1> QED BY <1>8, <1>9, <1>10, <1>11 DEF KeptInv

(* Every session that is not idle ends with an effect. *)
LEMMA ServerKept ==
  ASSUME OneByteCharacters, RequestInv, AnswerInv, KeptInv,
         NEW d \in Connections, Answers(d) \/ LoseRequest(d)
  PROVE  KeptInv'
<1>1. read[d].next # "none"
  BY DEF Answers, RejectRequest, BackUpFile, RestoreFile, DeleteFile, ListFiles, Handles,
         LoseRequest, Reading
<1>2. PICK r : Effect(d, r)
  BY HandlersHaveEffect
<1> QED BY <1>1, <1>2, EffectKept

(* When the client ends a call, the backups it goes on to rely on are ones *)
(* that this call, if the server still has it, does not change.            *)
LEMMA EndCallKept ==
  ASSUME RequestInv, conn # NoConnection, NEW r, EndCall(r), RestoredIsBackedUp',
         \A n \in DOMAIN kept' :
           /\ Len(kept'[n]) < Limit32 /\ kept'[n] \in Seq(Characters)
           /\ Settled(n) /\ StoredAs(n, kept'[n]) /\ ~Changes(call'[conn], n)
  PROVE  KeptInv'
<1>1. conn' = NoConnection /\ files' = files
  BY DEF EndCall, disk
<1>2. \A d \in Connections \ {conn} : call'[d] = call[d]
  BY DEF EndCall, RequestInv, TypeOK
<1>3. KeptAreStored'
  <2> SUFFICES ASSUME NEW n \in DOMAIN kept'
               PROVE  /\ Len(kept'[n]) < Limit32 /\ kept'[n] \in Seq(Characters)
                      /\ Settled(n)' /\ StoredAs(n, kept[n])'
    BY DEF KeptAreStored
  <2>1. \A d \in Connections : ~Changes(call'[d], n)
    BY <1>2 DEF Settled
  <2>2. Settled(n)'
    BY <2>1 DEF Settled, Changes
  <2>3. StoredAs(n, kept[n])'
    BY <1>1 DEF StoredAs
  <2> QED BY <2>2, <2>3
<1>4. BackupIsStored' /\ RestoreIsKept'
  BY <1>1 DEF BackupIsStored, RestoreIsKept
<1> QED BY <1>3, <1>4 DEF KeptInv

(* What a method returns as the content of a file is what it has received. *)
LEMMA ReturnedFile ==
  ASSUME NEW c \in Calls, NEW a, Returned(c, a).op = "SUCCESSFUL_RESTORE"
  PROVE  /\ c.op = "RESTORE_FILE" /\ a.op = "SUCCESSFUL_RESTORE"
         /\ Returned(c, a).payload = a.payload
<1>1. c.op \in {"LIST_FILES", "RESTORE_FILE", "DELETE_FILE", "BACKUP_FILE"}
  BY CallFields, WireAssumption
<1>2. ~(a.op \in Errors) /\ ~(a.op \notin Errors \cup {ExpectedOp(c)})
  BY DEF Returned, Errors
<1>3. a.op = ExpectedOp(c) /\ a.op \notin Errors
  BY <1>2
<1>4. a.op = "SUCCESSFUL_RESTORE"
  BY <1>1, <1>3 DEF Returned
<1>5. c.op = "RESTORE_FILE"
  BY <1>1, <1>3, <1>4 DEF ExpectedOp
<1> QED BY <1>3, <1>4, <1>5 DEF Returned

(* An answer that is read in full is the server's, which is done then. *)
LEMMA AnswerIsDecided ==
  ASSUME RequestInv, AnswerInv, conn # NoConnection, answer.next = "done"
  PROVE  /\ conn \in Connections /\ read[conn] = Idle
         /\ AnswerFieldsMatch(decided[conn], answer) /\ answer.op = decided[conn].op
<1>1. conn \in Connections
  BY DEF RequestInv, TypeOK
<1>2. decided[conn] \in Responses(GoodNames) /\ AnswerFieldsMatch(decided[conn], answer)
  BY DEF AnswerInv, AnswerMatches
<1>3. read[conn].next = "none"
  BY <1>2, ResponsesDiffer DEF AnswerInv
<1> QED BY <1>1, <1>2, <1>3 DEF AnswerFieldsMatch, RequestInv, RequestMatches

(* What the client keeps after an answer is what the server has stored. *)
LEMMA ReturnKept ==
  ASSUME OneByteCharacters, RequestInv, AnswerInv, KeptInv, Return
  PROVE  KeptInv'
<1>1. conn # NoConnection /\ answer.next = "done"
  BY DEF RequestInv, ConnectionsMatch, Return
<1>2. /\ conn \in Connections /\ read[conn] = Idle /\ call[conn] \in Calls
      /\ AnswerFieldsMatch(decided[conn], answer) /\ answer.op = decided[conn].op
  BY <1>1, AnswerIsDecided DEF RequestInv, ConnectionsMatch
<1>3. EndCall(Returned(call[conn], answer)) /\ of' = call[conn]
  BY DEF Return
<1>4. call'[conn] = None
  BY <1>2, <1>3 DEF EndCall, RequestInv, TypeOK
<1>5. \/ answer.op # "SUCCESSFUL_BACKUP_OR_DELETE" /\ kept' = kept
      \/ /\ answer.op = "SUCCESSFUL_BACKUP_OR_DELETE"
         /\ kept' = Without(kept, call[conn].name)
      \/ /\ answer.op = "SUCCESSFUL_BACKUP_OR_DELETE"
         /\ call[conn].op = "BACKUP_FILE" /\ ~disputed
         /\ kept' = Stored(kept, call[conn].name, call[conn].payload)
  BY DEF Return, Forget
<1>6. ASSUME NEW n \in DOMAIN kept, ~Deleted(n)
      PROVE  /\ Len(kept[n]) < Limit32 /\ kept[n] \in Seq(Characters)
             /\ Settled(n) /\ StoredAs(n, kept[n]) /\ ~Changes(call'[conn], n)
  BY <1>4, <1>6, NoneChangesNothing DEF KeptInv, KeptAreStored
<1>7. ASSUME NEW n \in DOMAIN kept'
      PROVE  /\ Len(kept'[n]) < Limit32 /\ kept'[n] \in Seq(Characters)
             /\ Settled(n) /\ StoredAs(n, kept'[n]) /\ ~Changes(call'[conn], n)
  <2>1. CASE answer.op # "SUCCESSFUL_BACKUP_OR_DELETE" /\ kept' = kept
    <3>1. ~Deleted(n)
      BY <1>2, <2>1 DEF Deleted
    <3> QED BY <1>6, <2>1, <3>1
  <2>2. CASE kept' = Without(kept, call[conn].name)
    <3>1. n \in DOMAIN kept /\ n # call[conn].name /\ kept'[n] = kept[n]
      <4>1. PICK m : m = call[conn].name
        OBVIOUS
      <4>2. /\ DOMAIN kept' = DOMAIN kept \ {m}
            /\ \A k \in DOMAIN kept : k # m => kept'[k] = kept[k]
        BY <2>2, <4>1, SmallerDirectory
      <4> QED BY <4>1, <4>2
    <3>2. ~Deleted(n)
      BY <3>1 DEF Deleted
    <3> QED BY <1>6, <3>1, <3>2
  <2>3. CASE /\ answer.op = "SUCCESSFUL_BACKUP_OR_DELETE"
             /\ call[conn].op = "BACKUP_FILE" /\ ~disputed
             /\ kept' = Stored(kept, call[conn].name, call[conn].payload)
    <3>1. PICK m, p : m = call[conn].name /\ p = call[conn].payload
      OBVIOUS
    <3>2. /\ DOMAIN kept' = DOMAIN kept \cup {m} /\ kept'[m] = p
          /\ \A k \in DOMAIN kept : k # m => kept'[k] = kept[k]
      BY <2>3, <3>1 DEF Stored
    <3>3. CASE n = m
      <4>1. Settled(m) /\ StoredAs(m, p) /\ CanPack(call[conn])
        BY <1>1, <1>2, <2>3, <3>1 DEF KeptInv, BackupIsStored
      <4>2. Len(p) < Limit32 /\ p \in Seq(Characters)
        BY <1>2, <2>3, <3>1, <4>1, FieldsAreTexts DEF CanPack
      <4>3. ~Changes(call'[conn], m)
        BY <1>4, NoneChangesNothing
      <4> QED BY <3>2, <3>3, <4>1, <4>2, <4>3
    <3>4. CASE n # m
      <4>1. n \in DOMAIN kept /\ kept'[n] = kept[n]
        BY <3>2, <3>4
      <4>2. ~Deleted(n)
        BY <2>3 DEF Deleted
      <4> QED BY <1>6, <4>1, <4>2
    <3> QED BY <3>3, <3>4
  <2> QED BY <1>5, <2>1, <2>2, <2>3
<1>8. RestoredIsBackedUp'
  <2> SUFFICES ASSUME result'.op = "SUCCESSFUL_RESTORE", of'.name \in DOMAIN kept'
               PROVE  result'.payload = Encoded(kept'[of'.name])
    BY DEF RestoredIsBackedUp
  <2>1. result' = Returned(call[conn], answer)
    BY <1>3 DEF EndCall
  <2>2. /\ call[conn].op = "RESTORE_FILE" /\ answer.op = "SUCCESSFUL_RESTORE"
        /\ result'.payload = answer.payload
    BY <1>2, <2>1, ReturnedFile
  <2>3. kept' = kept
    BY <1>5, <2>2
  <2>4. PICK n : n = call[conn].name
    OBVIOUS
  <2>5. n \in DOMAIN kept /\ of'.name = n
    BY <1>3, <2>3, <2>4
  <2>6. decided[conn].payload = Encoded(kept[n])
    BY <1>1, <1>2, <2>2, <2>4, <2>5 DEF KeptInv, RestoreIsKept
  <2>7. Len(Encoded(kept[n])) < Limit32
    <3>1. Len(kept[n]) < Limit32 /\ kept[n] \in Seq(Characters)
      BY <2>5 DEF KeptInv, KeptAreStored
    <3> QED BY <3>1, CharactersAreOneByte
  <2>8. answer.payload = decided[conn].payload
    BY <1>1, <1>2, <2>2, <2>6, <2>7 DEF AnswerFieldsMatch, WithFile
  <2> QED BY <2>2, <2>3, <2>5, <2>6, <2>8
<1> QED BY <1>1, <1>3, <1>7, <1>8, EndCallKept

(* Nor does the client keep what a call that failed may change. *)
LEMMA FailKept ==
  ASSUME RequestInv, AnswerInv, KeptInv, FailToParse
  PROVE  KeptInv'
<1>1. conn # NoConnection /\ conn \in Connections
  BY DEF RequestInv, ConnectionsMatch, TypeOK, FailToParse
<1>2. EndCall([op |-> "FailedToParseMessage", cut |-> answer.cut])
  BY DEF FailToParse
<1>3. call'[conn] \in {call[conn], None}
  BY <1>1, <1>2 DEF EndCall, RequestInv, TypeOK
<1>4. ASSUME NEW n \in DOMAIN kept'
      PROVE  n \in DOMAIN kept /\ kept'[n] = kept[n] /\ ~Changes(call[conn], n)
  <2>1. CASE call[conn].op \in {"BACKUP_FILE", "DELETE_FILE"}
    <3>1. PICK m : m = call[conn].name
      OBVIOUS
    <3>2. kept' = Without(kept, m)
      BY <2>1, <3>1 DEF FailToParse, Forget
    <3>3. /\ DOMAIN kept' = DOMAIN kept \ {m}
          /\ \A k \in DOMAIN kept : k # m => kept'[k] = kept[k]
      BY <3>2, SmallerDirectory
    <3> QED BY <3>1, <3>3 DEF Changes
  <2>2. CASE call[conn].op \notin {"BACKUP_FILE", "DELETE_FILE"}
    BY <2>2 DEF FailToParse, Changes
  <2> QED BY <2>1, <2>2
<1>5. ASSUME NEW n \in DOMAIN kept'
      PROVE  /\ Len(kept'[n]) < Limit32 /\ kept'[n] \in Seq(Characters)
             /\ Settled(n) /\ StoredAs(n, kept'[n]) /\ ~Changes(call'[conn], n)
  <2>1. n \in DOMAIN kept /\ kept'[n] = kept[n] /\ ~Changes(call[conn], n)
    BY <1>4
  <2>2. ~Deleted(n) /\ ~Changes(call'[conn], n)
    BY <1>3, <2>1, NoneChangesNothing DEF Deleted, Changes
  <2> QED BY <2>1, <2>2 DEF KeptInv, KeptAreStored
<1>6. RestoredIsBackedUp'
  BY <1>2 DEF EndCall, RestoredIsBackedUp
<1> QED BY <1>1, <1>2, <1>5, <1>6, EndCallKept

(* All steps keep the invariant. *)
LEMMA KeptInvNext ==
  ASSUME OneByteCharacters
  PROVE  RequestInv /\ AnswerInv /\ KeptInv /\ [Next]_vars => KeptInv'
<1> SUFFICES ASSUME RequestInv, AnswerInv, KeptInv, [Next]_vars
             PROVE  KeptInv'
  OBVIOUS
<1>1. RestoredIsBackedUp
  BY DEF KeptInv
<1>2. ASSUME NEW c \in Calls, FailToPack(c)
      PROVE  KeptInv'
  <2>1. RestoredIsBackedUp'
    BY <1>2 DEF FailToPack, RestoredIsBackedUp
  <2> QED BY <1>2, <2>1, SameKept DEF FailToPack, disk
<1>3. ASSUME NEW c \in Calls, NEW d \in Connections, SendRequest(d, c)
      PROVE  KeptInv'
  BY <1>3, SendKept
<1>4. CASE Break \/ ReceiveField \/ ReceiveEnd \/ UNCHANGED vars
               \/ \E d \in Connections : ReadField(d)
  <2>1. UNCHANGED <<conn, call, files, decided, disputed, kept, result, of>>
    BY <1>4 DEF Break, ReceiveField, ReceiveEnd, ReadField, vars, disk, history
  <2>2. RestoredIsBackedUp'
    BY <1>1, <2>1 DEF RestoredIsBackedUp
  <2> QED BY <2>1, <2>2, SameKept
<1>5. ASSUME NEW d \in Connections, ServerStep(d)
      PROVE  KeptInv'
  BY <1>4, <1>5, ServerKept DEF ServerStep, Answers
<1>6. CASE ClientStep
  BY <1>4, <1>6, ReturnKept, FailKept DEF ClientStep
<1> QED BY <1>2, <1>3, <1>4, <1>5, <1>6 DEF Next

(* A restored file is the one whose backup was acknowledged, whatever      *)
(* happened to other calls on other connections, if every character is one *)
(* byte.                                                                   *)
THEOREM RestoredAreBackedUp ==
  ASSUME OneByteCharacters
  PROVE  Spec => []RestoredIsBackedUp
<1>1. RequestInv /\ AnswerInv /\ KeptInv /\ [Next]_vars => KeptInv'
  BY KeptInvNext
<1>2. KeptInv => RestoredIsBackedUp
  BY DEF KeptInv
<1> QED BY <1>1, <1>2, KeptInvInit, RequestsMatch, AnswersMatch, PTL DEF Spec

-----------------------------------------------------------------------------
(* Lists: the names that are listed, and whether they can be decoded *)

(* The bytes of one-byte characters *)
TextBytes == {x \in Bytes : <<x>> \in Characters}

(* Where every character is one byte decode accepts these only. *)
LEMMA UTF8IsText ==
  ASSUME OneByteCharacters, NEW bytes \in Seq(Bytes)
  PROVE  IsUTF8(bytes) <=> bytes \in Seq(TextBytes)
<1> DEFINE n == Len(bytes)
           good == {i \in 1 .. n : \A j \in i .. n : <<bytes[j]>> \in Characters} \cup {n + 1}
<1>1. n \in Nat /\ DOMAIN bytes = 1 .. n /\ \A i \in 1 .. n : bytes[i] \in Bytes
  OBVIOUS
<1>2. ASSUME NEW i \in 1 .. n
      PROVE  SubSeq(bytes, i, i) = <<bytes[i]>>
  <2>1. i \in Nat /\ \A j \in i .. i : bytes[j] \in Bytes
    BY <1>1
  <2>2. /\ SubSeq(bytes, i, i) \in Seq(Bytes) /\ Len(SubSeq(bytes, i, i)) = 1
        /\ SubSeq(bytes, i, i)[1] = bytes[i]
    BY <2>1, SubSeqProperties
  <2>3. /\ <<bytes[i]>> \in Seq(Bytes) /\ Len(<<bytes[i]>>) = 1
        /\ \A j \in 1 .. 1 : SubSeq(bytes, i, i)[j] = <<bytes[i]>>[j]
    BY <1>1, <2>2
  <2> QED BY <2>2, <2>3, SeqEqual
<1>3. ASSUME NEW i \in 1 .. n + 1, NEW g
      PROVE  (\/ i = n + 1
              \/ \E c \in Characters : /\ i + Len(c) <= n + 1
                                       /\ SubSeq(bytes, i, i + Len(c) - 1) = c
                                       /\ g[i + Len(c)])
               <=> (i = n + 1 \/ (i \in 1 .. n /\ <<bytes[i]>> \in Characters /\ g[i + 1]))
  <2>1. CASE i = n + 1
    BY <2>1
  <2>2. CASE i # n + 1
    <3>1. i \in 1 .. n /\ i \in Nat /\ i + 1 <= n + 1 /\ i + 1 - 1 = i
      BY <1>1, <2>2
    <3>2. SubSeq(bytes, i, i) = <<bytes[i]>>
      BY <1>2, <3>1
    <3>3. (\E c \in Characters : /\ i + Len(c) <= n + 1
                                 /\ SubSeq(bytes, i, i + Len(c) - 1) = c
                                 /\ g[i + Len(c)])
            <=> \E c \in Characters : SubSeq(bytes, i, i) = c /\ g[i + 1]
      <4>1. \A c \in Characters : Len(c) = 1
        BY DEF OneByteCharacters
      <4> QED BY <3>1, <4>1
    <3> QED BY <2>2, <3>1, <3>2, <3>3
  <2> QED BY <2>1, <2>2
<1>4. \E f : Decodes(f, bytes)
  <2>1. PICK g : g = [i \in 1 .. n + 1 |-> i \in good]
    OBVIOUS
  <2>2. ASSUME NEW i \in 1 .. n + 1
        PROVE  (i \in good)
                 <=> (i = n + 1 \/ (i \in 1 .. n /\ <<bytes[i]>> \in Characters /\ g[i + 1]))
    <3>1. CASE i = n + 1
      BY <3>1
    <3>2. CASE i # n + 1
      <4>1. i \in 1 .. n /\ i + 1 \in 1 .. n + 1
        BY <1>1, <3>2
      <4>2. g[i + 1] <=> i + 1 \in good
        BY <2>1, <4>1
      <4>3. i + 1 \in good <=> \A j \in i + 1 .. n : <<bytes[j]>> \in Characters
        <5>1. i + 1 = n + 1 => \A j \in i + 1 .. n : <<bytes[j]>> \in Characters
          BY <1>1
        <5>2. i + 1 # n + 1 => i + 1 \in 1 .. n
          BY <1>1, <4>1
        <5> QED BY <5>1, <5>2
      <4>4. i \in good <=> \A j \in i .. n : <<bytes[j]>> \in Characters
        BY <3>2, <4>1
      <4>5. i .. n = {i} \cup (i + 1 .. n)
        BY <1>1, <4>1
      <4> QED BY <3>2, <4>1, <4>2, <4>3, <4>4, <4>5
    <3> QED BY <3>1, <3>2
  <2> HIDE DEF good
  <2>3. ASSUME NEW i \in 1 .. n + 1
        PROVE  (i \in good)
                 = (\/ i = n + 1
                    \/ \E c \in Characters : /\ i + Len(c) <= n + 1
                                             /\ SubSeq(bytes, i, i + Len(c) - 1) = c
                                             /\ g[i + Len(c)])
    <3> DEFINE found == \E c \in Characters : /\ i + Len(c) <= n + 1
                                              /\ SubSeq(bytes, i, i + Len(c) - 1) = c
                                              /\ g[i + Len(c)]
               next  == i \in 1 .. n /\ <<bytes[i]>> \in Characters /\ g[i + 1]
    <3>1. (i = n + 1 \/ found) <=> (i = n + 1 \/ next)
      BY <1>3
    <3>2. (i \in good) <=> (i = n + 1 \/ next)
      BY <2>2
    <3> HIDE DEF found, next
    <3>3. (i \in good) = (i = n + 1 \/ found)
      BY <3>1, <3>2
    <3> QED BY <3>3 DEF found
  <2>4. Decodes(g, bytes)
    BY <2>1, <2>3 DEF Decodes
  <2> QED BY <2>4
<1> DEFINE f == CHOOSE f : Decodes(f, bytes)
<1>5. Decodes(f, bytes) /\ IsUTF8(bytes) = f[1]
  BY <1>4 DEF IsUTF8, Decodes
<1> HIDE DEF f
<1>6. ASSUME NEW i \in 1 .. n + 1
      PROVE  f[i] <=> (i = n + 1 \/ (i \in 1 .. n /\ <<bytes[i]>> \in Characters /\ f[i + 1]))
  <2>1. f[i] = (\/ i = n + 1
                \/ \E c \in Characters : /\ i + Len(c) <= n + 1
                                         /\ SubSeq(bytes, i, i + Len(c) - 1) = c
                                         /\ f[i + Len(c)])
    BY <1>5 DEF Decodes
  <2> QED BY <1>3, <2>1
<1>7. ASSUME f[1]
      PROVE  bytes \in Seq(TextBytes)
  <2> DEFINE T == {k \in Nat : k \in 1 .. n /\ ~(f[k] /\ <<bytes[k]>> \in Characters)}
  <2>1. T = {}
    <3> SUFFICES ASSUME T # {} PROVE FALSE
      OBVIOUS
    <3>1. PICK k \in T : \A l \in T : k <= l
      BY LeastOf
    <3>2. k \in 1 .. n /\ k \in 1 .. n + 1 /\ k # n + 1 /\ ~(f[k] /\ <<bytes[k]>> \in Characters)
      BY <1>1
    <3>3. f[k]
      <4>1. CASE k = 1
        BY <1>7, <4>1
      <4>2. CASE k # 1
        <5>1. k - 1 \in Nat /\ k - 1 \in 1 .. n /\ k - 1 \in 1 .. n + 1 /\ k - 1 # n + 1
              /\ (k - 1) + 1 = k /\ ~(k <= k - 1)
          BY <1>1, <3>2, <4>2
        <5>2. f[k - 1]
          BY <3>1, <5>1
        <5>3. f[(k - 1) + 1]
          BY <1>6, <5>1, <5>2
        <5> QED BY <5>1, <5>3
      <4> QED BY <4>1, <4>2
    <3>4. <<bytes[k]>> \in Characters
      BY <1>6, <3>2, <3>3
    <3> QED BY <3>2, <3>3, <3>4
  <2>2. ASSUME NEW i \in 1 .. n
        PROVE  bytes[i] \in TextBytes
    <3>1. ASSUME <<bytes[i]>> \notin Characters
          PROVE  FALSE
      <4>1. i \in T
        BY <1>1, <3>1
      <4> QED BY <2>1, <4>1
    <3> QED BY <1>1, <3>1 DEF TextBytes
  <2> QED BY <1>1, <2>2
<1>8. ASSUME bytes \in Seq(TextBytes)
      PROVE  IsUTF8(bytes)
  <2>1. \A i \in 1 .. Len(bytes) : <<bytes[i]>> \in Characters
    BY <1>8 DEF TextBytes
  <2> QED BY <2>1, OneByteIsUTF8
<1> QED BY <1>5, <1>7, <1>8

(* A part of a text is one. *)
LEMMA PartIsText ==
  ASSUME NEW S, NEW s \in Seq(S), NEW n \in Nat, n <= Len(s)
  PROVE  SubSeq(s, 1, n) \in Seq(S)
OBVIOUS

(* The lists on their way can be decoded, and those that have arrived were. *)
ListsAreTexts ==
  /\ \A d \in Connections :
       decided[d].op = "SUCCESSFUL_LIST_FILES" => decided[d].payload \in Seq(TextBytes)
  /\ result.op # "UnicodeDecodeError"

(* A directory with a name that is no text keeps it: no call deletes it.   *)
OddName == \E name \in DOMAIN files : ~IsUTF8(name)

ListInv == OddName \/ ListsAreTexts

(* A call does not take such a name away. *)
LEMMA OddNamesStay ==
  ASSUME OneByteCharacters, RequestInv, NEW d \in Connections, Answers(d) \/ LoseRequest(d),
         OddName
  PROVE  OddName'
<1>1. PICK r : Effect(d, r)
  BY HandlersHaveEffect
<1>2. PICK name \in DOMAIN files : ~IsUTF8(name)
  BY DEF OddName
<1>3. name \in DOMAIN files'
  <2> SUFFICES ASSUME name \notin DOMAIN files' PROVE FALSE
    OBVIOUS
  <2>1. call[d].op = "DELETE_FILE" /\ name = Encoded(call[d].name)
    BY <1>1, <1>2 DEF Effect
  <2>2. call[d] \in Calls
    BY <2>1 DEF RequestInv, TypeOK, None
  <2>3. call[d].name \in Seq(Characters)
    BY <2>1, <2>2, CallFields, TextsAre
  <2> QED BY <1>2, <2>1, <2>3, EncodedIsUTF8
<1> QED BY <1>2, <1>3 DEF OddName

(* Where there is none the server sends lists that can be decoded. *)
LEMMA ListsThatAreSent ==
  ASSUME OneByteCharacters, RequestInv, AnswerInv, NEW d \in Connections,
         Answers(d) \/ LoseRequest(d), ~OddName, ListsAreTexts
  PROVE  ListsAreTexts'
<1>1. TypeOK
  BY DEF RequestInv
<1>2. \E r : /\ EndSession(d, r)
             /\ r.op = "SUCCESSFUL_LIST_FILES" => r.payload \in Seq(TextBytes)
  <2>1. CASE LoseRequest(d)
    BY <2>1 DEF LoseRequest
  <2>2. CASE RejectRequest(d)
    BY <2>2 DEF RejectRequest, Answer
  <2>3. CASE BackUpFile(d)
    BY <2>3 DEF BackUpFile, Answer
  <2>4. CASE DeleteFile(d)
    BY <2>4 DEF DeleteFile, Answer
  <2>5. CASE RestoreFile(d)
    BY <2>5 DEF RestoreFile, Answer
  <2>6. CASE ListFiles(d)
    <3>1. PICK ns \in SetToSeqs(DOMAIN files) :
            Answer(d, IF ~known THEN [op |-> "NO_BACKUP_FILES_FOR_CLIENT"]
                      ELSE [op |-> "SUCCESSFUL_LIST_FILES", name |-> ListName,
                            payload |-> Encoded([i \in DOMAIN ns |-> Append(ns[i], Newline)])])
      BY <2>6 DEF ListFiles
    <3>2. PICK p : p = Encoded([i \in DOMAIN ns |-> Append(ns[i], Newline)])
      OBVIOUS
    <3>3. p \in Seq(TextBytes)
      <4>1. Newline \in TextBytes
        BY WireAssumption DEF TextBytes
      <4>2. ASSUME NEW name \in DOMAIN files
            PROVE  name \in Seq(TextBytes)
        <5>1. name \in Seq(Bytes) /\ IsUTF8(name)
          BY <1>1 DEF TypeOK, OddName
        <5> QED BY <5>1, UTF8IsText
      <4> QED BY <1>1, <3>2, <4>1, <4>2, ListingIsIn
    <3>4. PICK r : /\ r = IF ~known THEN [op |-> "NO_BACKUP_FILES_FOR_CLIENT"]
                          ELSE [op |-> "SUCCESSFUL_LIST_FILES", name |-> ListName, payload |-> p]
                   /\ Answer(d, r)
      BY <3>1, <3>2
    <3>5. r.op = "SUCCESSFUL_LIST_FILES" => r.payload = p
      BY <3>4
    <3> QED BY <3>3, <3>4, <3>5 DEF Answer
  <2> QED BY <2>1, <2>2, <2>3, <2>4, <2>5, <2>6 DEF Answers
<1>3. PICK r : /\ EndSession(d, r)
               /\ r.op = "SUCCESSFUL_LIST_FILES" => r.payload \in Seq(TextBytes)
  BY <1>2
<1>4. result' = result /\ (decided' = [decided EXCEPT ![d] = r] \/ decided' = decided)
  BY <1>3 DEF EndSession
<1>5. ASSUME NEW e \in Connections
      PROVE  decided'[e] = decided[e] \/ decided'[e] = r
  BY <1>4 DEF AnswerInv
<1> QED BY <1>3, <1>4, <1>5 DEF ListsAreTexts

(* Such a list the client decodes, also when only a part of it was read. *)
LEMMA ListIsDecoded ==
  ASSUME OneByteCharacters, RequestInv, AnswerInv, ListsAreTexts, Return
  PROVE  Returned(call[conn], answer).op # "UnicodeDecodeError"
<1>1. /\ conn # NoConnection /\ answer.next = "done" /\ call[conn] \in Calls
      /\ answer \in AnswerParsers
  BY DEF Return, RequestInv, ConnectionsMatch, TypeOK
<1>2. /\ conn \in Connections /\ AnswerFieldsMatch(decided[conn], answer)
      /\ answer.op = decided[conn].op /\ decided[conn] \in Responses(GoodNames)
  BY <1>1, AnswerIsDecided DEF AnswerInv, AnswerMatches
<1>3. answer.op \in DOMAIN ResponseOP \cup {"none"} /\ answer.op # "UnicodeDecodeError"
  BY <1>1, WireAssumption DEF AnswerParsers
<1>4. ASSUME answer.op = "SUCCESSFUL_LIST_FILES"
      PROVE  IsUTF8(answer.payload)
  <2> DEFINE p == decided[conn].payload
             n == UnpackI(PushU32(Len(p)))
  <2>1. answer.op \in WithFile
    BY <1>4 DEF WithFile
  <2>2. answer.payload = SubSeq(p, 1, n) /\ p \in Seq(TextBytes) /\ answer.payload \in Seq(Bytes)
    BY <1>1, <1>2, <1>4, <2>1 DEF AnswerFieldsMatch, ListsAreTexts, AnswerParsers
  <2>3. Len(p) \in Nat
    BY <2>2
  <2>4. n \in Nat /\ n <= Len(p)
    BY <2>3, LengthsAreRead
  <2> HIDE DEF n, p
  <2>5. SubSeq(p, 1, n) \in Seq(TextBytes)
    BY <2>2, <2>4, PartIsText
  <2> QED BY <2>2, <2>5, UTF8IsText
<1>5. CASE answer.op \in Errors
  <2>1. answer.op # ExpectedOp(call[conn])
    BY <1>1, <1>5 DEF Errors, ExpectedOp, Calls
  <2>2. Returned(call[conn], answer) = [op |-> answer.op]
    BY <1>5, <2>1 DEF Returned
  <2> QED BY <1>3, <2>2
<1>6. CASE answer.op \notin Errors \cup {ExpectedOp(call[conn])}
  BY <1>6 DEF Returned
<1>7. CASE answer.op \notin Errors /\ answer.op = ExpectedOp(call[conn])
  <2>1. CASE call[conn].op = "LIST_FILES"
    <3>1. answer.op = "SUCCESSFUL_LIST_FILES"
      BY <1>7, <2>1 DEF ExpectedOp
    <3> QED BY <1>3, <1>4, <1>7, <2>1, <3>1 DEF Returned
  <2>2. CASE call[conn].op # "LIST_FILES"
    BY <1>3, <1>7, <2>2 DEF Returned
  <2> QED BY <2>1, <2>2
<1> QED BY <1>5, <1>6, <1>7

(* All steps keep the lists. *)
LEMMA ListInvNext ==
  ASSUME OneByteCharacters
  PROVE  RequestInv /\ AnswerInv /\ ListInv /\ [Next]_vars => ListInv'
<1> SUFFICES ASSUME RequestInv, AnswerInv, ListInv, [Next]_vars
             PROVE  ListInv'
  OBVIOUS
<1>1. CASE files' = files /\ OddName
  BY <1>1 DEF OddName, ListInv
<1>2. ASSUME UNCHANGED <<decided, files>>, result' = result \/ result'.op # "UnicodeDecodeError"
      PROVE  ListInv'
  BY <1>2 DEF ListInv, OddName, ListsAreTexts
<1>3. ASSUME NEW c \in Calls, FailToPack(c)
      PROVE  ListInv'
  BY <1>2, <1>3 DEF FailToPack, disk
<1>4. ASSUME NEW c \in Calls, NEW d \in Connections, SendRequest(d, c)
      PROVE  ListInv'
  BY <1>2, <1>4 DEF SendRequest, disk, None
<1>5. CASE Break
  BY <1>2, <1>5 DEF Break, disk
<1>6. ASSUME NEW d \in Connections, ServerStep(d)
      PROVE  ListInv'
  <2>1. CASE ReadField(d)
    BY <1>2, <2>1 DEF ReadField, disk
  <2>2. CASE LoseRequest(d) \/ Answers(d)
    BY <2>2, OddNamesStay, ListsThatAreSent DEF ListInv
  <2> QED BY <1>6, <2>1, <2>2 DEF ServerStep, Answers
<1>7. CASE ReceiveField \/ ReceiveEnd
  BY <1>2, <1>7 DEF ReceiveField, ReceiveEnd, disk
<1>8. CASE Return \/ FailToParse
  <2>1. PICK r : EndCall(r) /\ (ListsAreTexts => r.op # "UnicodeDecodeError")
    <3>1. CASE Return
      BY <3>1, ListIsDecoded DEF Return
    <3>2. CASE FailToParse
      BY <3>2 DEF FailToParse
    <3> QED BY <1>8, <3>1, <3>2
  <2>2. files' = files /\ result' = r /\ decided' = [decided EXCEPT ![conn] = None]
    BY <2>1 DEF EndCall, disk
  <2>3. ASSUME NEW d \in Connections
        PROVE  decided'[d] = decided[d] \/ decided'[d] = None
    BY <2>2 DEF AnswerInv
  <2>4. ListsAreTexts => ListsAreTexts'
    BY <2>1, <2>2, <2>3 DEF ListsAreTexts, None
  <2> QED BY <1>1, <2>2, <2>4 DEF ListInv
<1>9. CASE UNCHANGED vars
  BY <1>2, <1>9 DEF vars, disk
<1> QED BY <1>3, <1>4, <1>5, <1>6, <1>7, <1>8, <1>9 DEF Next, ClientStep

(* The client understands every answer that reaches it in full, but for    *)
(* the list of a directory that has a name which is no text, if every      *)
(* character is one byte.                                                  *)
THEOREM AnswersUnderstood ==
  ASSUME OneByteCharacters
  PROVE  Spec => []AnswersAreUnderstood
<1>1. Init => ListInv
  BY DEF Init, ListInv, ListsAreTexts, None
<1>2. RequestInv /\ AnswerInv /\ ListInv /\ [Next]_vars => ListInv'
  BY ListInvNext
<1>3. AnswerInv /\ ListInv => AnswersAreUnderstood
  BY DEF AnswerInv, ParsedUnlessCut, ListInv, ListsAreTexts, OddName, AnswersAreUnderstood
<1> QED BY <1>1, <1>2, <1>3, RequestsMatch, AnswersMatch, PTL DEF Spec
=============================================================================
