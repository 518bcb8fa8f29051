-------------------------- MODULE FrameReaderProofs --------------------------
(***************************************************************************)
(* For any byte base, header length, caps and bounds: the frame reader     *)
(* keeps its types, loses and repeats no byte, starves no read, refuses    *)
(* only for cause and respects each read's cap.                            *)
(***************************************************************************)
EXTENDS FrameReader, SequenceTheorems, WellFoundedInduction, TLAPS

(* The bytes of the frames delivered so far, as they were on the wire.     *)
Wire == [i \in DOMAIN delivered |-> writeFrame(delivered[i])]

(* What the properties need besides themselves: the total counts at least  *)
(* what was accepted, which stays within the cap; after a failure or a     *)
(* refusal the socket delivers nothing more; a read never waits for a      *)
(* frame the caller did not ask for.                                       *)
ReaderInv ==
  /\ Len(accepted) <= total /\ Len(accepted) <= TOTAL_CAP
  /\ failure => destroyed
  /\ rejected => destroyed /\ ~waiter
  /\ waiter => Len(delivered) < Len(Caps)

FrameInv ==
  /\ FrameTypeOK
  /\ ReaderInv
  /\ NoByteLost
  /\ NoStarvedRead
  /\ RefusedForCause
  /\ CapsRespected

-----------------------------------------------------------------------------
(* Recursive functions over 1 .. n. The induction is over sets, through the*)
(* least element of a set of naturals.                                     *)

(* What holds of 1 and of the successor of each of its members holds of    *)
(* all of 1 .. n.                                                          *)
LEMMA Induction ==
  ASSUME NEW n \in Nat, NEW T,
         1 \in T, \A i \in 1 .. n - 1 : i \in T => i + 1 \in T
  PROVE  1 .. n \subseteq T
<1> DEFINE Gap == {i \in 1 .. n : i \notin T}
<1> SUFFICES ASSUME Gap # {} PROVE FALSE  OBVIOUS
<1> DEFINE Less == {p \in Nat \X Nat : p[1] < p[2]}
<1>0. IsWellFoundedOn(Less, Nat)
  BY NatLessThanWellFounded, Zenon DEF OpToRel
<1>1. PICK m \in Gap : \A k \in Gap : ~ (<<k, m>> \in Less)
  <2>1. Gap \subseteq Nat  OBVIOUS
  <2> HIDE DEF Gap, Less
  <2> QED  BY <1>0, <2>1, WFMin
<1>2. \A k \in Gap : ~ (k < m)
  <2> TAKE k \in Gap
  <2>1. k \in Nat /\ m \in Nat  OBVIOUS
  <2>2. k < m => <<k, m>> \in Less  BY <2>1
  <2> HIDE DEF Gap, Less
  <2> QED  BY <1>1, <2>2
<1>3. m # 1 /\ m \in 2 .. n  BY <1>1
<1>4. m - 1 \in 1 .. n - 1 /\ m - 1 < m  BY <1>3
<1>5. m - 1 \in T  BY <1>2, <1>4
<1>6. (m - 1) + 1 \in T  BY <1>4, <1>5
<1> QED  BY <1>1, <1>3, <1>6

(* f starts with first and goes on by step.                                *)
Steps(f, n, first, step) ==
  \A i \in 1 .. n : f[i] = IF i = 1 THEN first ELSE step[<<i, f[i - 1]>>]

(* A function given by its first value and a step from each value to the   *)
(* next one exists.                                                        *)
LEMMA Recursion ==
  ASSUME NEW n \in Nat, NEW S, NEW first \in S, NEW step \in [(2 .. n) \X S -> S]
  PROVE  \E f \in [1 .. n -> S] : Steps(f, n, first, step)
<1> USE DEF Steps
<1> DEFINE Upto(m) == \E f \in [1 .. m -> S] : Steps(f, m, first, step)
<1> DEFINE T == {m \in 1 .. n : Upto(m)}
<1>0. CASE n = 0
  <2>1. [i \in 1 .. 0 |-> first] \in [1 .. n -> S]  BY <1>0
  <2> QED  BY <1>0, <2>1
<1>1. CASE n # 0
  <2>1. 1 \in T
    <3>1. [i \in 1 .. 1 |-> first] \in [1 .. 1 -> S]  OBVIOUS
    <3>2. \A i \in 1 .. 1 : i = 1  OBVIOUS
    <3>3. Upto(1)  BY <3>1, <3>2
    <3> HIDE DEF Upto
    <3> QED  BY <1>1, <3>3
  <2>2. ASSUME NEW m \in 1 .. n - 1, m \in T PROVE m + 1 \in T
    <3>1. PICK f \in [1 .. m -> S] : Steps(f, m, first, step)
      BY <2>2
    <3> DEFINE g == [i \in 1 .. m + 1 |-> IF i = m + 1 THEN step[<<i, f[m]>>] ELSE f[i]]
    <3>2. step[<<m + 1, f[m]>>] \in S
      <4>1. <<m + 1, f[m]>> \in (2 .. n) \X S  OBVIOUS
      <4> QED  BY <4>1
    <3>3. g \in [1 .. m + 1 -> S]  BY <3>2
    <3>4. Steps(g, m + 1, first, step)
      <4> SUFFICES ASSUME NEW i \in 1 .. m + 1
                   PROVE  g[i] = IF i = 1 THEN first ELSE step[<<i, g[i - 1]>>]
        OBVIOUS
      <4>1. CASE i = m + 1
        <5>1. i # 1 /\ i - 1 = m /\ m \in 1 .. m + 1 /\ m # m + 1  BY <4>1
        <5>2. g[i - 1] = f[m] /\ g[i] = step[<<i, f[m]>>]  BY <4>1, <5>1
        <5> QED  BY <5>1, <5>2
      <4>2. CASE i # m + 1
        <5>1. i \in 1 .. m /\ g[i] = f[i]  BY <4>2
        <5>2. i # 1 => i - 1 \in 1 .. m + 1 /\ i - 1 # m + 1  BY <5>1
        <5>3. i # 1 => g[i - 1] = f[i - 1]  BY <5>2
        <5> QED  BY <3>1, <5>1, <5>3
      <4> QED  BY <4>1, <4>2
    <3>5. Upto(m + 1)  BY <3>3, <3>4
    <3>6. m + 1 \in 1 .. n  OBVIOUS
    <3> HIDE DEF Upto
    <3> QED  BY <3>5, <3>6
  <2>3. 1 .. n \subseteq T
    <3> HIDE DEF T
    <3> QED  BY <2>1, <2>2, Induction
  <2>4. n \in T  BY <1>1, <2>3
  <2> QED  BY <2>4
<1> QED  BY <1>0, <1>1

-----------------------------------------------------------------------------
(* Numbers.                                                                *)

LEMMA Divide ==
  ASSUME NEW q \in Nat, NEW B \in Nat \ {0}, NEW r \in 0 .. B - 1
  PROVE  (q * B + r) \div B = q /\ (q * B + r) % B = r
BY SMTT(20)

(* What readUInt computes on the way: the numbers that the prefixes of the *)
(* header stand for.                                                       *)
LEMMA HeaderValue ==
  ASSUME NEW b \in Seq(Byte), HasHeader(b)
  PROVE  \E v \in [1 .. HeaderLen -> Nat] :
           /\ v[1] = b[1]
           /\ \A i \in 2 .. HeaderLen : v[i] = v[i - 1] * Base + b[i]
           /\ readUInt(b) = v[HeaderLen]
<1> DEFINE Eq(v) == v = [i \in 1 .. HeaderLen |->
                          IF i = 1 THEN b[1] ELSE v[i - 1] * Base + b[i]]
<1> DEFINE value == CHOOSE v : Eq(v)
<1>1. HeaderLen \in Nat \ {0} /\ Base \in Nat  BY FrameAssumption
<1>2. \A i \in 1 .. HeaderLen : b[i] \in Nat
  BY <1>1 DEF HasHeader, Byte
<1>3. \E v : Eq(v)
  <2> DEFINE step == [p \in (2 .. HeaderLen) \X Nat |-> p[2] * Base + b[p[1]]]
  <2>1. step \in [(2 .. HeaderLen) \X Nat -> Nat]
    <3>1. \A p \in (2 .. HeaderLen) \X Nat : p[2] * Base + b[p[1]] \in Nat
      <4> TAKE p \in (2 .. HeaderLen) \X Nat
      <4>1. p[1] \in 1 .. HeaderLen /\ p[2] \in Nat  BY <1>1
      <4>2. p[2] * Base \in Nat /\ b[p[1]] \in Nat  BY <1>1, <1>2, <4>1
      <4> QED  BY <4>2
    <3> QED  BY <3>1
  <2>2. b[1] \in Nat /\ HeaderLen \in Nat  BY <1>1, <1>2
  <2>3. PICK v \in [1 .. HeaderLen -> Nat] : Steps(v, HeaderLen, b[1], step)
    <3> HIDE DEF step
    <3> QED  BY <2>1, <2>2, Recursion
  <2>4. \A i \in 1 .. HeaderLen : v[i] = IF i = 1 THEN b[1] ELSE v[i - 1] * Base + b[i]
    <3> TAKE i \in 1 .. HeaderLen
    <3>1. i # 1 => i \in 2 .. HeaderLen /\ v[i - 1] \in Nat  BY <1>1
    <3> QED  BY <2>3, <3>1 DEF Steps
  <2>5. Eq(v)  BY <2>4
  <2> QED  BY <2>5
<1>4. Eq(value)  BY <1>3
<1>5. readUInt(b) = value[HeaderLen]  BY DEF readUInt
<1> HIDE DEF value
<1>6. /\ value[1] = b[1]
      /\ \A i \in 2 .. HeaderLen : value[i] = value[i - 1] * Base + b[i]
  BY <1>1, <1>4
<1>7. 1 .. HeaderLen \subseteq {i \in 1 .. HeaderLen : value[i] \in Nat}
  <2> DEFINE T == {i \in 1 .. HeaderLen : value[i] \in Nat}
  <2>1. 1 \in T  BY <1>1, <1>2, <1>6
  <2>2. ASSUME NEW i \in 1 .. HeaderLen - 1, i \in T PROVE i + 1 \in T
    <3>1. i + 1 \in 2 .. HeaderLen /\ (i + 1) - 1 = i  BY <1>1
    <3>2. value[i + 1] = value[i] * Base + b[i + 1]  BY <1>6, <3>1
    <3>3. value[i] \in Nat /\ b[i + 1] \in Nat  BY <1>2, <2>2, <3>1
    <3>4. value[i + 1] \in Nat  BY <1>1, <3>2, <3>3
    <3> QED  BY <3>1, <3>4
  <2> HIDE DEF T
  <2>3. 1 .. HeaderLen \subseteq T  BY <1>1, <2>1, <2>2, Induction
  <2> QED  BY <2>3 DEF T
<1>8. value \in [1 .. HeaderLen -> Nat]  BY <1>4, <1>7
<1> QED  BY <1>5, <1>6, <1>8

(* What writeUInt computes on the way: n without its last bytes.           *)
LEMMA HeaderDigits ==
  ASSUME NEW n \in Nat
  PROVE  \E l \in [1 .. HeaderLen -> Nat] :
           /\ l[1] = n
           /\ \A i \in 2 .. HeaderLen : l[i] = l[i - 1] \div Base
           /\ writeUInt(n) = [i \in 1 .. HeaderLen |-> l[HeaderLen + 1 - i] % Base]
<1> DEFINE Eq(l) == l = [i \in 1 .. HeaderLen |-> IF i = 1 THEN n ELSE l[i - 1] \div Base]
<1> DEFINE left == CHOOSE l : Eq(l)
<1>1. HeaderLen \in Nat \ {0} /\ Base \in Nat \ {0}  BY FrameAssumption
<1>2. \E l : Eq(l)
  <2> DEFINE step == [p \in (2 .. HeaderLen) \X Nat |-> p[2] \div Base]
  <2>1. step \in [(2 .. HeaderLen) \X Nat -> Nat]  BY <1>1
  <2>2. PICK l \in [1 .. HeaderLen -> Nat] : Steps(l, HeaderLen, n, step)
    <3> HIDE DEF step
    <3> QED  BY <1>1, <2>1, Recursion
  <2>3. \A i \in 1 .. HeaderLen : l[i] = IF i = 1 THEN n ELSE l[i - 1] \div Base
    <3> TAKE i \in 1 .. HeaderLen
    <3>1. i # 1 => i \in 2 .. HeaderLen /\ l[i - 1] \in Nat  BY <1>1
    <3> QED  BY <2>2, <3>1 DEF Steps
  <2>4. Eq(l)  BY <2>3
  <2> QED  BY <2>4
<1>3. Eq(left)  BY <1>2
<1>4. writeUInt(n) = [i \in 1 .. HeaderLen |-> left[HeaderLen + 1 - i] % Base]
  BY DEF writeUInt
<1> HIDE DEF left
<1>5. /\ left[1] = n
      /\ \A i \in 2 .. HeaderLen : left[i] = left[i - 1] \div Base
  BY <1>1, <1>3
<1> DEFINE T == {i \in 1 .. HeaderLen : left[i] \in Nat}
<1>6. 1 .. HeaderLen \subseteq T
  <2>1. 1 \in T  BY <1>1, <1>5
  <2>2. ASSUME NEW i \in 1 .. HeaderLen - 1, i \in T PROVE i + 1 \in T
    <3>1. i + 1 \in 2 .. HeaderLen /\ (i + 1) - 1 = i  BY <1>1
    <3>2. left[i + 1] = left[i] \div Base  BY <1>5, <3>1
    <3>3. left[i + 1] \in Nat  BY <1>1, <2>2, <3>2
    <3> QED  BY <3>1, <3>3
  <2> HIDE DEF T
  <2> QED  BY <1>1, <2>1, <2>2, Induction
<1>7. left \in [1 .. HeaderLen -> Nat]  BY <1>3, <1>6
<1> QED  BY <1>4, <1>5, <1>7

(* Hence writeUInt32BE undoes readUInt32BE: the length read from a header  *)
(* is written as that header.                                              *)
LEMMA RoundTrip ==
  ASSUME NEW b \in Seq(Byte), HasHeader(b)
  PROVE  /\ readUInt(b) \in Nat
         /\ writeUInt(readUInt(b)) = [i \in 1 .. HeaderLen |-> b[i]]
<1>1. HeaderLen \in Nat \ {0} /\ Base \in Nat \ {0, 1}  BY FrameAssumption
<1>2. \A i \in 1 .. HeaderLen : b[i] \in 0 .. Base - 1
  BY <1>1 DEF HasHeader, Byte
<1>3. PICK v \in [1 .. HeaderLen -> Nat] :
        /\ v[1] = b[1]
        /\ \A i \in 2 .. HeaderLen : v[i] = v[i - 1] * Base + b[i]
        /\ readUInt(b) = v[HeaderLen]
  BY HeaderValue
<1>4. readUInt(b) \in Nat  BY <1>1, <1>3
<1>5. PICK l \in [1 .. HeaderLen -> Nat] :
        /\ l[1] = readUInt(b)
        /\ \A i \in 2 .. HeaderLen : l[i] = l[i - 1] \div Base
        /\ writeUInt(readUInt(b)) = [i \in 1 .. HeaderLen |-> l[HeaderLen + 1 - i] % Base]
  BY <1>4, HeaderDigits
<1>6. \A i \in 2 .. HeaderLen : v[i] \div Base = v[i - 1] /\ v[i] % Base = b[i]
  <2> TAKE i \in 2 .. HeaderLen
  <2>1. v[i - 1] \in Nat /\ b[i] \in 0 .. Base - 1 /\ Base \in Nat \ {0}
    BY <1>1, <1>2
  <2>2. v[i] = v[i - 1] * Base + b[i]  BY <1>3
  <2>3. /\ (v[i - 1] * Base + b[i]) \div Base = v[i - 1]
        /\ (v[i - 1] * Base + b[i]) % Base = b[i]
    BY <2>1, Divide, Zenon
  <2> QED  BY <2>2, <2>3
<1> DEFINE T == {i \in 1 .. HeaderLen : l[i] = v[HeaderLen + 1 - i]}
<1>7. 1 .. HeaderLen \subseteq T
  <2>1. 1 \in T  BY <1>1, <1>3, <1>5
  <2>2. ASSUME NEW i \in 1 .. HeaderLen - 1, i \in T PROVE i + 1 \in T
    <3>1. /\ i + 1 \in 2 .. HeaderLen /\ (i + 1) - 1 = i
          /\ HeaderLen + 1 - i \in 2 .. HeaderLen
          /\ (HeaderLen + 1 - i) - 1 = HeaderLen + 1 - (i + 1)
      BY <1>1
    <3>2. l[i + 1] = v[HeaderLen + 1 - i] \div Base  BY <1>5, <2>2, <3>1
    <3>3. l[i + 1] = v[HeaderLen + 1 - (i + 1)]  BY <1>6, <3>1, <3>2
    <3> QED  BY <3>1, <3>3
  <2> HIDE DEF T
  <2> QED  BY <1>1, <2>1, <2>2, Induction
<1>8. \A i \in 1 .. HeaderLen : l[HeaderLen + 1 - i] % Base = b[i]
  <2> TAKE i \in 1 .. HeaderLen
  <2>1. HeaderLen + 1 - i \in 1 .. HeaderLen /\ HeaderLen + 1 - (HeaderLen + 1 - i) = i
    BY <1>1
  <2>2. l[HeaderLen + 1 - i] = v[i]  BY <1>7, <2>1
  <2>3. CASE i = 1
    <3>1. v[1] \in 0 .. Base - 1  BY <1>1, <1>2, <1>3
    <3>2. (0 * Base + v[1]) % Base = v[1]  BY <1>1, <3>1, Divide, Zenon
    <3>3. v[1] % Base = v[1]  BY <1>1, <3>1, <3>2
    <3> QED  BY <1>3, <2>2, <2>3, <3>3
  <2>4. CASE i # 1
    <3>1. i \in 2 .. HeaderLen  BY <1>1, <2>4
    <3> QED  BY <1>6, <2>2, <3>1
  <2> QED  BY <2>3, <2>4
<1> QED  BY <1>4, <1>5, <1>8

-----------------------------------------------------------------------------
(* Sequences of sequences.                                                 *)

(* FlattenSeq joins them one after the other.                              *)
LEMMA FlattenValue ==
  ASSUME NEW S, NEW s \in Seq(Seq(S)), Len(s) # 0
  PROVE  \E v \in [1 .. Len(s) -> Seq(S)] :
           /\ v[1] = s[1]
           /\ \A i \in 2 .. Len(s) : v[i] = v[i - 1] \o s[i]
           /\ FlattenSeq(s) = v[Len(s)]
<1> DEFINE Eq(v) == v = [i \in 1 .. Len(s) |-> IF i = 1 THEN s[i] ELSE v[i - 1] \o s[i]]
<1> DEFINE flat == CHOOSE v : Eq(v)
<1> DEFINE n == Len(s)
<1>1. n \in Nat \ {0} /\ \A i \in 1 .. n : s[i] \in Seq(S)  OBVIOUS
<1>2. \E v : Eq(v)
  <2> DEFINE step == [p \in (2 .. n) \X Seq(S) |-> p[2] \o s[p[1]]]
  <2>1. step \in [(2 .. n) \X Seq(S) -> Seq(S)]
    <3>1. \A p \in (2 .. n) \X Seq(S) : p[2] \o s[p[1]] \in Seq(S)
      <4> TAKE p \in (2 .. n) \X Seq(S)
      <4>1. p[2] \in Seq(S) /\ s[p[1]] \in Seq(S)  BY <1>1
      <4> QED  BY <4>1
    <3> QED  BY <3>1
  <2>2. s[1] \in Seq(S)  BY <1>1
  <2>3. PICK v \in [1 .. n -> Seq(S)] : Steps(v, n, s[1], step)
    <3> HIDE DEF step, n
    <3> QED  BY <1>1, <2>1, <2>2, Recursion
  <2>4. \A i \in 1 .. n : v[i] = IF i = 1 THEN s[i] ELSE v[i - 1] \o s[i]
    <3> TAKE i \in 1 .. n
    <3> HIDE DEF n
    <3>1. i # 1 => i \in 2 .. n /\ i - 1 \in 1 .. n  BY <1>1
    <3>2. i # 1 => v[i - 1] \in Seq(S)  BY <3>1
    <3>3. i = 1 \/ (i \in 2 .. n /\ v[i - 1] \in Seq(S))  BY <3>1, <3>2
    <3> QED  BY <2>3, <3>3 DEF Steps
  <2>5. Eq(v)  BY <2>4
  <2> QED  BY <2>5
<1>3. Eq(flat)  BY <1>2
<1>4. FlattenSeq(s) = flat[n]  BY DEF FlattenSeq
<1> HIDE DEF flat
<1>5. /\ flat[1] = s[1]
      /\ \A i \in 2 .. n : flat[i] = flat[i - 1] \o s[i]
  <2>1. \A i \in 1 .. n : flat[i] = IF i = 1 THEN s[i] ELSE flat[i - 1] \o s[i]
    BY <1>3
  <2> HIDE DEF n
  <2>2. 1 \in 1 .. n /\ \A i \in 2 .. n : i \in 1 .. n /\ i # 1  BY <1>1
  <2> QED  BY <2>1, <2>2
<1> DEFINE T == {i \in 1 .. n : flat[i] \in Seq(S)}
<1>6. 1 .. n \subseteq T
  <2>1. 1 \in T  BY <1>1, <1>5
  <2>2. ASSUME NEW i \in 1 .. n - 1, i \in T PROVE i + 1 \in T
    <3>1. i + 1 \in 2 .. n /\ (i + 1) - 1 = i  BY <1>1
    <3>2. flat[i + 1] = flat[i] \o s[i + 1]  BY <1>5, <3>1
    <3>3. flat[i] \in Seq(S) /\ s[i + 1] \in Seq(S)  BY <1>1, <2>2, <3>1
    <3>4. flat[i + 1] \in Seq(S)  BY <3>2, <3>3
    <3> QED  BY <3>1, <3>4
  <2> HIDE DEF T, n
  <2> QED  BY <1>1, <2>1, <2>2, Induction
<1>7. flat \in [1 .. n -> Seq(S)]  BY <1>3, <1>6
<1> QED  BY <1>4, <1>5, <1>7

(* One more sequence is joined at the end of the others.                   *)
LEMMA FlattenAppend ==
  ASSUME NEW S, NEW s \in Seq(Seq(S)), NEW x \in Seq(S)
  PROVE  /\ FlattenSeq(s) \in Seq(S)
         /\ FlattenSeq(Append(s, x)) = FlattenSeq(s) \o x
<1> DEFINE n == Len(s)
<1> DEFINE t == Append(s, x)
<1>1. n \in Nat  OBVIOUS
<1>2. t \in Seq(Seq(S)) /\ Len(t) = n + 1 /\ t[n + 1] = x
      /\ \A i \in 1 .. n : t[i] = s[i]
  OBVIOUS
<1> HIDE DEF t
<1>3. PICK w \in [1 .. n + 1 -> Seq(S)] :
        /\ w[1] = t[1]
        /\ \A i \in 2 .. n + 1 : w[i] = w[i - 1] \o t[i]
        /\ FlattenSeq(t) = w[n + 1]
  <2> HIDE DEF n
  <2>1. Len(t) # 0  BY <1>1, <1>2
  <2>2. \E w \in [1 .. Len(t) -> Seq(S)] :
          /\ w[1] = t[1]
          /\ \A i \in 2 .. Len(t) : w[i] = w[i - 1] \o t[i]
          /\ FlattenSeq(t) = w[Len(t)]
    BY <1>2, <2>1, FlattenValue
  <2>3. Len(t) = n + 1  BY <1>2
  <2> QED  BY <2>2, <2>3, Zenon
<1>4. CASE n = 0
  <2>1. s = << >>  BY <1>4
  <2>2. FlattenSeq(s) = << >>  BY <2>1 DEF FlattenSeq
  <2>3. FlattenSeq(t) = x  BY <1>2, <1>3, <1>4
  <2> QED  BY <2>2, <2>3 DEF t
<1>5. CASE n # 0
  <2>1. PICK v \in [1 .. n -> Seq(S)] :
          /\ v[1] = s[1]
          /\ \A i \in 2 .. n : v[i] = v[i - 1] \o s[i]
          /\ FlattenSeq(s) = v[n]
    BY <1>5, FlattenValue
  <2> DEFINE T == {i \in 1 .. n : w[i] = v[i]}
  <2> HIDE DEF n
  <2>2. 1 .. n \subseteq T
    <3>1. 1 \in T  BY <1>1, <1>2, <1>3, <1>5, <2>1
    <3>2. ASSUME NEW i \in 1 .. n - 1, i \in T PROVE i + 1 \in T
      <4>1. i + 1 \in 2 .. n /\ i + 1 \in 2 .. n + 1 /\ (i + 1) - 1 = i  BY <1>1
      <4>2. w[i + 1] = w[i] \o t[i + 1]  BY <1>3, <4>1
      <4>3. v[i + 1] = v[i] \o s[i + 1]  BY <2>1, <4>1
      <4>4. t[i + 1] = s[i + 1] /\ i + 1 \in 1 .. n  BY <1>1, <1>2, <4>1
      <4> QED  BY <3>2, <4>2, <4>3, <4>4
    <3> HIDE DEF T
    <3> QED  BY <1>1, <3>1, <3>2, Induction
  <2>3. w[n] = v[n] /\ v[n] \in Seq(S)  BY <1>1, <1>5, <2>1, <2>2
  <2>4. w[n + 1] = w[n] \o t[n + 1]
    <3>1. n + 1 \in 2 .. n + 1 /\ (n + 1) - 1 = n  BY <1>1, <1>5
    <3> QED  BY <1>3, <3>1
  <2> QED  BY <1>2, <1>3, <2>1, <2>3, <2>4 DEF t
<1> QED  BY <1>4, <1>5

-----------------------------------------------------------------------------
(* Frames.                                                                 *)

(* A frame on the wire is a sequence of bytes.                             *)
LEMMA FrameBytes ==
  ASSUME NEW payload \in Seq(Byte)
  PROVE  writeUInt(Len(payload)) \in Seq(Byte) /\ writeFrame(payload) \in Seq(Byte)
<1>1. HeaderLen \in Nat \ {0} /\ Base \in Nat \ {0}  BY FrameAssumption
<1>2. PICK l \in [1 .. HeaderLen -> Nat] :
        writeUInt(Len(payload)) = [i \in 1 .. HeaderLen |-> l[HeaderLen + 1 - i] % Base]
  BY HeaderDigits
<1>3. \A i \in 1 .. HeaderLen : l[HeaderLen + 1 - i] % Base \in Byte
  <2> TAKE i \in 1 .. HeaderLen
  <2>1. HeaderLen + 1 - i \in 1 .. HeaderLen  BY <1>1
  <2>2. l[HeaderLen + 1 - i] \in Nat  BY <2>1
  <2> QED  BY <1>1, <2>2 DEF Byte
<1>4. writeUInt(Len(payload)) \in Seq(Byte)  BY <1>1, <1>2, <1>3
<1> QED  BY <1>4 DEF writeFrame

(* Cutting the first frame off a buffer splits it: the frame written again *)
(* and the rest are the buffer.                                            *)
LEMMA Cut ==
  ASSUME NEW b \in Seq(Byte), Complete(b)
  PROVE  /\ First(b) \in Seq(Byte) /\ Len(First(b)) = readUInt(b)
         /\ Rest(b) \in Seq(Byte) /\ Len(Rest(b)) <= Len(b)
         /\ writeFrame(First(b)) \o Rest(b) = b
<1> DEFINE h == HeaderLen
           n == readUInt(b)
<1>1. /\ h \in Nat \ {0} /\ n \in Nat /\ Len(b) >= h + n /\ Len(b) \in Nat
      /\ writeUInt(n) = [i \in 1 .. h |-> b[i]]
  BY RoundTrip, FrameAssumption DEF Complete
<1> HIDE DEF h, n
<1>2. /\ First(b) \in Seq(Byte) /\ Len(First(b)) = n
      /\ First(b) = SubSeq(b, h + 1, h + n)
  <2>1. First(b) = SubSeq(b, h + 1, h + n)  BY DEF First, h, n
  <2>2. \A i \in h + 1 .. h + n : b[i] \in Byte  BY <1>1
  <2>3. Len(SubSeq(b, h + 1, h + n)) = IF h + 1 <= h + n THEN (h + n) - (h + 1) + 1 ELSE 0
    BY <1>1, <2>2, SubSeqProperties
  <2>4. SubSeq(b, h + 1, h + n) \in Seq(Byte)  BY <1>1, <2>2, SubSeqProperties
  <2> QED  BY <1>1, <2>1, <2>3, <2>4
<1>3. /\ Rest(b) \in Seq(Byte) /\ Len(Rest(b)) <= Len(b)
      /\ Rest(b) = SubSeq(b, h + n + 1, Len(b))
  BY <1>1 DEF Rest, h, n
<1>4. writeUInt(n) = SubSeq(b, 1, h)  BY <1>1
<1>5. SubSeq(b, 1, h) \o First(b) = SubSeq(b, 1, h + n)
  <2>1. h \in 1 - 1 .. Len(b) /\ h + n \in h .. Len(b) /\ 1 \in 1 .. Len(b) + 1  BY <1>1
  <2>2. SubSeq(b, 1, h) \o SubSeq(b, h + 1, h + n) = SubSeq(b, 1, h + n)
    BY <2>1, ConcatAdjacentSubSeq, Zenon
  <2> QED  BY <1>2, <2>2
<1>6. SubSeq(b, 1, h + n) \o Rest(b) = b
  <2>1. /\ h + n \in 1 - 1 .. Len(b) /\ Len(b) \in h + n .. Len(b)
        /\ 1 \in 1 .. Len(b) + 1
    BY <1>1
  <2>2. SubSeq(b, 1, h + n) \o SubSeq(b, h + n + 1, Len(b)) = SubSeq(b, 1, Len(b))
    BY <2>1, ConcatAdjacentSubSeq, Zenon
  <2> QED  BY <1>3, <2>2, SubSeqFull
<1>7. writeFrame(First(b)) = SubSeq(b, 1, h + n)
  BY <1>2, <1>4, <1>5 DEF writeFrame
<1> QED  BY <1>2, <1>3, <1>6, <1>7 DEF n

(* The length depends on the header alone.                                 *)
LEMMA SameHeader ==
  ASSUME NEW b \in Seq(Byte), NEW c \in Seq(Byte), HasHeader(b), HasHeader(c),
         \A i \in 1 .. HeaderLen : b[i] = c[i]
  PROVE  readUInt(b) = readUInt(c)
<1>1. HeaderLen \in Nat \ {0}  BY FrameAssumption
<1>2. PICK v \in [1 .. HeaderLen -> Nat] :
        /\ v[1] = b[1]
        /\ \A i \in 2 .. HeaderLen : v[i] = v[i - 1] * Base + b[i]
        /\ readUInt(b) = v[HeaderLen]
  BY HeaderValue
<1>3. PICK w \in [1 .. HeaderLen -> Nat] :
        /\ w[1] = c[1]
        /\ \A i \in 2 .. HeaderLen : w[i] = w[i - 1] * Base + c[i]
        /\ readUInt(c) = w[HeaderLen]
  BY HeaderValue
<1> DEFINE T == {i \in 1 .. HeaderLen : v[i] = w[i]}
<1>4. 1 .. HeaderLen \subseteq T
  <2>1. 1 \in T  BY <1>1, <1>2, <1>3
  <2>2. ASSUME NEW i \in 1 .. HeaderLen - 1, i \in T PROVE i + 1 \in T
    <3>1. i + 1 \in 2 .. HeaderLen /\ i + 1 \in 1 .. HeaderLen /\ (i + 1) - 1 = i
      BY <1>1
    <3>2. v[i + 1] = v[i] * Base + b[i + 1] /\ w[i + 1] = w[i] * Base + c[i + 1]
      BY <1>2, <1>3, <3>1
    <3>3. v[i] = w[i] /\ b[i + 1] = c[i + 1]  BY <2>2, <3>1
    <3> QED  BY <3>1, <3>2, <3>3
  <2> HIDE DEF T
  <2> QED  BY <1>1, <2>1, <2>2, Induction
<1> QED  BY <1>1, <1>2, <1>3, <1>4

(* Where the elements of two sequences are once they are joined.           *)
LEMMA Joined ==
  ASSUME NEW s \in Seq(Byte), NEW t \in Seq(Byte)
  PROVE  /\ Len(s \o t) = Len(s) + Len(t)
         /\ \A i \in 1 .. Len(s) : (s \o t)[i] = s[i]
         /\ \A i \in 1 .. Len(t) : (s \o t)[Len(s) + i] = t[i]
OBVIOUS

(* What writeFrame puts on the wire is read back, whatever follows it: a   *)
(* whole frame, with that payload, and the rest untouched. The length must *)
(* be one a header can hold, which u32 does not check.                     *)
THEOREM WrittenIsRead ==
  ASSUME NEW payload \in Seq(Byte), NEW rest \in Seq(Byte),
         NEW h \in Seq(Byte), Len(h) = HeaderLen, Len(payload) = readUInt(h)
  PROVE  LET b == writeFrame(payload) \o rest IN
         Complete(b) /\ First(b) = payload /\ Rest(b) = rest
<1> DEFINE n == Len(payload)
<1> DEFINE hdr == writeUInt(n)
<1>1. HeaderLen \in Nat \ {0} /\ n \in Nat  BY FrameAssumption
<1>2. PICK b \in Seq(Byte) : b = (hdr \o payload) \o rest
  <2>1. hdr \o payload \in Seq(Byte)  BY FrameBytes, ConcatProperties
  <2> QED  BY <2>1, ConcatProperties
<1>3. hdr = h
  <2>1. HasHeader(h)  BY <1>1 DEF HasHeader
  <2>2. hdr = [i \in 1 .. HeaderLen |-> h[i]]  BY <2>1, RoundTrip
  <2> QED  BY <2>2
<1> HIDE DEF hdr, n
<1>4. Len(b) = HeaderLen + n + Len(rest)
  <2>1. Len(h \o payload) = HeaderLen + n /\ h \o payload \in Seq(Byte)
    BY ConcatProperties DEF n
  <2> QED  BY <1>2, <1>3, <2>1, ConcatProperties
<1>5. /\ \A i \in 1 .. HeaderLen : b[i] = h[i]
      /\ \A i \in 1 .. n : b[HeaderLen + i] = payload[i]
      /\ \A i \in 1 .. Len(rest) : b[HeaderLen + n + i] = rest[i]
  <2>1. PICK c \in Seq(Byte) : c = h \o payload  BY ConcatProperties
  <2>2. /\ Len(c) = HeaderLen + n
        /\ \A i \in 1 .. HeaderLen : c[i] = h[i]
        /\ \A i \in 1 .. n : c[HeaderLen + i] = payload[i]
    BY <2>1, Joined DEF n
  <2>3. b = c \o rest  BY <1>2, <1>3, <2>1
  <2>4. \A i \in 1 .. HeaderLen + n : b[i] = c[i]  BY <2>2, <2>3, Joined
  <2>5. \A i \in 1 .. Len(rest) : b[HeaderLen + n + i] = rest[i]
    <3>1. \A i \in 1 .. Len(rest) : b[Len(c) + i] = rest[i]  BY <2>3, Joined
    <3> QED  BY <2>2, <3>1
  <2>6. \A i \in 1 .. HeaderLen : b[i] = h[i]  BY <1>1, <2>2, <2>4
  <2>7. \A i \in 1 .. n : b[HeaderLen + i] = payload[i]  BY <1>1, <2>2, <2>4
  <2> QED  BY <2>5, <2>6, <2>7
<1>6. HasHeader(b) /\ readUInt(b) = n
  <2>1. HasHeader(b) /\ HasHeader(h)  BY <1>1, <1>4 DEF HasHeader
  <2> QED  BY <1>5, <2>1, SameHeader DEF n
<1>7. Complete(b)  BY <1>1, <1>4, <1>6 DEF Complete
<1>8. First(b) = payload
  <2>1. First(b) \in Seq(Byte) /\ Len(First(b)) = n  BY <1>6, <1>7, Cut
  <2>2. \A i \in 1 .. n : First(b)[i] = b[HeaderLen + i]
    BY <1>1, <1>4, <1>6 DEF First
  <2> QED  BY <1>5, <2>1, <2>2, SeqEqual DEF n
<1>9. Rest(b) = rest
  <2>1. Rest(b) \in Seq(Byte)  BY <1>7, Cut
  <2>2. Rest(b) = SubSeq(b, HeaderLen + n + 1, Len(b))  BY <1>6 DEF Rest
  <2>3. Len(Rest(b)) = Len(rest) /\ \A i \in 1 .. Len(rest) : Rest(b)[i] = b[HeaderLen + n + i]
    BY <1>1, <1>4, <2>2
  <2> QED  BY <1>5, <2>1, <2>3, SeqEqual
<1> QED  BY <1>2, <1>7, <1>8, <1>9 DEF writeFrame, hdr, n

LEMMA Regroup ==
  \A s, t, u \in Seq(Byte) : (s \o t) \o u = s \o (t \o u)
BY ConcatAssociative

(* The bytes of the delivered frames, and of one more.                     *)
LEMMA WireBytes ==
  ASSUME delivered \in Seq(Seq(Byte))
  PROVE  /\ Wire \in Seq(Seq(Byte)) /\ FlattenSeq(Wire) \in Seq(Byte)
         /\ \A payload \in Seq(Byte) :
              delivered' = Append(delivered, payload)
                => FlattenSeq(Wire') = FlattenSeq(Wire) \o writeFrame(payload)
<1>1. DOMAIN delivered = 1 .. Len(delivered)  OBVIOUS
<1>2. \A i \in 1 .. Len(delivered) : writeFrame(delivered[i]) \in Seq(Byte)
  BY FrameBytes
<1>3. Wire \in Seq(Seq(Byte))  BY <1>1, <1>2 DEF Wire
<1>4. FlattenSeq(Wire) \in Seq(Byte)
  <2>1. << >> \in Seq(Byte)  OBVIOUS
  <2> QED  BY <1>3, <2>1, FlattenAppend
<1>5. ASSUME NEW payload \in Seq(Byte), delivered' = Append(delivered, payload)
      PROVE  FlattenSeq(Wire') = FlattenSeq(Wire) \o writeFrame(payload)
  <2>1. Wire' = Append(Wire, writeFrame(payload))
    <3>1. Len(Wire) = Len(delivered)  BY <1>1 DEF Wire
    <3> QED  BY <1>1, <1>3, <1>5, <3>1 DEF Wire
  <2> QED  BY <1>3, <2>1, FrameBytes, FlattenAppend
<1> QED  BY <1>3, <1>4, <1>5

-----------------------------------------------------------------------------
(* Steps.                                                                  *)

(* pump, whatever made it run: with the buffer at b the delivered frames   *)
(* and b are all the bytes accepted, and pump leaves it so, serves the     *)
(* pending read if it can and gives the right reason if it refuses it.     *)
LEMMA PumpKeeps ==
  ASSUME NEW b \in Seq(Byte), NEW fails \in BOOLEAN, NEW ends \in BOOLEAN,
         NEW pending \in BOOLEAN,
         delivered \in Seq(Seq(Byte)), Len(delivered) <= Len(Caps),
         CapsRespected, ~rejected,
         pending => Len(delivered) < Len(Caps),
         FlattenSeq(Wire) \o b = accepted',
         pump(b, fails, ends, pending)
  PROVE  /\ buf' \in Seq(Byte) /\ Len(buf') <= Len(b)
         /\ delivered' \in Seq(Seq(Byte)) /\ Len(delivered') <= Len(Caps)
         /\ waiter' \in BOOLEAN /\ rejected' \in BOOLEAN
         /\ waiter' => ~rejected' /\ Len(delivered') < Len(Caps)
         /\ NoByteLost'
         /\ waiter' => ~Complete(buf)' /\ ~TooLong(buf)' /\ ~ends /\ ~fails
         /\ rejected' => fails \/ TooLong(buf)' \/ (ends /\ ~Complete(buf)')
         /\ CapsRespected'
<1> DEFINE verdict == IF pending THEN Verdict(b, fails, ends) ELSE "wait"
<1>p. /\ buf' = IF verdict = "deliver" THEN Rest(b) ELSE b
      /\ delivered' = IF verdict = "deliver" THEN Append(delivered, First(b)) ELSE delivered
      /\ waiter' = (pending /\ verdict = "wait")
      /\ rejected' = (rejected \/ verdict = "reject")
  BY DEF pump
<1>c. Caps \in Seq(Nat)  BY FrameAssumption
<1>1. CASE verdict = "deliver"
  <2>1. pending /\ Complete(b) /\ ~TooLong(b)  BY <1>1 DEF Verdict
  <2>2. buf' = Rest(b) /\ delivered' = Append(delivered, First(b)) /\ ~waiter' /\ ~rejected'
        /\ rejected' \in BOOLEAN /\ waiter' \in BOOLEAN
    BY <1>p, <1>1
  <2>3. /\ First(b) \in Seq(Byte) /\ Len(First(b)) = readUInt(b)
        /\ Rest(b) \in Seq(Byte) /\ Len(Rest(b)) <= Len(b)
        /\ writeFrame(First(b)) \o Rest(b) = b
    BY <2>1, Cut
  <2>4. delivered' \in Seq(Seq(Byte)) /\ Len(delivered') = Len(delivered) + 1
    BY <2>2, <2>3
  <2>5. Len(delivered') <= Len(Caps)  BY <1>c, <2>1, <2>4
  <2>6. NoByteLost'
    <3>1. FlattenSeq(Wire') = FlattenSeq(Wire) \o writeFrame(First(b))
      BY <2>2, <2>3, WireBytes
    <3>2. FlattenSeq(Wire) \in Seq(Byte) /\ writeFrame(First(b)) \in Seq(Byte)
      BY <2>3, WireBytes, FrameBytes
    <3>3. (FlattenSeq(Wire) \o writeFrame(First(b))) \o Rest(b)
            = FlattenSeq(Wire) \o (writeFrame(First(b)) \o Rest(b))
      BY <2>3, <3>2, Regroup, Zenon
    <3>4. FlattenSeq(Wire') \o buf' = accepted'  BY <2>2, <2>3, <3>1, <3>3
    <3> QED  BY <3>4 DEF NoByteLost, Wire
  <2>7. CapsRespected'
    <3>1. Len(First(b)) <= Caps[Len(delivered) + 1]
      <4>1. readUInt(b) \in Nat  BY <2>1, RoundTrip DEF Complete
      <4>2. Caps[Len(delivered) + 1] \in Nat
        <5>1. Len(delivered) + 1 \in 1 .. Len(Caps)  BY <1>c, <2>1
        <5> QED  BY <1>c, <5>1
      <4>3. ~(readUInt(b) > Caps[Len(delivered) + 1])
        BY <2>1 DEF TooLong, Complete, cap
      <4> QED  BY <2>3, <4>1, <4>2, <4>3
    <3>2. \A i \in DOMAIN delivered' :
            \/ i \in DOMAIN delivered /\ delivered'[i] = delivered[i]
            \/ i = Len(delivered) + 1 /\ delivered'[i] = First(b)
      BY <2>2, <2>3
    <3> QED  BY <3>1, <3>2 DEF CapsRespected
  <2> QED  BY <2>2, <2>3, <2>4, <2>5, <2>6, <2>7
<1>2. CASE verdict # "deliver"
  <2>1. buf' = b /\ delivered' = delivered  BY <1>p, <1>2
  <2>2. NoByteLost'  BY <2>1 DEF NoByteLost, Wire
  <2>3. CapsRespected'  BY <2>1 DEF CapsRespected
  <2>4. (Complete(buf)' <=> Complete(b)) /\ (TooLong(buf)' <=> TooLong(b))
    BY <2>1 DEF Complete, TooLong, HasHeader, cap
  <2>5. waiter' => pending /\ ~Complete(b) /\ ~TooLong(b) /\ ~ends /\ ~fails
    BY <1>p, <1>2 DEF Verdict
  <2>6. rejected' => verdict = "reject" /\ (fails \/ TooLong(b) \/ (ends /\ ~Complete(b)))
    BY <1>p, <1>2 DEF Verdict
  <2>7. waiter' => ~rejected'  BY <1>p, <1>2, <2>6
  <2>8. waiter' \in BOOLEAN /\ rejected' \in BOOLEAN  BY <1>p
  <2>9. Len(buf') <= Len(b)  BY <2>1
  <2> QED  BY <2>1, <2>2, <2>3, <2>4, <2>5, <2>6, <2>7, <2>8, <2>9
<1> QED  BY <1>1, <1>2

LEMMA InitInv == FrameInit => FrameInv
<1> SUFFICES ASSUME FrameInit PROVE FrameInv  OBVIOUS
<1>1. FrameTypeOK /\ ReaderInv
  <2>1. << >> \in Seq(Byte) /\ << >> \in Seq(Seq(Byte)) /\ Len(<< >>) = 0  OBVIOUS
  <2>2. TOTAL_CAP \in Nat /\ Len(Caps) \in Nat  BY FrameAssumption
  <2>3. /\ buf = << >> /\ total = 0 /\ ~ended /\ ~failure /\ ~waiter
        /\ delivered = << >> /\ ~rejected /\ ~destroyed /\ accepted = << >>
    BY DEF FrameInit
  <2>4. ended \in BOOLEAN /\ failure \in BOOLEAN /\ waiter \in BOOLEAN
        /\ rejected \in BOOLEAN /\ destroyed \in BOOLEAN
    BY DEF FrameInit
  <2>5. FrameTypeOK  BY <2>1, <2>2, <2>3, <2>4 DEF FrameTypeOK
  <2>6. ReaderInv  BY <2>1, <2>2, <2>3 DEF ReaderInv
  <2> QED  BY <2>5, <2>6
<1>2. NoByteLost
  <2>1. Wire = << >>  BY DEF FrameInit, Wire
  <2>2. FlattenSeq(Wire) = << >>  BY <2>1 DEF FlattenSeq
  <2> QED  BY <2>2 DEF FrameInit, NoByteLost, Wire
<1>3. NoStarvedRead /\ RefusedForCause /\ CapsRespected
  BY DEF FrameInit, NoStarvedRead, RefusedForCause, CapsRespected, TooLong
<1> QED  BY <1>1, <1>2, <1>3 DEF FrameInv

(* 'data', 'end', 'error', the deadline and read(): each is the flags it   *)
(* sets and a pump.                                                        *)
LEMMA StepInv == FrameInv /\ [FrameNext]_frameVars => FrameInv'
<1> SUFFICES ASSUME FrameInv, [FrameNext]_frameVars PROVE FrameInv'  OBVIOUS
<1> USE DEF FrameInv
<1>t. /\ buf \in Seq(Byte) /\ accepted \in Seq(Byte) /\ total \in Nat
      /\ TOTAL_CAP \in Nat /\ MaxChunk \in Nat
      /\ FlattenSeq(Wire) \in Seq(Byte) /\ FlattenSeq(Wire) \o buf = accepted
      /\ delivered \in Seq(Seq(Byte)) /\ Len(delivered) <= Len(Caps)
      /\ waiter \in BOOLEAN /\ ended \in BOOLEAN /\ failure \in BOOLEAN
      /\ waiter => Len(delivered) < Len(Caps)
  BY WireBytes, FrameAssumption DEF FrameTypeOK, NoByteLost, Wire, ReaderInv
(* What is common to all steps that pump.                                  *)
<1>p. ASSUME NEW b \in Seq(Byte), NEW fails \in BOOLEAN, NEW ends \in BOOLEAN,
             NEW pending \in BOOLEAN,
             ~rejected, pending => Len(delivered) < Len(Caps),
             FlattenSeq(Wire) \o b = accepted', accepted' \in Seq(Byte),
             pump(b, fails, ends, pending),
             fails = failure', ends = ended',
             total' \in Nat, destroyed' \in BOOLEAN,
             Len(accepted') <= total', Len(accepted') <= TOTAL_CAP,
             failure' => destroyed', rejected' => destroyed'
      PROVE  FrameInv'
  <2>1. /\ buf' \in Seq(Byte) /\ Len(buf') <= Len(b)
        /\ delivered' \in Seq(Seq(Byte)) /\ Len(delivered') <= Len(Caps)
        /\ waiter' \in BOOLEAN /\ rejected' \in BOOLEAN
        /\ waiter' => ~rejected' /\ Len(delivered') < Len(Caps)
        /\ NoByteLost'
        /\ waiter' => ~Complete(buf)' /\ ~TooLong(buf)' /\ ~ends /\ ~fails
        /\ rejected' => fails \/ TooLong(buf)' \/ (ends /\ ~Complete(buf)')
        /\ CapsRespected'
    <3>1. CapsRespected /\ fails \in BOOLEAN /\ ends \in BOOLEAN /\ pending \in BOOLEAN
      BY <1>p
    <3>2. /\ delivered \in Seq(Seq(Byte)) /\ Len(delivered) <= Len(Caps)
          /\ b \in Seq(Byte) /\ FlattenSeq(Wire) \o b = accepted' /\ ~rejected
          /\ pending => Len(delivered) < Len(Caps)
          /\ pump(b, fails, ends, pending)
      BY <1>t, <1>p
    <3> QED  BY <3>1, <3>2, PumpKeeps
  <2>2. Len(b) <= Len(accepted')
    <3>1. Len(accepted') = Len(FlattenSeq(Wire)) + Len(b)  BY <1>t, <1>p, ConcatProperties
    <3> QED  BY <1>t, <3>1
  <2>3. Len(buf') <= TOTAL_CAP  BY <1>t, <1>p, <2>1, <2>2
  <2>4. FrameTypeOK'  BY <1>p, <2>1, <2>3 DEF FrameTypeOK
  <2>5. ReaderInv'  BY <1>p, <2>1 DEF ReaderInv
  <2>6. NoStarvedRead'  BY <1>p, <2>1 DEF NoStarvedRead
  <2>7. RefusedForCause'  BY <1>p, <2>1 DEF RefusedForCause, TooLong
  <2> QED  BY <2>1, <2>4, <2>5, <2>6, <2>7
<1>r. ~destroyed => ~rejected /\ ~failure  BY DEF ReaderInv
<1>1. ASSUME NEW chunk \in Chunk, Data(chunk) PROVE FrameInv'
  <2>1. chunk \in Seq(Byte) /\ Len(chunk) \in Nat
    BY <1>1, <1>t DEF Chunk
  <2>2. ~rejected /\ total' = total + Len(chunk) /\ ended' = ended
    BY <1>1, <1>r DEF Data
  <2>3. CASE OverCap(chunk)
    <3>1. /\ failure' = TRUE /\ destroyed' = TRUE /\ accepted' = accepted
          /\ pump(buf, TRUE, ended, waiter)
      BY <1>1, <2>3 DEF Data
    <3>2. Len(accepted') <= total' /\ Len(accepted') <= TOTAL_CAP /\ total' \in Nat
      BY <1>t, <2>1, <2>2, <3>1 DEF ReaderInv
    <3> QED  BY <1>t, <1>p, <2>2, <3>1, <3>2
  <2>4. CASE ~OverCap(chunk)
    <3>1. /\ accepted' = accepted \o chunk
          /\ pump(buf \o chunk, failure, ended, waiter)
          /\ destroyed' = (rejected' \/ destroyed) /\ failure' = failure
      BY <1>1, <2>4 DEF Data
    <3>2. PICK b \in Seq(Byte) : b = buf \o chunk
      <4>1. buf \o chunk \in Seq(Byte)  BY <1>t, <2>1, ConcatProperties
      <4> QED  BY <4>1
    <3>3. FlattenSeq(Wire) \o b = accepted'
      <4>1. FlattenSeq(Wire) \in Seq(Byte) /\ buf \in Seq(Byte) /\ chunk \in Seq(Byte)
        BY <1>t, <2>1
      <4>2. (FlattenSeq(Wire) \o buf) \o chunk = FlattenSeq(Wire) \o (buf \o chunk)
        BY <4>1, Regroup, Zenon
      <4>3. FlattenSeq(Wire) \o buf = accepted /\ accepted' = accepted \o chunk
        BY <1>t, <3>1
      <4> QED  BY <3>2, <4>2, <4>3
    <3>4. accepted' \in Seq(Byte) /\ Len(accepted') = Len(accepted) + Len(chunk)
      BY <1>t, <2>1, <3>1, ConcatProperties
    <3>5. total + Len(chunk) <= TOTAL_CAP  BY <1>t, <2>1, <2>4 DEF OverCap
    <3>6. Len(accepted') <= total' /\ Len(accepted') <= TOTAL_CAP /\ total' \in Nat
      BY <1>t, <2>1, <2>2, <3>4, <3>5 DEF ReaderInv
    <3>7. destroyed' \in BOOLEAN /\ (failure' => destroyed') /\ (rejected' => destroyed')
      BY <3>1, <1>r
    <3> QED  BY <1>t, <1>p, <2>2, <3>1, <3>2, <3>3, <3>4, <3>6, <3>7
  <2> QED  BY <2>3, <2>4
<1>2. CASE End
  <2>1. /\ ~rejected /\ ended' = TRUE /\ pump(buf, failure, TRUE, waiter)
        /\ destroyed' = (rejected' \/ destroyed)
        /\ total' = total /\ failure' = failure /\ accepted' = accepted
    BY <1>2, <1>r DEF End
  <2>2. destroyed' \in BOOLEAN /\ (failure' => destroyed') /\ (rejected' => destroyed')
    BY <2>1 DEF ReaderInv
  <2> QED  BY <1>t, <1>p, <2>1, <2>2 DEF ReaderInv
<1>3. CASE Error
  <2>1. /\ ~rejected /\ failure' = TRUE /\ destroyed' = TRUE /\ pump(buf, TRUE, ended, waiter)
        /\ total' = total /\ ended' = ended /\ accepted' = accepted
    BY <1>3, <1>r DEF Error
  <2> QED  BY <1>t, <1>p, <2>1 DEF ReaderInv
<1>4. CASE Read
  <2>1. /\ ~rejected /\ Len(delivered) < Len(Caps) /\ pump(buf, failure, ended, TRUE)
        /\ destroyed' = (rejected' \/ destroyed)
        /\ total' = total /\ ended' = ended /\ failure' = failure /\ accepted' = accepted
    BY <1>4 DEF Read
  <2>2. destroyed' \in BOOLEAN /\ (failure' => destroyed') /\ (rejected' => destroyed')
    BY <2>1 DEF ReaderInv
  <2> QED  BY <1>t, <1>p, <2>1, <2>2 DEF ReaderInv
<1>5. CASE Deadline \/ UNCHANGED frameVars
  <2>1. /\ UNCHANGED <<buf, total, ended, failure, waiter, delivered, rejected, accepted>>
        /\ destroyed' \in BOOLEAN /\ (destroyed => destroyed')
    BY <1>5 DEF Deadline, frameVars, FrameTypeOK
  <2>2. FrameTypeOK' /\ ReaderInv'  BY <2>1 DEF FrameTypeOK, ReaderInv
  <2>3. NoByteLost' /\ NoStarvedRead' /\ RefusedForCause' /\ CapsRespected'
    BY <2>1 DEF NoByteLost, NoStarvedRead, RefusedForCause, CapsRespected,
                Complete, TooLong, HasHeader, cap
  <2> QED  BY <2>2, <2>3
<1> QED  BY <1>1, <1>2, <1>3, <1>4, <1>5 DEF FrameNext

THEOREM ReaderInductive == FrameSpec => []FrameInv
BY InitInv, StepInv, PTL DEF FrameSpec

-----------------------------------------------------------------------------
(* What the run checks, for every stream, every chunking and every caller. *)

(* The buffer stays within the total cap and only holds bytes.             *)
THEOREM ReaderTypeCorrect == FrameSpec => []FrameTypeOK
<1>1. FrameInv => FrameTypeOK  BY DEF FrameInv
<1> QED  BY <1>1, ReaderInductive, PTL

(* The frames that read() returned and what is buffered are exactly the    *)
(* bytes accepted from the socket, in order.                               *)
THEOREM BytesAreKept == FrameSpec => []NoByteLost
<1>1. FrameInv => NoByteLost  BY DEF FrameInv
<1> QED  BY <1>1, ReaderInductive, PTL

(* A pending read is never left waiting for what has already come.         *)
THEOREM ReadsAreServed == FrameSpec => []NoStarvedRead
<1>1. FrameInv => NoStarvedRead  BY DEF FrameInv
<1> QED  BY <1>1, ReaderInductive, PTL

(* A read is only refused for a failure, an oversize length or an end.     *)
THEOREM RefusalHasGround == FrameSpec => []RefusedForCause
<1>1. FrameInv => RefusedForCause  BY DEF FrameInv
<1> QED  BY <1>1, ReaderInductive, PTL

(* No frame is longer than the cap its read() named.                       *)
THEOREM CapsHold == FrameSpec => []CapsRespected
<1>1. FrameInv => CapsRespected  BY DEF FrameInv
<1> QED  BY <1>1, ReaderInductive, PTL

=============================================================================
