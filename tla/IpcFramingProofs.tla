-------------------------- MODULE IpcFramingProofs --------------------------
(***************************************************************************)
(* What FrameDecoder makes of the frames of encodeFrame, for any size of a *)
(* byte and of a header, any texts, and however a stream of frames is cut. *)
(***************************************************************************)
EXTENDS IpcFraming, RecursionLemmas, SequenceTheorems

----------------------------------------------------------------------------
(* The header                                                              *)

LEMMA WeightUnfolds ==
  /\ Weight[0] = 1
  /\ \A i \in 1..HeaderLength : Weight[i] = Base * Weight[i - 1]
  /\ \A i \in 0..HeaderLength : Weight[i] \in Nat \ {0}
  <1> DEFINE V == Nat \ {0}
             step == [i \in 1..HeaderLength |-> [s \in V |-> Base * s]]
  <1>1. HeaderLength \in Nat /\ Base \in V
    BY FramingAssumption
  <1>2. step \in [1..HeaderLength -> [V -> V]]
    <2>1. \A s \in V : Base * s \in V
      BY <1>1
    <2> QED
      BY <2>1
  <1>3. PICK f \in [0..HeaderLength -> V] :
          f[0] = 1 /\ \A i \in 1..HeaderLength : f[i] = step[i][f[i - 1]]
    <2>0. 1 \in V
      OBVIOUS
    <2> HIDE DEF step, V
    <2>1. Recursions(HeaderLength, V, 1, step) # {}
      BY <1>1, <1>2, <2>0, RecursionUpTo
    <2> QED
      BY <2>1 DEF Recursions
  <1>4. f = [i \in 0..HeaderLength |-> IF i = 0 THEN 1 ELSE Base * f[i - 1]]
    <2>1. ASSUME NEW i \in 1..HeaderLength PROVE f[i] = Base * f[i - 1]
      <3>1. f[i - 1] \in V
        BY <1>1, <1>3
      <3> QED
        BY <1>3, <3>1
    <2>2. \A i \in 0..HeaderLength : f[i] = IF i = 0 THEN 1 ELSE Base * f[i - 1]
      BY <1>3, <2>1
    <2> QED
      BY <1>3, <2>2
  <1>5. Weight = [i \in 0..HeaderLength |-> IF i = 0 THEN 1 ELSE Base * Weight[i - 1]]
    BY <1>4, Zenon DEF Weight
  <1>6. Weight[0] = 1 /\ \A i \in 1..HeaderLength : Weight[i] = Base * Weight[i - 1]
    BY <1>1, <1>5
  <1> DEFINE S == {i \in 0..HeaderLength : Weight[i] \in V}
  <1>7. 0 \in S
    BY <1>1, <1>6
  <1>8. ASSUME NEW i \in 1..HeaderLength, i - 1 \in S PROVE i \in S
    <2>1. Weight[i - 1] \in V /\ Weight[i] = Base * Weight[i - 1]
      BY <1>6, <1>8
    <2>2. PICK w \in V : w = Weight[i - 1]
      BY <2>1
    <2>3. Base * w \in V
      BY <1>1
    <2> QED
      BY <2>1, <2>2, <2>3
  <1> HIDE DEF S
  <1>9. 0..HeaderLength \subseteq S
    BY <1>1, <1>7, <1>8, InductionUpTo
  <1> QED
    BY <1>6, <1>9 DEF S

LEMMA RemainderIs ==
  ASSUME NEW n \in Nat, NEW p \in Nat \ {0}, NEW q \in Nat, NEW r \in 0..(p - 1), n = q * p + r
  PROVE  n % p = r
  OBVIOUS

\* The last digit of a number, and the number without it.
LEMMA NextDigit ==
  ASSUME NEW n \in Nat, NEW p \in Nat \ {0}, NEW b \in Nat \ {0}
  PROVE  n % (b * p) = (n % p) + ((n \div p) % b) * p
  <1>1. PICK q \in Nat, r \in 0..(p - 1) : n = q * p + r /\ q = n \div p /\ r = n % p
    OBVIOUS
  <1>2. PICK k \in Nat, d \in 0..(b - 1) : q = k * b + d /\ d = q % b
    OBVIOUS
  <1>3. n = k * (b * p) + (d * p + r)
    <2>1. (k * b + d) * p = k * (b * p) + d * p
      OBVIOUS
    <2>2. n = (k * b + d) * p + r
      BY <1>1, <1>2
    <2>3. PICK x \in Nat, y \in Nat : x = k * (b * p) /\ y = d * p
      OBVIOUS
    <2>4. n = (x + y) + r
      BY <2>1, <2>2, <2>3
    <2>5. n = x + (y + r)
      BY <2>4
    <2> QED
      BY <2>3, <2>5
  <1>4. d * p + r \in 0..(b * p - 1)
    <2>1. d * p <= (b - 1) * p
      OBVIOUS
    <2>2. (b - 1) * p = b * p - p
      OBVIOUS
    <2>3. d * p \in Nat /\ b * p \in Nat
      OBVIOUS
    <2> QED
      BY <2>1, <2>2, <2>3
  <1>5. b * p \in Nat \ {0}
    OBVIOUS
  <1>6. PICK m \in Nat \ {0}, e \in Nat : m = b * p /\ e = d * p + r /\ e < m
    BY <1>4, <1>5
  <1>7. n % m = e
    <2>1. n = k * m + e
      BY <1>3, <1>6
    <2>2. e \in 0..(m - 1)
      BY <1>6
    <2> QED
      BY <2>1, <2>2, RemainderIs
  <1>8. d = (n \div p) % b /\ r = n % p
    BY <1>1, <1>2
  <1>9. n % (b * p) = d * p + r
    BY <1>6, <1>7
  <1>10. PICK y \in Nat : y = d * p
    OBVIOUS
  <1>11. n % (b * p) = r + y
    BY <1>9, <1>10
  <1> QED
    BY <1>8, <1>10, <1>11

LEMMA HeaderBytes ==
  ASSUME NEW n \in Nat
  PROVE  Header(n) \in Seq(Bytes) /\ Len(Header(n)) = HeaderLength
  <1>1. HeaderLength \in Nat /\ Base \in Nat \ {0}
    BY FramingAssumption
  <1>2. ASSUME NEW i \in 1..HeaderLength
        PROVE  (n \div Weight[i - 1]) % Base \in Bytes
    <2>1. PICK w \in Nat \ {0} : w = Weight[i - 1]
      BY <1>1, WeightUnfolds
    <2>2. n \div w \in Nat
      OBVIOUS
    <2>3. (n \div w) % Base \in 0..(Base - 1)
      BY <1>1, <2>2
    <2> QED
      BY <2>1, <2>3 DEF Bytes
  <1>3. Header(n) \in [1..HeaderLength -> Bytes]
    BY <1>2 DEF Header
  <1> QED
    BY <1>1, <1>3

\* readUInt32LE undoes writeUInt32LE.
LEMMA DeclaredOfHeader ==
  ASSUME NEW n \in Nat, n < Weight[HeaderLength],
         NEW bytes, \A i \in 1..HeaderLength : bytes[i] = Header(n)[i]
  PROVE  Declared(bytes) = n
  <1> DEFINE Value[i \in 0..HeaderLength] ==
               IF i = 0 THEN 0 ELSE Value[i - 1] + bytes[i] * Weight[i - 1]
             f == [i \in 0..HeaderLength |-> n % Weight[i]]
  <1>1. HeaderLength \in Nat /\ Base \in Nat \ {0}
    BY FramingAssumption
  <1>2. ASSUME NEW i \in 1..HeaderLength PROVE f[i] = f[i - 1] + bytes[i] * Weight[i - 1]
    <2>1. PICK w \in Nat \ {0} : w = Weight[i - 1]
      BY <1>1, WeightUnfolds
    <2>2. Weight[i] = Base * w
      BY <2>1, WeightUnfolds
    <2>3. bytes[i] = (n \div w) % Base
      BY <2>1 DEF Header
    <2>4. n % (Base * w) = (n % w) + ((n \div w) % Base) * w
      BY <1>1, NextDigit
    <2>5. f[i] = n % (Base * w) /\ f[i - 1] = n % w
      BY <1>1, <2>1, <2>2
    <2> QED
      BY <2>1, <2>3, <2>4, <2>5
  <1>3. f[0] = 0
    BY <1>1, WeightUnfolds
  <1>4. f = [i \in 0..HeaderLength |-> IF i = 0 THEN 0 ELSE f[i - 1] + bytes[i] * Weight[i - 1]]
    <2> HIDE DEF f, Value
    <2>1. \A i \in 0..HeaderLength :
            f[i] = IF i = 0 THEN 0 ELSE f[i - 1] + bytes[i] * Weight[i - 1]
      BY <1>1, <1>2, <1>3
    <2>2. f = [i \in 0..HeaderLength |-> f[i]]
      BY DEF f
    <2> QED
      BY <2>1, <2>2
  <1>5. Value = [i \in 0..HeaderLength |->
                  IF i = 0 THEN 0 ELSE Value[i - 1] + bytes[i] * Weight[i - 1]]
    <2> HIDE DEF f
    <2> QED
      BY <1>4, Zenon DEF Value
  <1> DEFINE S == {i \in 0..HeaderLength : Value[i] = f[i]}
  <1> HIDE DEF Value, f
  <1>6. 0 \in S
    BY <1>1, <1>3, <1>5
  <1>7. ASSUME NEW i \in 1..HeaderLength, i - 1 \in S PROVE i \in S
    BY <1>1, <1>2, <1>5, <1>7
  <1> HIDE DEF S
  <1>8. 0..HeaderLength \subseteq S
    BY <1>1, <1>6, <1>7, InductionUpTo
  <1>9. Value[HeaderLength] = n % Weight[HeaderLength]
    BY <1>1, <1>8 DEF S, f
  <1>10. n % Weight[HeaderLength] = n
    <2>1. PICK w \in Nat \ {0} : w = Weight[HeaderLength]
      BY <1>1, WeightUnfolds
    <2> QED
      BY <2>1
  <1> QED
    BY <1>9, <1>10 DEF Declared, Value

----------------------------------------------------------------------------
(* Sequences that are put together                                         *)

LEMMA AppendIs ==
  ASSUME NEW S, NEW seq \in Seq(S), NEW x \in S
  PROVE  /\ Append(seq, x) \in Seq(S)
         /\ Len(Append(seq, x)) = Len(seq) + 1
         /\ \A i \in 1..Len(seq) : Append(seq, x)[i] = seq[i]
         /\ Append(seq, x)[Len(seq) + 1] = x
  BY AppendProperties

LEMMA ConsIs ==
  ASSUME NEW S, NEW seq \in Seq(S), NEW x \in S
  PROVE  /\ <<x>> \o seq \in Seq(S)
         /\ Len(<<x>> \o seq) = Len(seq) + 1
         /\ (<<x>> \o seq)[1] = x
         /\ \A i \in 2..(Len(seq) + 1) : (<<x>> \o seq)[i] = seq[i - 1]
  <1>1. <<x>> \in Seq(S) /\ Len(<<x>>) = 1 /\ <<x>>[1] = x
    OBVIOUS
  <1>2. PICK one \in Seq(S) : one = <<x>> /\ Len(one) = 1 /\ one[1] = x
    BY <1>1
  <1>3. /\ one \o seq \in Seq(S)
        /\ Len(one \o seq) = Len(one) + Len(seq)
        /\ \A i \in 1..(Len(one) + Len(seq)) :
             (one \o seq)[i] = IF i <= Len(one) THEN one[i] ELSE seq[i - Len(one)]
    BY ConcatProperties
  <1>4. Len(seq) \in Nat
    OBVIOUS
  <1>5. (one \o seq)[1] = x /\ \A i \in 2..(Len(seq) + 1) : (one \o seq)[i] = seq[i - 1]
    BY <1>2, <1>3, <1>4
  <1> QED
    BY <1>2, <1>3, <1>4, <1>5

\* The sequences over a set, as far as putting them together goes.
Concatenable(Q) ==
  /\ <<>> \in Q
  /\ \A x \in Q : <<>> \o x = x /\ x \o <<>> = x
  /\ \A x, y \in Q : x \o y \in Q
  /\ \A x, y, z \in Q : (x \o y) \o z = x \o (y \o z)

LEMMA SeqConcatenable == ASSUME NEW S PROVE Concatenable(Seq(S))
  <1>1. <<>> \in Seq(S) /\ \A x \in Seq(S) : <<>> \o x = x /\ x \o <<>> = x
    BY EmptySeq, ConcatEmptySeq
  <1>2. \A x, y \in Seq(S) : x \o y \in Seq(S)
    BY ConcatProperties
  <1>3. \A x, y, z \in Seq(S) : (x \o y) \o z = x \o (y \o z)
    BY ConcatAssociative
  <1> QED
    BY <1>1, <1>2, <1>3 DEF Concatenable

\* What there is after each of the sequences.
Joins(Q, seqs) ==
  {g \in [0..Len(seqs) -> Q] :
     g[0] = <<>> /\ \A i \in 1..Len(seqs) : g[i] = g[i - 1] \o seqs[i]}

LEMMA JoinsExist ==
  ASSUME NEW Q, Concatenable(Q), NEW seqs \in Seq(Q)
  PROVE  Joins(Q, seqs) # {}
  <1>1. PICK n \in Nat : n = Len(seqs)
    OBVIOUS
  <1>2. PICK step : step = [i \in 1..n |-> [s \in Q |-> s \o seqs[i]]]
    OBVIOUS
  <1>3. step \in [1..n -> [Q -> Q]]
    <2>1. ASSUME NEW i \in 1..n, NEW s \in Q PROVE s \o seqs[i] \in Q
      <3>1. seqs[i] \in Q
        BY <1>1
      <3> QED
        BY <3>1 DEF Concatenable
    <2> QED
      BY <1>2, <2>1
  <1>4. <<>> \in Q
    BY DEF Concatenable
  <1>5. PICK g \in [0..n -> Q] : g[0] = <<>> /\ \A i \in 1..n : g[i] = step[i][g[i - 1]]
    <2>1. Recursions(n, Q, <<>>, step) # {}
      BY <1>3, <1>4, RecursionUpTo
    <2> QED
      BY <2>1 DEF Recursions
  <1>6. ASSUME NEW i \in 1..n PROVE g[i] = g[i - 1] \o seqs[i]
    <2>1. g[i - 1] \in Q
      BY <1>5
    <2> QED
      BY <1>2, <1>5, <2>1
  <1>7. g \in Joins(Q, seqs)
    BY <1>1, <1>5, <1>6 DEF Joins
  <1> QED
    BY <1>7

LEMMA FlattenIsJoin ==
  ASSUME NEW Q, Concatenable(Q), NEW seqs \in Seq(Q), NEW g \in Joins(Q, seqs)
  PROVE  FlattenSeq(seqs) = g[Len(seqs)]
  <1> DEFINE flatten[i \in 1..Len(seqs)] ==
               IF i = 1 THEN seqs[i] ELSE flatten[i - 1] \o seqs[i]
  <1>1. PICK n \in Nat : n = Len(seqs)
    OBVIOUS
  <1>2. g \in [0..n -> Q] /\ g[0] = <<>> /\ \A i \in 1..n : g[i] = g[i - 1] \o seqs[i]
    BY <1>1 DEF Joins
  <1>3. \A i \in 1..n : seqs[i] \in Q
    BY <1>1
  <1>4. CASE n = 0
    <2>1. seqs = <<>>
      BY <1>1, <1>4, EmptySeq
    <2> QED
      BY <1>1, <1>2, <1>4, <2>1 DEF FlattenSeq
  <1>5. CASE n # 0
    <2> HIDE DEF flatten
    <2>1. g[1] = seqs[1]
      <3>1. 1 \in 1..n /\ 1 - 1 = 0
        BY <1>5
      <3>2. g[1] = <<>> \o seqs[1] /\ seqs[1] \in Q
        BY <1>2, <1>3, <3>1
      <3> QED
        BY <3>2 DEF Concatenable
    <2>2. PICK f : f = [i \in 1..n |-> g[i]]
      OBVIOUS
    <2>3. f = [i \in 1..Len(seqs) |-> IF i = 1 THEN seqs[i] ELSE f[i - 1] \o seqs[i]]
      <3>1. ASSUME NEW i \in 1..n
            PROVE  g[i] = IF i = 1 THEN seqs[i] ELSE f[i - 1] \o seqs[i]
        <4>1. CASE i = 1
          BY <2>1, <4>1
        <4>2. CASE i # 1
          <5>1. i - 1 \in 1..n
            BY <4>2
          <5>2. f[i - 1] = g[i - 1]
            BY <2>2, <5>1
          <5> QED
            BY <1>2, <4>2, <5>2
        <4> QED
          BY <4>1, <4>2
      <3> QED
        BY <1>1, <2>2, <3>1
    <2>4. flatten = [i \in 1..Len(seqs) |-> IF i = 1 THEN seqs[i] ELSE flatten[i - 1] \o seqs[i]]
      BY <2>3, Zenon DEF flatten
    <2> DEFINE T == {i \in 0..n : i = 0 \/ flatten[i] = g[i]}
    <2>5. 0 \in T
      OBVIOUS
    <2>6. ASSUME NEW i \in 1..n, i - 1 \in T PROVE i \in T
      <3>1. flatten[i] = IF i = 1 THEN seqs[i] ELSE flatten[i - 1] \o seqs[i]
        BY <1>1, <2>4
      <3>2. CASE i = 1
        BY <2>1, <3>1, <3>2
      <3>3. CASE i # 1
        <4>1. flatten[i - 1] = g[i - 1]
          BY <2>6, <3>3
        <4>2. flatten[i] = g[i]
          BY <1>2, <3>1, <3>3, <4>1
        <4> QED
          BY <4>2
      <3> QED
        BY <3>2, <3>3
    <2> HIDE DEF T
    <2>7. 0..n \subseteq T
      BY <2>5, <2>6, InductionUpTo
    <2>8. flatten[n] = g[n]
      BY <1>5, <2>7 DEF T
    <2>9. FlattenSeq(seqs) = flatten[Len(seqs)]
      BY <1>1, <1>5 DEF FlattenSeq, flatten
    <2> QED
      BY <1>1, <2>8, <2>9
  <1> QED
    BY <1>4, <1>5

LEMMA FlattenAppend ==
  ASSUME NEW Q, Concatenable(Q), NEW seqs \in Seq(Q), NEW x \in Q
  PROVE  FlattenSeq(seqs) \in Q /\ FlattenSeq(Append(seqs, x)) = FlattenSeq(seqs) \o x
  <1>1. PICK g \in Joins(Q, seqs) : TRUE
    BY JoinsExist
  <1>2. PICK n \in Nat : n = Len(seqs)
    OBVIOUS
  <1>3. /\ g \in [0..n -> Q] /\ g[0] = <<>> /\ \A i \in 1..n : g[i] = g[i - 1] \o seqs[i]
    BY <1>2 DEF Joins
  <1>4. FlattenSeq(seqs) = g[n] /\ g[n] \in Q
    BY <1>1, <1>2, <1>3, FlattenIsJoin
  <1>5. PICK longer : longer = Append(seqs, x)
    OBVIOUS
  <1>6. /\ longer \in Seq(Q) /\ Len(longer) = n + 1
        /\ \A i \in 1..n : longer[i] = seqs[i]
        /\ longer[n + 1] = x
    BY <1>2, <1>5, AppendIs
  <1>7. PICK y \in Q : y = g[n] \o x
    BY <1>4 DEF Concatenable
  <1>8. PICK h \in [0..(n + 1) -> Q] : h[n + 1] = y /\ \A i \in 0..n : h[i] = g[i]
    <2> DEFINE k == [i \in 0..(n + 1) |-> IF i = n + 1 THEN y ELSE g[i]]
    <2>1. k \in [0..(n + 1) -> Q]
      BY <1>3
    <2>2. k[n + 1] = y /\ \A i \in 0..n : k[i] = g[i]
      OBVIOUS
    <2> HIDE DEF k
    <2> QED
      BY <2>1, <2>2
  <1>9. h[0] = <<>>
    BY <1>3, <1>8
  <1>10. ASSUME NEW i \in 1..(n + 1) PROVE h[i] = h[i - 1] \o longer[i]
    <2>1. h[i - 1] = g[i - 1]
      BY <1>8
    <2>2. CASE i = n + 1
      <3>1. i - 1 = n
        BY <2>2
      <3> QED
        BY <1>6, <1>7, <1>8, <2>1, <2>2, <3>1
    <2>3. CASE i \in 1..n
      <3>1. h[i] = g[i] /\ longer[i] = seqs[i]
        BY <1>6, <1>8, <2>3
      <3> QED
        BY <1>3, <2>1, <2>3, <3>1
    <2> QED
      BY <2>2, <2>3
  <1>11. h \in Joins(Q, longer)
    BY <1>6, <1>9, <1>10 DEF Joins
  <1>12. FlattenSeq(longer) = h[n + 1]
    BY <1>6, <1>11, FlattenIsJoin
  <1> QED
    BY <1>4, <1>5, <1>7, <1>8, <1>12

LEMMA FlattenCons ==
  ASSUME NEW Q, Concatenable(Q), NEW seqs \in Seq(Q), NEW x \in Q
  PROVE  FlattenSeq(<<x>> \o seqs) = x \o FlattenSeq(seqs)
  <1>1. PICK g \in Joins(Q, seqs) : TRUE
    BY JoinsExist
  <1>2. PICK n \in Nat : n = Len(seqs)
    OBVIOUS
  <1>3. /\ g \in [0..n -> Q] /\ g[0] = <<>> /\ \A i \in 1..n : g[i] = g[i - 1] \o seqs[i]
    BY <1>2 DEF Joins
  <1>4. FlattenSeq(seqs) = g[n] /\ g[n] \in Q
    BY <1>1, <1>2, <1>3, FlattenIsJoin
  <1>5. PICK longer : longer = <<x>> \o seqs
    OBVIOUS
  <1>6. /\ longer \in Seq(Q) /\ Len(longer) = n + 1
        /\ longer[1] = x
        /\ \A i \in 2..(n + 1) : longer[i] = seqs[i - 1]
    BY <1>2, <1>5, ConsIs
  <1>7. PICK h \in [0..(n + 1) -> Q] : h[0] = <<>> /\ \A i \in 0..n : h[i + 1] = x \o g[i]
    <2>1. ASSUME NEW i \in 0..n PROVE x \o g[i] \in Q
      <3>1. g[i] \in Q
        BY <1>3
      <3> QED
        BY <3>1 DEF Concatenable
    <2>2. PICK f \in [0..n -> Q] : \A i \in 0..n : f[i] = x \o g[i]
      <3>1. [i \in 0..n |-> x \o g[i]] \in [0..n -> Q]
        BY <2>1
      <3> QED
        BY <3>1
    <2>3. <<>> \in Q
      BY DEF Concatenable
    <2>4. PICK k \in [0..(n + 1) -> Q] : k[0] = <<>> /\ \A i \in 1..(n + 1) : k[i] = f[i - 1]
      <3> DEFINE j == [i \in 0..(n + 1) |-> IF i = 0 THEN <<>> ELSE f[i - 1]]
      <3>1. j \in [0..(n + 1) -> Q]
        BY <2>2, <2>3
      <3>2. j[0] = <<>> /\ \A i \in 1..(n + 1) : j[i] = f[i - 1]
        OBVIOUS
      <3> HIDE DEF j
      <3> QED
        BY <3>1, <3>2
    <2>5. \A i \in 0..n : k[i + 1] = f[i]
      BY <2>4
    <2> QED
      BY <2>2, <2>4, <2>5
  <1>8. ASSUME NEW i \in 1..(n + 1) PROVE h[i] = h[i - 1] \o longer[i]
    <2>1. h[i] = x \o g[i - 1] /\ i - 1 \in 0..n
      <3>1. i - 1 \in 0..n /\ (i - 1) + 1 = i
        OBVIOUS
      <3> QED
        BY <1>7, <3>1
    <2>2. CASE i = 1
      <3>1. h[i] = x \o <<>> /\ h[i - 1] = <<>> /\ longer[i] = x
        <4>1. i - 1 = 0
          BY <2>2
        <4>2. g[i - 1] = <<>> /\ h[i - 1] = <<>>
          BY <1>3, <1>7, <4>1
        <4>3. longer[i] = x
          BY <1>6, <2>2
        <4> QED
          BY <2>1, <4>2, <4>3
      <3> QED
        BY <3>1 DEF Concatenable
    <2>3. CASE i # 1
      <3>1. i - 1 \in 1..n /\ i - 2 \in 0..n /\ (i - 1) - 1 = i - 2 /\ i \in 2..(n + 1)
            /\ (i - 2) + 1 = i - 1
        BY <2>3
      <3>2. h[i - 1] = x \o g[i - 2] /\ longer[i] = seqs[i - 1]
        BY <1>6, <1>7, <3>1
      <3>3. g[i - 2] \in Q /\ seqs[i - 1] \in Q /\ g[i - 1] = g[i - 2] \o seqs[i - 1]
        BY <1>2, <1>3, <3>1
      <3>4. (x \o g[i - 2]) \o seqs[i - 1] = x \o (g[i - 2] \o seqs[i - 1])
        BY <3>3 DEF Concatenable
      <3> QED
        BY <2>1, <3>2, <3>3, <3>4
    <2> QED
      BY <2>2, <2>3
  <1>9. h \in Joins(Q, longer)
    BY <1>6, <1>7, <1>8 DEF Joins
  <1>10. FlattenSeq(longer) = h[n + 1]
    BY <1>6, <1>9, FlattenIsJoin
  <1>11. h[n + 1] = x \o g[n]
    BY <1>7
  <1> QED
    BY <1>4, <1>5, <1>10, <1>11

LEMMA AppendJoins ==
  ASSUME NEW S, NEW seq \in Seq(S), NEW x \in S
  PROVE  Append(seq, x) \in Seq(S) /\ Append(seq, x) = seq \o <<x>>
  BY AppendIsConcat, AppendProperties

LEMMA HeadAndRest ==
  ASSUME NEW S, NEW seq \in Seq(S), seq # <<>>
  PROVE  \E x \in S, rest \in Seq(S) : seq = <<x>> \o rest
  <1>1. PICK n \in Nat : Len(seq) = n + 1
    <2>1. Len(seq) \in Nat /\ Len(seq) # 0
      BY EmptySeq
    <2>2. Len(seq) - 1 \in Nat /\ Len(seq) = (Len(seq) - 1) + 1
      BY <2>1
    <2> QED
      BY <2>2
  <1>2. PICK x \in S, rest \in Seq(S) : /\ x = seq[1] /\ Len(rest) = n
                                       /\ \A i \in 1..n : rest[i] = seq[i + 1]
    <2>1. \A i \in 1..(n + 1) : seq[i] \in S
      BY <1>1
    <2> DEFINE r == [i \in 1..n |-> seq[i + 1]]
    <2>2. r \in [1..n -> S]
      BY <2>1
    <2>3. \A i \in 1..n : r[i] = seq[i + 1]
      OBVIOUS
    <2> HIDE DEF r
    <2>4. r \in Seq(S) /\ Len(r) = n
      BY <2>2
    <2>5. seq[1] \in S
      BY <2>1
    <2> QED
      BY <2>3, <2>4, <2>5
  <1>3. PICK t \in Seq(S) : /\ t = <<x>> \o rest /\ Len(t) = Len(rest) + 1 /\ t[1] = x
                            /\ \A i \in 2..(Len(rest) + 1) : t[i] = rest[i - 1]
    <2>1. /\ <<x>> \o rest \in Seq(S)
          /\ Len(<<x>> \o rest) = Len(rest) + 1
          /\ (<<x>> \o rest)[1] = x
          /\ \A i \in 2..(Len(rest) + 1) : (<<x>> \o rest)[i] = rest[i - 1]
      BY ConsIs
    <2> QED
      BY <2>1
  <1>4. Len(t) = Len(seq)
    BY <1>1, <1>2, <1>3
  <1>5. ASSUME NEW i \in 1..Len(seq) PROVE t[i] = seq[i]
    <2>1. CASE i = 1
      BY <1>2, <1>3, <2>1
    <2>2. CASE i # 1
      <3>1. i \in 2..(Len(rest) + 1) /\ i - 1 \in 1..n /\ (i - 1) + 1 = i
        BY <1>1, <1>2, <2>2
      <3> QED
        BY <1>2, <1>3, <3>1
    <2> QED
      BY <2>1, <2>2
  <1>6. t = seq
    BY <1>3, <1>4, <1>5, SeqEqual
  <1> QED
    BY <1>3, <1>6

----------------------------------------------------------------------------
(* Frames on the wire                                                      *)

\* A text with its header.
Packed(text) == Header(Len(text)) \o text

LEMMA PackedBytes ==
  ASSUME NEW t \in Seq(Bytes), Len(t) \in 1..MaxFrame
  PROVE  /\ Packed(t) \in Seq(Bytes) /\ Len(Packed(t)) = HeaderLength + Len(t)
         /\ \A i \in 1..HeaderLength : Packed(t)[i] = Header(Len(t))[i]
         /\ \A i \in 1..Len(t) : Packed(t)[HeaderLength + i] = t[i]
  <1>1. PICK n \in Nat : n = Len(t)
    OBVIOUS
  <1>2. PICK h \in Seq(Bytes) : h = Header(n) /\ Len(h) = HeaderLength
    BY HeaderBytes
  <1>3. /\ h \o t \in Seq(Bytes) /\ Len(h \o t) = Len(h) + Len(t)
        /\ \A i \in 1..(Len(h) + Len(t)) :
             (h \o t)[i] = IF i <= Len(h) THEN h[i] ELSE t[i - Len(h)]
    BY ConcatProperties
  <1>4. HeaderLength \in Nat
    BY FramingAssumption
  <1>5. PICK f \in Seq(Bytes) : f = h \o t
    BY <1>3
  <1>6. f = Packed(t)
    BY <1>1, <1>2, <1>5 DEF Packed
  <1>7. Len(f) = HeaderLength + n /\ \A i \in 1..(HeaderLength + n) :
          f[i] = IF i <= HeaderLength THEN h[i] ELSE t[i - HeaderLength]
    BY <1>1, <1>2, <1>3, <1>5
  <1>8. \A i \in 1..n : f[HeaderLength + i] = t[i]
    <2> SUFFICES ASSUME NEW i \in 1..n PROVE f[HeaderLength + i] = t[i]
      OBVIOUS
    <2>1. HeaderLength + i \in 1..(HeaderLength + n) /\ ~(HeaderLength + i <= HeaderLength)
          /\ (HeaderLength + i) - HeaderLength = i
      BY <1>4
    <2> QED
      BY <1>7, <2>1
  <1>9. \A i \in 1..HeaderLength : f[i] = h[i]
    BY <1>4, <1>7
  <1> QED
    BY <1>1, <1>2, <1>6, <1>7, <1>8, <1>9

LEMMA FrameBytes ==
  ASSUME NEW m \in Messages
  PROVE  /\ Text[m] \in Seq(Bytes) /\ Len(Text[m]) \in 1..MaxFrame
         /\ Frame(m) = Packed(Text[m]) /\ Frame(m) \in Seq(Bytes)
  <1>1. Text[m] \in Seq(Bytes) /\ Len(Text[m]) \in 1..MaxFrame
    BY FramingAssumption
  <1>2. Frame(m) = Packed(Text[m])
    BY DEF Frame, Packed
  <1> QED
    BY <1>1, <1>2, PackedBytes

LEMMA WireBytes == Wire(<<>>) = <<>> /\ \A u \in Seq(Messages) : Wire(u) \in Seq(Bytes)
  <1>1. Wire(<<>>) = <<>>
    <2>1. [i \in DOMAIN <<>> |-> Frame(<<>>[i])] = <<>>
      OBVIOUS
    <2> QED
      BY <2>1 DEF Wire, FlattenSeq
  <1>2. ASSUME NEW u \in Seq(Messages) PROVE Wire(u) \in Seq(Bytes)
    <2> DEFINE frames == [i \in DOMAIN u |-> Frame(u[i])]
    <2>1. PICK Q : Q = Seq(Bytes)
      OBVIOUS
    <2>2. Concatenable(Q) /\ \A k \in Messages : Frame(k) \in Q
      BY <2>1, SeqConcatenable, FrameBytes
    <2>3. frames \in Seq(Q)
      <3>1. DOMAIN u = 1..Len(u) /\ Len(u) \in Nat /\ \A i \in 1..Len(u) : u[i] \in Messages
        OBVIOUS
      <3>2. \A i \in 1..Len(u) : Frame(u[i]) \in Q
        BY <2>2, <3>1
      <3>3. frames \in [1..Len(u) -> Q]
        BY <3>1, <3>2
      <3> HIDE DEF frames
      <3> QED
        BY <3>1, <3>3
    <2> HIDE DEF frames
    <2>4. CASE frames = <<>>
      <3>1. FlattenSeq(frames) = <<>>
        BY <2>4 DEF FlattenSeq
      <3> QED
        BY <2>1, <2>2, <3>1 DEF Wire, frames, Concatenable
    <2>5. CASE frames # <<>>
      <3>1. PICK g \in Joins(Q, frames) : FlattenSeq(frames) = g[Len(frames)]
        BY <2>2, <2>3, JoinsExist, FlattenIsJoin
      <3>2. g[Len(frames)] \in Q
        <4>1. g \in [0..Len(frames) -> Q] /\ Len(frames) \in 0..Len(frames)
          BY <2>3 DEF Joins
        <4> QED
          BY <4>1
      <3> QED
        BY <2>1, <3>1, <3>2 DEF Wire, frames
    <2> QED
      BY <2>4, <2>5
  <1> QED
    BY <1>1, <1>2

LEMMA WireProperties ==
  ASSUME NEW u \in Seq(Messages), NEW m \in Messages
  PROVE  /\ Wire(Append(u, m)) = Wire(u) \o Frame(m)
         /\ Wire(<<m>> \o u) = Frame(m) \o Wire(u)
  <1> DEFINE frames(v) == [i \in DOMAIN v |-> Frame(v[i])]
  <1>1. PICK Q : Q = Seq(Bytes)
    OBVIOUS
  <1>2. Concatenable(Q)
    BY <1>1, SeqConcatenable
  <1>3. \A k \in Messages : Frame(k) \in Q
    BY <1>1, FrameBytes
  <1>4. PICK x \in Q : x = Frame(m)
    BY <1>3
  <1>5. ASSUME NEW v \in Seq(Messages)
        PROVE  /\ frames(v) \in Seq(Q) /\ Len(frames(v)) = Len(v)
               /\ \A i \in 1..Len(v) : frames(v)[i] = Frame(v[i])
    <2>1. DOMAIN v = 1..Len(v) /\ Len(v) \in Nat /\ \A i \in 1..Len(v) : v[i] \in Messages
      OBVIOUS
    <2>2. \A i \in 1..Len(v) : Frame(v[i]) \in Q
      BY <1>3, <2>1
    <2>3. frames(v) \in [1..Len(v) -> Q] /\ \A i \in 1..Len(v) : frames(v)[i] = Frame(v[i])
      BY <2>1, <2>2
    <2> HIDE DEF frames
    <2>4. frames(v) \in Seq(Q) /\ Len(frames(v)) = Len(v)
      BY <2>1, <2>3
    <2> QED
      BY <2>3, <2>4
  <1> HIDE DEF frames
  <1>6. PICK f \in Seq(Q) : /\ f = frames(u) /\ Len(f) = Len(u)
                            /\ \A i \in 1..Len(u) : f[i] = Frame(u[i])
    BY <1>5
  <1>7. PICK n \in Nat : n = Len(u)
    OBVIOUS
  <1>8. frames(Append(u, m)) = Append(f, x)
    <2>1. PICK v : v = Append(u, m)
      OBVIOUS
    <2>2. /\ v \in Seq(Messages) /\ Len(v) = n + 1
          /\ \A i \in 1..n : v[i] = u[i]
          /\ v[n + 1] = m
      BY <1>7, <2>1, AppendIs
    <2>3. PICK g \in Seq(Q) : /\ g = frames(v) /\ Len(g) = n + 1
                              /\ \A i \in 1..(n + 1) : g[i] = Frame(v[i])
      BY <1>5, <2>2
    <2>4. PICK k \in Seq(Q) : /\ k = Append(f, x) /\ Len(k) = n + 1
                              /\ \A i \in 1..n : k[i] = f[i]
                              /\ k[n + 1] = x
      <3>1. Len(f) = n
        BY <1>6, <1>7
      <3>2. /\ Append(f, x) \in Seq(Q) /\ Len(Append(f, x)) = n + 1
            /\ \A i \in 1..n : Append(f, x)[i] = f[i]
            /\ Append(f, x)[n + 1] = x
        BY <3>1, AppendIs
      <3> QED
        BY <3>2
    <2>5. ASSUME NEW i \in 1..(n + 1) PROVE g[i] = k[i]
      <3>1. CASE i = n + 1
        BY <1>4, <2>2, <2>3, <2>4, <3>1
      <3>2. CASE i \in 1..n
        BY <1>6, <1>7, <2>2, <2>3, <2>4, <3>2
      <3> QED
        BY <3>1, <3>2
    <2>6. g = k
      BY <2>3, <2>4, <2>5, SeqEqual
    <2> QED
      BY <2>1, <2>3, <2>4, <2>6
  <1>9. frames(<<m>> \o u) = <<x>> \o f
    <2>1. PICK v : v = <<m>> \o u
      OBVIOUS
    <2>2. /\ v \in Seq(Messages) /\ Len(v) = n + 1 /\ v[1] = m
          /\ \A i \in 2..(n + 1) : v[i] = u[i - 1]
      BY <1>7, <2>1, ConsIs
    <2>3. PICK g \in Seq(Q) : /\ g = frames(v) /\ Len(g) = n + 1
                              /\ \A i \in 1..(n + 1) : g[i] = Frame(v[i])
      BY <1>5, <2>2
    <2>4. PICK k \in Seq(Q) : /\ k = <<x>> \o f /\ Len(k) = n + 1 /\ k[1] = x
                              /\ \A i \in 2..(n + 1) : k[i] = f[i - 1]
      <3>1. Len(f) = n
        BY <1>6, <1>7
      <3>2. /\ <<x>> \o f \in Seq(Q) /\ Len(<<x>> \o f) = n + 1 /\ (<<x>> \o f)[1] = x
            /\ \A i \in 2..(n + 1) : (<<x>> \o f)[i] = f[i - 1]
        BY <3>1, ConsIs
      <3> QED
        BY <3>2
    <2>5. ASSUME NEW i \in 1..(n + 1) PROVE g[i] = k[i]
      <3>1. CASE i = 1
        BY <1>4, <2>2, <2>3, <2>4, <3>1
      <3>2. CASE i \in 2..(n + 1)
        <4>1. i - 1 \in 1..n
          BY <3>2
        <4> QED
          BY <1>6, <1>7, <2>2, <2>3, <2>4, <3>2, <4>1
      <3> QED
        BY <3>1, <3>2
    <2>6. g = k
      BY <2>3, <2>4, <2>5, SeqEqual
    <2> QED
      BY <2>1, <2>3, <2>4, <2>6
  <1>10. /\ FlattenSeq(Append(f, x)) = FlattenSeq(f) \o x
         /\ FlattenSeq(<<x>> \o f) = x \o FlattenSeq(f)
    BY <1>2, FlattenAppend, FlattenCons
  <1>11. ASSUME NEW v PROVE Wire(v) = FlattenSeq(frames(v))
    BY DEF Wire, frames
  <1> QED
    BY <1>4, <1>6, <1>8, <1>9, <1>10, <1>11

----------------------------------------------------------------------------
(* A stream of frames that is cut somewhere                                *)

LEMMA SameStart ==
  ASSUME NEW S, NEW a \in Seq(S), NEW b \in Seq(S), NEW c \in Seq(S), NEW e \in Seq(S),
         a \o b = c \o e
  PROVE  /\ Len(a) + Len(b) = Len(c) + Len(e)
         /\ \A i \in 1..Len(a) : i <= Len(c) => a[i] = c[i]
  <1>1. /\ Len(a \o b) = Len(a) + Len(b)
        /\ \A i \in 1..(Len(a) + Len(b)) :
             (a \o b)[i] = IF i <= Len(a) THEN a[i] ELSE b[i - Len(a)]
    BY ConcatProperties
  <1>2. /\ Len(c \o e) = Len(c) + Len(e)
        /\ \A i \in 1..(Len(c) + Len(e)) :
             (c \o e)[i] = IF i <= Len(c) THEN c[i] ELSE e[i - Len(c)]
    BY ConcatProperties
  <1>3. Len(a) \in Nat /\ Len(b) \in Nat /\ Len(c) \in Nat /\ Len(e) \in Nat
    OBVIOUS
  <1>4. ASSUME NEW i \in 1..Len(a), i <= Len(c) PROVE a[i] = c[i]
    <2>1. i \in 1..(Len(a) + Len(b)) /\ i \in 1..(Len(c) + Len(e))
      BY <1>3, <1>4
    <2>2. (a \o b)[i] = a[i] /\ (c \o e)[i] = c[i]
      BY <1>1, <1>2, <1>3, <1>4, <2>1
    <2> QED
      BY <2>2
  <1> QED
    BY <1>1, <1>2, <1>4

\* What is left without the first n.
Dropped(a, n) == SubSeq(a, n + 1, Len(a))

LEMMA DroppedIs ==
  ASSUME NEW S, NEW a \in Seq(S), NEW n \in Nat, n <= Len(a)
  PROVE  /\ Dropped(a, n) \in Seq(S) /\ Len(Dropped(a, n)) = Len(a) - n
         /\ \A i \in 1..(Len(a) - n) : Dropped(a, n)[i] = a[n + i]
  <1>1. PICK k \in Nat : k = Len(a)
    OBVIOUS
  <1>2. n \in Nat /\ n <= k
    BY <1>1
  <1>3. PICK r : r = SubSeq(a, n + 1, k)
    OBVIOUS
  <1>4. \A i \in (n + 1)..k : a[i] \in S
    BY <1>1, <1>2
  <1>5. /\ r \in Seq(S)
        /\ Len(r) = IF n + 1 <= k THEN k - (n + 1) + 1 ELSE 0
        /\ \A i \in 1..(k - (n + 1) + 1) : r[i] = a[(n + 1) + i - 1]
    BY <1>2, <1>3, <1>4, SubSeqProperties
  <1>6. Len(r) = k - n
    BY <1>2, <1>5
  <1>7. ASSUME NEW i \in 1..(k - n) PROVE r[i] = a[n + i]
    <2>1. i \in 1..(k - (n + 1) + 1) /\ (n + 1) + i - 1 = n + i
      BY <1>2
    <2> QED
      BY <1>5, <2>1
  <1>8. r = Dropped(a, n)
    BY <1>1, <1>3 DEF Dropped
  <1> QED
    BY <1>1, <1>5, <1>6, <1>7, <1>8

LEMMA AfterStart ==
  ASSUME NEW S, NEW a \in Seq(S), NEW b \in Seq(S), NEW c \in Seq(S), NEW e \in Seq(S),
         a \o b = c \o e, Len(c) <= Len(a)
  PROVE  Dropped(a, Len(c)) \o b = e
  <1>1. Len(a) \in Nat /\ Len(b) \in Nat /\ Len(c) \in Nat /\ Len(e) \in Nat
    OBVIOUS
  <1>2. PICK n \in Nat : n = Len(c)
    BY <1>1
  <1>3. PICK k \in Nat : k = Len(a) - n /\ Len(a) = n + k
    <2>1. Len(a) - n \in Nat /\ Len(a) = n + (Len(a) - n)
      BY <1>1, <1>2
    <2> QED
      BY <2>1
  <1>4. PICK r : r = Dropped(a, n)
    OBVIOUS
  <1>5. r \in Seq(S) /\ Len(r) = k /\ \A i \in 1..k : r[i] = a[n + i]
    BY <1>2, <1>3, <1>4, DroppedIs
  <1>6. /\ Len(a \o b) = Len(a) + Len(b)
        /\ \A i \in 1..(Len(a) + Len(b)) :
             (a \o b)[i] = IF i <= Len(a) THEN a[i] ELSE b[i - Len(a)]
    BY ConcatProperties
  <1>7. /\ Len(c \o e) = Len(c) + Len(e)
        /\ \A i \in 1..(Len(c) + Len(e)) :
             (c \o e)[i] = IF i <= Len(c) THEN c[i] ELSE e[i - Len(c)]
    BY ConcatProperties
  <1>8. /\ r \o b \in Seq(S) /\ Len(r \o b) = k + Len(b)
        /\ \A i \in 1..(k + Len(b)) : (r \o b)[i] = IF i <= k THEN r[i] ELSE b[i - k]
    BY <1>5, ConcatProperties
  <1>9. Len(e) = k + Len(b)
    BY <1>1, <1>2, <1>3, <1>6, <1>7
  <1>10. ASSUME NEW i \in 1..Len(e) PROVE (r \o b)[i] = e[i]
    <2>1. n + i \in 1..(Len(a) + Len(b)) /\ n + i \in 1..(Len(c) + Len(e)) /\ i \in 1..(k + Len(b))
      BY <1>1, <1>2, <1>3, <1>9
    <2>2. (c \o e)[n + i] = e[i]
      <3>1. ~(n + i <= Len(c)) /\ (n + i) - Len(c) = i
        BY <1>2
      <3> QED
        BY <1>7, <2>1, <3>1
    <2>3. (a \o b)[n + i] = (r \o b)[i]
      <3>1. CASE i <= k
        <4>1. n + i <= Len(a) /\ i \in 1..k
          BY <1>3, <3>1
        <4> QED
          BY <1>5, <1>6, <1>8, <2>1, <3>1, <4>1
      <3>2. CASE ~(i <= k)
        <4>1. ~(n + i <= Len(a)) /\ (n + i) - Len(a) = i - k
          BY <1>3, <3>2
        <4> QED
          BY <1>6, <1>8, <2>1, <3>2, <4>1
      <3> QED
        BY <3>1, <3>2
    <2> QED
      BY <2>2, <2>3
  <1>11. r \o b = e
    <2>1. PICK x \in Seq(S) : x = r \o b /\ Len(x) = Len(e) /\ \A i \in 1..Len(e) : x[i] = e[i]
      BY <1>8, <1>9, <1>10
    <2> QED
      BY <2>1, SeqEqual
  <1> QED
    BY <1>2, <1>4, <1>11

\* The text between a header and what follows it.
LEMMA TextOf ==
  ASSUME NEW t \in Seq(Bytes), Len(t) \in 1..MaxFrame,
         NEW rest \in Seq(Bytes), Len(rest) >= HeaderLength + Len(t),
         \A i \in 1..Len(Packed(t)) : rest[i] = Packed(t)[i]
  PROVE  SubSeq(rest, HeaderLength + 1, HeaderLength + Len(t)) = t
  <1>1. HeaderLength \in Nat
    BY FramingAssumption
  <1>2. PICK n \in Nat : n = Len(t)
    OBVIOUS
  <1>3. /\ Len(Packed(t)) = HeaderLength + n
        /\ \A i \in 1..n : Packed(t)[HeaderLength + i] = t[i]
    BY <1>2, PackedBytes
  <1>4. PICK s : s = SubSeq(rest, HeaderLength + 1, HeaderLength + n)
    OBVIOUS
  <1>5. \A i \in (HeaderLength + 1)..(HeaderLength + n) : rest[i] \in Bytes
    BY <1>1, <1>2
  <1>6. /\ s \in Seq(Bytes)
        /\ Len(s) = IF HeaderLength + 1 <= HeaderLength + n
                    THEN (HeaderLength + n) - (HeaderLength + 1) + 1 ELSE 0
        /\ \A i \in 1..((HeaderLength + n) - (HeaderLength + 1) + 1) :
             s[i] = rest[(HeaderLength + 1) + i - 1]
    BY <1>1, <1>4, <1>5, SubSeqProperties
  <1>7. Len(s) = n
    BY <1>1, <1>2, <1>6
  <1>8. ASSUME NEW i \in 1..n PROVE s[i] = t[i]
    <2>1. /\ i \in 1..((HeaderLength + n) - (HeaderLength + 1) + 1)
          /\ (HeaderLength + 1) + i - 1 = HeaderLength + i
          /\ HeaderLength + i \in 1..(HeaderLength + n)
      BY <1>1
    <2>2. rest[HeaderLength + i] = Packed(t)[HeaderLength + i]
      BY <1>3, <2>1
    <2> QED
      BY <1>3, <1>6, <2>1, <2>2
  <1> QED
    BY <1>2, <1>4, <1>6, <1>7, <1>8, SeqEqual

\* The loop has taken a text off what it had, and left the rest of a stream.
TextTaken(text, messages, rest, tail, others) ==
  \E after \in Seq(Bytes) :
    /\ after \o tail = others /\ Len(after) < Len(rest)
    /\ NextFrame(Decoded(messages, rest)) =
         IF IsJson(text) THEN Decoded(Append(messages, Parse(text)), after)
         ELSE Undecodable(after)

\* A frame at the head of the stream is left alone until it is whole, and then
\* it is taken off, whatever comes after it.
LEMMA FrameAtHead ==
  ASSUME NEW t \in Seq(Bytes), Len(t) \in 1..MaxFrame, NEW messages,
         NEW rest \in Seq(Bytes), NEW tail \in Seq(Bytes), NEW others \in Seq(Bytes),
         rest \o tail = Packed(t) \o others
  PROVE  \/ /\ NextFrame(Decoded(messages, rest)) = Decoded(messages, rest)
            /\ Len(rest) < HeaderLength + MaxFrame
         \/ TextTaken(t, messages, rest, tail, others)
  <1> DEFINE d == Decoded(messages, rest)
  <1>1. HeaderLength \in Nat \ {0} /\ MaxFrame \in Nat /\ Weight[HeaderLength] \in Nat
        /\ MaxFrame + 1 < Weight[HeaderLength]
    BY FramingAssumption, WeightUnfolds
  <1>2. PICK n \in Nat : n = Len(t)
    OBVIOUS
  <1>3. PICK k \in Nat : k = Len(rest)
    OBVIOUS
  <1>4. n \in 1..MaxFrame /\ n < Weight[HeaderLength]
    BY <1>1, <1>2
  <1>5. PICK f \in Seq(Bytes) : f = Packed(t) /\ Len(f) = HeaderLength + n
    BY <1>2, PackedBytes
  <1>6. \A i \in 1..k : i <= HeaderLength + n => rest[i] = f[i]
    BY <1>3, <1>5, SameStart
  <1>7. d.rest = rest /\ d.messages = messages /\ d.failed = FALSE
    BY DEF Decoded
  <1>8. CASE k < HeaderLength
    <2>1. NextFrame(d) = d
      BY <1>1, <1>3, <1>7, <1>8 DEF NextFrame
    <2>2. Len(rest) < HeaderLength + MaxFrame
      BY <1>1, <1>3, <1>8
    <2> QED
      BY <2>1, <2>2
  <1>9. CASE ~(k < HeaderLength)
    <2>1. Declared(rest) = n
      <3>1. ASSUME NEW i \in 1..HeaderLength PROVE rest[i] = Header(n)[i]
        <4>1. i \in 1..k /\ i <= HeaderLength + n
          BY <1>1, <1>9
        <4>2. f[i] = Header(n)[i]
          BY <1>2, <1>5, PackedBytes
        <4> QED
          BY <1>6, <4>1, <4>2
      <3> QED
        BY <1>4, <3>1, DeclaredOfHeader
    <2>2. CASE k < HeaderLength + n
      <3>1. ~IsWhole(rest, n)
        BY <1>1, <1>3, <2>2 DEF IsWhole
      <3>2. NextFrame(d) = d
        BY <1>3, <1>4, <1>7, <1>9, <2>1, <3>1 DEF NextFrame
      <3>3. Len(rest) < HeaderLength + MaxFrame
        BY <1>1, <1>3, <1>4, <2>2
      <3> QED
        BY <3>2, <3>3
    <2>3. CASE ~(k < HeaderLength + n)
      <3>1. IsWhole(rest, n)
        BY <1>1, <1>3, <2>3 DEF IsWhole
      <3>2. SubSeq(rest, HeaderLength + 1, HeaderLength + n) = t
        <4>1. Len(rest) >= HeaderLength + Len(t)
          BY <1>1, <1>2, <1>3, <2>3
        <4>2. ASSUME NEW i \in 1..Len(Packed(t)) PROVE rest[i] = Packed(t)[i]
          <5>1. i \in 1..k /\ i <= HeaderLength + n
            BY <1>1, <1>5, <2>3
          <5> QED
            BY <1>5, <1>6, <5>1
        <4> QED
          BY <1>2, <4>1, <4>2, TextOf
      <3>3. Len(f) = HeaderLength + n /\ Len(f) \in Nat /\ Len(f) <= Len(rest)
        BY <1>1, <1>3, <1>5, <2>3
      <3>4. PICK after : after = Dropped(rest, Len(f))
        OBVIOUS
      <3>5. after \in Seq(Bytes) /\ Len(after) = Len(rest) - Len(f) /\ after \o tail = others
        <4>1. rest \o tail = f \o others
          BY <1>5
        <4> QED
          BY <3>3, <3>4, <4>1, DroppedIs, AfterStart
      <3>6. after = SubSeq(rest, HeaderLength + n + 1, Len(rest))
        BY <3>3, <3>4 DEF Dropped
      <3>7. Len(after) < Len(rest)
        BY <1>1, <1>3, <3>3, <3>5
      <3>8. NextFrame(d) = IF IsJson(t) THEN Decoded(Append(messages, Parse(t)), after)
                           ELSE Undecodable(after)
        <4>1. ~(d.failed \/ Len(d.rest) < HeaderLength) /\ ~(Declared(d.rest) \notin 1..MaxFrame)
          BY <1>3, <1>4, <1>7, <1>9, <2>1
        <4> QED
          BY <1>7, <2>1, <3>1, <3>2, <3>6, <4>1 DEF NextFrame
      <3> QED
        BY <3>5, <3>7, <3>8 DEF TextTaken
    <2> QED
      BY <2>2, <2>3
  <1> QED
    BY <1>8, <1>9

\* A header that declares no text, or one beyond the limit, stays until it is
\* whole and then fails.
LEMMA BadLengthAtHead ==
  ASSUME NEW n \in {0, MaxFrame + 1}, NEW messages,
         NEW rest \in Seq(Bytes), NEW tail \in Seq(Bytes), rest \o tail = Header(n)
  PROVE  \/ /\ NextFrame(Decoded(messages, rest)) = Decoded(messages, rest)
            /\ Len(rest) < HeaderLength + MaxFrame
         \/ NextFrame(Decoded(messages, rest)) = Undecodable(rest)
  <1> DEFINE d == Decoded(messages, rest)
  <1>1. HeaderLength \in Nat \ {0} /\ MaxFrame \in Nat \ {0} /\ Weight[HeaderLength] \in Nat
        /\ MaxFrame + 1 < Weight[HeaderLength]
    BY FramingAssumption, WeightUnfolds
  <1>2. n \in Nat /\ n < Weight[HeaderLength] /\ n \notin 1..MaxFrame
    BY <1>1
  <1>3. PICK k \in Nat : k = Len(rest)
    OBVIOUS
  <1>4. PICK h \in Seq(Bytes) : h = Header(n) /\ Len(h) = HeaderLength
    BY <1>2, HeaderBytes
  <1>5. \A i \in 1..k : i <= HeaderLength => rest[i] = h[i]
    <2>1. h \o <<>> = h /\ <<>> \in Seq(Bytes)
      BY ConcatEmptySeq, EmptySeq
    <2>2. rest \o tail = h \o <<>>
      BY <1>4, <2>1
    <2> QED
      BY <1>3, <1>4, <2>1, <2>2, SameStart
  <1>6. d.rest = rest /\ d.messages = messages /\ d.failed = FALSE
    BY DEF Decoded
  <1>7. CASE k < HeaderLength
    <2>1. NextFrame(d) = d
      BY <1>1, <1>3, <1>6, <1>7 DEF NextFrame
    <2>2. Len(rest) < HeaderLength + MaxFrame
      BY <1>1, <1>3, <1>7
    <2> QED
      BY <2>1, <2>2
  <1>8. CASE ~(k < HeaderLength)
    <2>1. Declared(rest) = n
      <3>1. ASSUME NEW i \in 1..HeaderLength PROVE rest[i] = Header(n)[i]
        <4>1. i \in 1..k /\ i <= HeaderLength
          BY <1>1, <1>8
        <4> QED
          BY <1>4, <1>5, <4>1
      <3> QED
        BY <1>2, <3>1, DeclaredOfHeader
    <2>2. NextFrame(d) = Undecodable(rest)
      <3>1. ~d.failed /\ Len(d.rest) >= HeaderLength /\ ~(Len(d.rest) < HeaderLength)
            /\ Declared(d.rest) \notin 1..MaxFrame
        BY <1>1, <1>2, <1>3, <1>6, <1>8, <2>1
      <3> QED
        BY <1>6, <3>1 DEF NextFrame
    <2> QED
      BY <2>2
  <1> QED
    BY <1>7, <1>8

\* What the messages and the bytes of a stream end with: nothing, or something
\* that is no frame and stands as bad among the messages.
Faulty == {ZeroLength, Oversized, Gibberish}
Ending(bad, w, bytes) ==
  \/ w = <<>> /\ bytes = <<>>
  \/ w = <<bad>> /\ bytes \in Faulty

\* The bytes are the frames of the messages and such an ending.
OnWire(bad, w, bytes) ==
  \E u \in Seq(Messages) : \E last, end :
    /\ Ending(bad, last, end)
    /\ w = u \o last /\ bytes = Wire(u) \o end

LEMMA NoJson ==
  \E t \in Seq(Bytes) : /\ Len(t) \in 1..MaxFrame /\ ~IsJson(t) /\ Gibberish = Packed(t)
  <1>1. PICK t \in BadTexts : t = CHOOSE u \in BadTexts : TRUE
    BY FramingAssumption
  <1>2. Gibberish = Packed(t)
    BY <1>1 DEF Gibberish, Packed
  <1>3. ~IsJson(t) /\ Len(t) <= MaxFrame
    BY <1>1 DEF BadTexts
  <1>4. t \in Seq(Bytes) /\ Len(t) \in {1, 2}
    <2>1. t \in {<<b>> : b \in Bytes} \union {<<b, c>> : b, c \in Bytes}
      BY DEF BadTexts
    <2>2. (\E b \in Bytes : t = <<b>>) \/ (\E b, c \in Bytes : t = <<b, c>>)
      BY <2>1
    <2>3. CASE \E b \in Bytes : t = <<b>>
      BY <2>3
    <2>4. CASE \E b, c \in Bytes : t = <<b, c>>
      BY <2>4
    <2> QED
      BY <2>2, <2>3, <2>4
  <1>5. MaxFrame \in Nat
    BY FramingAssumption
  <1> QED
    BY <1>2, <1>3, <1>4, <1>5

LEMMA FaultyBytes == Faulty \subseteq Seq(Bytes)
  <1>1. ZeroLength \in Seq(Bytes)
    BY HeaderBytes DEF ZeroLength
  <1>2. Oversized \in Seq(Bytes)
    <2>1. MaxFrame + 1 \in Nat
      BY FramingAssumption
    <2> QED
      BY <2>1, HeaderBytes DEF Oversized
  <1>3. Gibberish \in Seq(Bytes)
    BY NoJson, PackedBytes
  <1> QED
    BY <1>1, <1>2, <1>3 DEF Faulty

LEMMA OnWireTypes ==
  ASSUME NEW bad, NEW w, NEW bytes, OnWire(bad, w, bytes)
  PROVE  w \in Seq(Messages \union {bad}) /\ bytes \in Seq(Bytes)
  <1>0. PICK u \in Seq(Messages) : \E last, end :
          Ending(bad, last, end) /\ w = u \o last /\ bytes = Wire(u) \o end
    BY DEF OnWire
  <1>1. PICK last, end :
          Ending(bad, last, end) /\ w = u \o last /\ bytes = Wire(u) \o end
    BY <1>0
  <1>2. PICK M : M = Messages \union {bad}
    OBVIOUS
  <1>3. u \in Seq(M) /\ last \in Seq(M)
    <2>1. \A i \in 1..Len(u) : u[i] \in M
      BY <1>2
    <2>2. u \in Seq(M)
      BY <2>1
    <2>3. <<>> \in Seq(M) /\ <<bad>> \in Seq(M)
      BY <1>2
    <2> QED
      BY <1>1, <2>2, <2>3 DEF Ending
  <1>4. end \in Seq(Bytes) /\ Wire(u) \in Seq(Bytes)
    <2>1. <<>> \in Seq(Bytes)
      OBVIOUS
    <2>2. end \in Seq(Bytes)
      BY <1>1, <2>1, FaultyBytes DEF Ending
    <2>3. Wire(u) \in Seq(Bytes)
      BY WireBytes
    <2> QED
      BY <2>2, <2>3
  <1>5. w \in Seq(M)
    BY <1>1, <1>3, ConcatProperties
  <1>6. bytes \in Seq(Bytes)
    BY <1>1, <1>4, ConcatProperties
  <1> QED
    BY <1>2, <1>5, <1>6

FrameFirst(bad, w, bytes) ==
  \E m \in Messages : \E w2, b2 :
    OnWire(bad, w2, b2) /\ w = <<m>> \o w2 /\ bytes = Frame(m) \o b2

\* A stream is at its end, or begins with the frame of its first message.
LEMMA OnWireHead ==
  ASSUME NEW bad, NEW w, NEW bytes, OnWire(bad, w, bytes)
  PROVE  Ending(bad, w, bytes) \/ FrameFirst(bad, w, bytes)
  <1>0. PICK u \in Seq(Messages) : \E last, end :
          Ending(bad, last, end) /\ w = u \o last /\ bytes = Wire(u) \o end
    BY DEF OnWire
  <1>1. PICK last, end :
          Ending(bad, last, end) /\ w = u \o last /\ bytes = Wire(u) \o end
    BY <1>0
  <1>2. PICK M : M = Seq(Messages \union {bad})
    OBVIOUS
  <1>3. Concatenable(M) /\ \A m \in Messages : <<m>> \in M
    BY <1>2, SeqConcatenable
  <1>4. PICK Q : Q = Seq(Bytes)
    OBVIOUS
  <1>5. Concatenable(Q)
    BY <1>4, SeqConcatenable
  <1>6. last \in M /\ end \in Q
    <2>1. last = <<>> \/ last = <<bad>>
      BY <1>1 DEF Ending
    <2>2. <<bad>> \in M
      BY <1>2
    <2>3. <<>> \in M /\ <<>> \in Q
      BY <1>3, <1>5 DEF Concatenable
    <2>4. end = <<>> \/ end \in Faulty
      BY <1>1 DEF Ending
    <2> QED
      BY <1>4, <2>1, <2>2, <2>3, <2>4, FaultyBytes
  <1>7. CASE u = <<>>
    <2>1. w = last /\ bytes = end
      <3>1. Wire(u) = <<>>
        BY <1>7, WireBytes
      <3> QED
        BY <1>1, <1>3, <1>5, <1>6, <1>7, <3>1 DEF Concatenable
    <2> QED
      BY <1>1, <2>1
  <1>8. CASE u # <<>>
    <2>1. PICK m \in Messages, rest \in Seq(Messages) : u = <<m>> \o rest
      BY <1>8, HeadAndRest
    <2>2. \A v \in Seq(Messages) : v \in M
      <3>1. Messages \subseteq Messages \union {bad}
        OBVIOUS
      <3> QED
        BY <1>2, <3>1, SeqMonotonic
    <2>3. w = <<m>> \o (rest \o last)
      <3>1. <<m>> \in M /\ rest \in M
        BY <1>3, <2>2
      <3>2. (<<m>> \o rest) \o last = <<m>> \o (rest \o last)
        BY <1>3, <1>6, <3>1 DEF Concatenable
      <3> QED
        BY <1>1, <2>1, <3>2
    <2>4. bytes = Frame(m) \o (Wire(rest) \o end)
      <3>1. Frame(m) \in Q /\ Wire(rest) \in Q
        BY <1>4, FrameBytes, WireBytes
      <3>2. Wire(u) = Frame(m) \o Wire(rest)
        BY <2>1, WireProperties
      <3>3. (Frame(m) \o Wire(rest)) \o end = Frame(m) \o (Wire(rest) \o end)
        BY <1>5, <1>6, <3>1 DEF Concatenable
      <3> QED
        BY <1>1, <3>2, <3>3
    <2>5. OnWire(bad, rest \o last, Wire(rest) \o end)
      BY <1>1 DEF OnWire
    <2> QED
      BY <2>3, <2>4, <2>5 DEF FrameFirst
  <1> QED
    BY <1>7, <1>8

----------------------------------------------------------------------------
(* push                                                                    *)

\* What push has made of the beginning of a stream that holds v, when the tail
\* is still to come: it failed on what is no frame, or it has the first messages and the rest is
\* the beginning of the stream of the others.
Progress(bad, v, tail, d) ==
  \/ \E messages \in Seq(Messages), rest \in Seq(Bytes) :
       d = Undecodable(rest) /\ v = messages \o <<bad>>
  \/ \E messages \in Seq(Messages), rest \in Seq(Bytes) : \E w :
       /\ d = Decoded(messages, rest)
       /\ v = messages \o w /\ OnWire(bad, w, rest \o tail)

\* The loop is over.
Settled(d) == NextFrame(d) = d /\ (d.failed \/ Len(d.rest) < HeaderLength + MaxFrame)

LEMMA FailedIsSettled == ASSUME NEW rest PROVE Settled(Undecodable(rest))
  BY DEF Settled, NextFrame, Undecodable

LEMMA EndingAtHead ==
  ASSUME NEW bad, NEW w, NEW messages, NEW rest \in Seq(Bytes), NEW tail \in Seq(Bytes),
         Ending(bad, w, rest \o tail)
  PROVE  \/ Settled(Decoded(messages, rest))
         \/ /\ w = <<bad>>
            /\ \E after \in Seq(Bytes) : NextFrame(Decoded(messages, rest)) = Undecodable(after)
  <1> DEFINE d == Decoded(messages, rest)
  <1>1. HeaderLength \in Nat \ {0} /\ MaxFrame \in Nat \ {0}
    BY FramingAssumption
  <1>2. d.rest = rest /\ d.failed = FALSE
    BY DEF Decoded
  <1>3. CASE rest \o tail = <<>>
    <2>1. Len(rest) = 0
      <3>1. Len(rest \o tail) = Len(rest) + Len(tail) /\ Len(rest \o tail) = 0
        BY <1>3, ConcatProperties, EmptySeq
      <3>2. Len(rest) \in Nat /\ Len(tail) \in Nat
        OBVIOUS
      <3> QED
        BY <3>1, <3>2
    <2>2. NextFrame(d) = d
      <3>1. d.failed \/ Len(d.rest) < HeaderLength
        BY <1>1, <1>2, <2>1
      <3>2. ~(Len(d.rest) >= HeaderLength)
        BY <1>1, <1>2, <2>1
      <3> QED
        BY <3>1, <3>2 DEF NextFrame
    <2> QED
      BY <1>1, <1>2, <2>1, <2>2 DEF Settled
  <1>4. CASE w = <<bad>> /\ rest \o tail \in {ZeroLength, Oversized}
    <2>1. PICK n \in {0, MaxFrame + 1} : rest \o tail = Header(n)
      BY <1>4 DEF ZeroLength, Oversized
    <2>2. \/ NextFrame(d) = d /\ Len(rest) < HeaderLength + MaxFrame
          \/ NextFrame(d) = Undecodable(rest)
      BY <2>1, BadLengthAtHead
    <2> QED
      BY <1>2, <1>4, <2>2 DEF Settled
  <1>5. CASE w = <<bad>> /\ rest \o tail = Gibberish
    <2>1. PICK t \in Seq(Bytes) :
            Len(t) \in 1..MaxFrame /\ ~IsJson(t) /\ Gibberish = Packed(t)
      BY NoJson
    <2>2. rest \o tail = Packed(t) \o <<>> /\ <<>> \in Seq(Bytes)
      <3>1. Packed(t) \in Seq(Bytes)
        BY <2>1, PackedBytes
      <3> QED
        BY <1>5, <2>1, <3>1, ConcatEmptySeq, EmptySeq
    <2>3. \/ NextFrame(d) = d /\ Len(rest) < HeaderLength + MaxFrame
          \/ \E after \in Seq(Bytes) : NextFrame(d) = Undecodable(after)
      <3>1. \/ NextFrame(d) = d /\ Len(rest) < HeaderLength + MaxFrame
            \/ TextTaken(t, messages, rest, tail, <<>>)
        BY <2>1, <2>2, FrameAtHead
      <3> QED
        BY <2>1, <3>1 DEF TextTaken
    <2> QED
      BY <1>2, <1>5, <2>3 DEF Settled
  <1>6. \/ rest \o tail = <<>>
        \/ w = <<bad>> /\ (rest \o tail \in {ZeroLength, Oversized} \/ rest \o tail = Gibberish)
    BY DEF Ending, Faulty
  <1> QED
    BY <1>3, <1>4, <1>5, <1>6

\* Once around the loop.
LEMMA NextFrameProgress ==
  ASSUME NEW bad, NEW v, NEW tail \in Seq(Bytes), NEW d, Progress(bad, v, tail, d)
  PROVE  /\ Progress(bad, v, tail, NextFrame(d))
         /\ Settled(d) \/ Settled(NextFrame(d)) \/ Len(NextFrame(d).rest) < Len(d.rest)
  <1>1. CASE \E messages \in Seq(Messages), rest \in Seq(Bytes) :
               d = Undecodable(rest) /\ v = messages \o <<bad>>
    <2>1. Settled(d)
      BY <1>1, FailedIsSettled
    <2>2. NextFrame(d) = d
      BY <2>1 DEF Settled
    <2> QED
      BY <2>1, <2>2
  <1>2. ASSUME NEW messages \in Seq(Messages), NEW rest \in Seq(Bytes), NEW w,
               d = Decoded(messages, rest), v = messages \o w, OnWire(bad, w, rest \o tail)
        PROVE  /\ Progress(bad, v, tail, NextFrame(d))
               /\ Settled(d) \/ Settled(NextFrame(d)) \/ Len(NextFrame(d).rest) < Len(d.rest)
    <2>1. Settled(d) => NextFrame(d) = d
      BY DEF Settled
    <2>2. ASSUME NEW after \in Seq(Bytes), NextFrame(d) = Undecodable(after), w = <<bad>>
          PROVE  Progress(bad, v, tail, NextFrame(d)) /\ Settled(NextFrame(d))
      BY <1>2, <2>2, FailedIsSettled DEF Progress
    <2>3. CASE Ending(bad, w, rest \o tail)
      BY <1>2, <2>1, <2>2, <2>3, EndingAtHead
    <2>4. ASSUME NEW m \in Messages, NEW w2, NEW b2,
                 OnWire(bad, w2, b2), w = <<m>> \o w2, rest \o tail = Frame(m) \o b2
          PROVE  /\ Progress(bad, v, tail, NextFrame(d))
                 /\ Settled(d) \/ Settled(NextFrame(d)) \/ Len(NextFrame(d).rest) < Len(d.rest)
      <3>1. PICK t \in Seq(Bytes) : t = Text[m] /\ Len(t) \in 1..MaxFrame /\ Frame(m) = Packed(t)
        BY FrameBytes
      <3>2. b2 \in Seq(Bytes) /\ w2 \in Seq(Messages \union {bad})
        BY <2>4, OnWireTypes
      <3>3. IsJson(t) /\ Parse(t) = m
        <4>1. \A k \in Messages : Text[k] = Text[m] => k = m
          BY FramingAssumption DEF IsInjective, Messages
        <4>2. PICK k : k = Parse(t)
          OBVIOUS
        <4>3. k \in Messages /\ Text[k] = t
          BY <3>1, <4>2 DEF Parse
        <4> QED
          BY <3>1, <4>1, <4>2, <4>3 DEF IsJson
      <3>4. \/ NextFrame(d) = d /\ Len(rest) < HeaderLength + MaxFrame
            \/ TextTaken(t, messages, rest, tail, b2)
        BY <1>2, <2>4, <3>1, <3>2, FrameAtHead
      <3>5. CASE NextFrame(d) = d /\ Len(rest) < HeaderLength + MaxFrame
        <4>1. d.rest = rest
          BY <1>2 DEF Decoded
        <4> QED
          BY <1>2, <3>5, <4>1 DEF Settled
      <3>6. ASSUME NEW after \in Seq(Bytes), after \o tail = b2, Len(after) < Len(rest),
                   NextFrame(d) = Decoded(Append(messages, m), after)
            PROVE  /\ Progress(bad, v, tail, NextFrame(d))
                   /\ Len(NextFrame(d).rest) < Len(d.rest)
        <4>1. PICK more \in Seq(Messages) : more = Append(messages, m) /\ more = messages \o <<m>>
          <5>1. Append(messages, m) \in Seq(Messages) /\ Append(messages, m) = messages \o <<m>>
            BY AppendJoins
          <5> QED
            BY <5>1
        <4>2. v = more \o w2
          <5>1. PICK M : M = Seq(Messages \union {bad})
            OBVIOUS
          <5>2. messages \in M /\ <<m>> \in M
            <6>1. Messages \subseteq Messages \union {bad}
              OBVIOUS
            <6> QED
              BY <5>1, <6>1, SeqMonotonic
          <5>3. (messages \o <<m>>) \o w2 = messages \o (<<m>> \o w2)
            BY <3>2, <5>1, <5>2, SeqConcatenable DEF Concatenable
          <5> QED
            BY <1>2, <2>4, <4>1, <5>3
        <4>3. Progress(bad, v, tail, NextFrame(d))
          BY <2>4, <3>6, <4>1, <4>2 DEF Progress
        <4>4. NextFrame(d).rest = after /\ d.rest = rest
          BY <1>2, <3>6 DEF Decoded
        <4> QED
          BY <3>6, <4>3, <4>4
      <3>7. CASE TextTaken(t, messages, rest, tail, b2)
        BY <1>2, <3>3, <3>6, <3>7 DEF TextTaken
      <3> QED
        BY <3>4, <3>5, <3>7
    <2>5. CASE FrameFirst(bad, w, rest \o tail)
      <3>1. PICK m \in Messages : \E w2, b2 :
              OnWire(bad, w2, b2) /\ w = <<m>> \o w2 /\ rest \o tail = Frame(m) \o b2
        BY <2>5, Zenon DEF FrameFirst
      <3>2. PICK w2, b2 :
              OnWire(bad, w2, b2) /\ w = <<m>> \o w2 /\ rest \o tail = Frame(m) \o b2
        BY <3>1, Zenon
      <3> QED
        BY <2>4, <3>2
    <2>6. Ending(bad, w, rest \o tail) \/ FrameFirst(bad, w, rest \o tail)
      BY <1>2, OnWireHead
    <2> QED
      BY <2>3, <2>5, <2>6
  <1> QED
    BY <1>1, <1>2 DEF Progress

Decodings == [messages : Seq(Messages), rest : Seq(Bytes), failed : BOOLEAN]

LEMMA ProgressTypes ==
  ASSUME NEW bad, NEW v, NEW tail, NEW d, Progress(bad, v, tail, d)
  PROVE  d \in Decodings
  <1>1. <<>> \in Seq(Messages)
    BY EmptySeq
  <1>2. \A rest \in Seq(Bytes) : Undecodable(rest) \in Decodings
    BY <1>1 DEF Decodings, Undecodable
  <1>3. \A messages \in Seq(Messages), rest \in Seq(Bytes) : Decoded(messages, rest) \in Decodings
    BY DEF Decodings, Decoded
  <1> QED
    BY <1>2, <1>3 DEF Progress

\* However a stream is cut, push keeps up with it: it goes round the loop often
\* enough, and when it has not failed it holds less than a frame.
LEMMA DrainProgress ==
  ASSUME NEW bad, NEW v, NEW bytes \in Seq(Bytes), NEW tail \in Seq(Bytes),
         OnWire(bad, v, bytes \o tail)
  PROVE  /\ Progress(bad, v, tail, Drain(bytes))
         /\ Drain(bytes).failed \/ Len(Drain(bytes).rest) < HeaderLength + MaxFrame
  <1> DEFINE Loop[i \in 0..Len(bytes)] ==
               IF i = 0 THEN Decoded(<<>>, bytes) ELSE NextFrame(Loop[i - 1])
             V == {d \in Decodings : Progress(bad, v, tail, d)}
  <1>1. PICK n \in Nat : n = Len(bytes)
    OBVIOUS
  <1>2. PICK base : base = Decoded(<<>>, bytes)
    OBVIOUS
  <1>3. base \in V
    <2>1. v = <<>> \o v
      <3>1. v \in Seq(Messages \union {bad})
        BY OnWireTypes
      <3> QED
        BY <3>1, ConcatEmptySeq
    <2>2. <<>> \in Seq(Messages)
      BY EmptySeq
    <2>3. Progress(bad, v, tail, base)
      BY <1>2, <2>1, <2>2 DEF Progress
    <2> QED
      BY <2>3, ProgressTypes
  <1>4. \A d \in V : NextFrame(d) \in V
    BY NextFrameProgress, ProgressTypes
  <1>5. PICK f \in [0..n -> V] : f[0] = base /\ \A i \in 1..n : f[i] = NextFrame(f[i - 1])
    <2> HIDE DEF V
    <2>1. PICK step : step = [i \in 1..n |-> [d \in V |-> NextFrame(d)]]
      OBVIOUS
    <2>2. step \in [1..n -> [V -> V]]
      BY <1>4, <2>1
    <2>3. Recursions(n, V, base, step) # {}
      BY <1>3, <2>2, RecursionUpTo
    <2>4. PICK f \in [0..n -> V] : f[0] = base /\ \A i \in 1..n : f[i] = step[i][f[i - 1]]
      BY <2>3 DEF Recursions
    <2>5. \A i \in 1..n : f[i] = NextFrame(f[i - 1])
      <3> SUFFICES ASSUME NEW i \in 1..n PROVE f[i] = NextFrame(f[i - 1])
        OBVIOUS
      <3>1. i - 1 \in 0..n
        OBVIOUS
      <3>2. f[i - 1] \in V
        BY <2>4, <3>1
      <3> QED
        BY <2>1, <2>4, <3>2
    <2> QED
      BY <2>4, <2>5
  <1> HIDE DEF V
  <1>6. Drain(bytes) = f[n]
    <2>1. f = [i \in 0..n |-> IF i = 0 THEN base ELSE NextFrame(f[i - 1])]
      <3>1. \A i \in 0..n : f[i] = IF i = 0 THEN base ELSE NextFrame(f[i - 1])
        BY <1>5
      <3>2. f = [i \in 0..n |-> f[i]]
        BY <1>5
      <3> QED
        BY <3>1, <3>2
    <2>2. f = [i \in 0..Len(bytes) |->
                 IF i = 0 THEN Decoded(<<>>, bytes) ELSE NextFrame(f[i - 1])]
      BY <1>1, <1>2, <2>1
    <2>3. Loop = [i \in 0..Len(bytes) |->
                    IF i = 0 THEN Decoded(<<>>, bytes) ELSE NextFrame(Loop[i - 1])]
      BY <2>2, Zenon DEF Loop
    <2> HIDE DEF Loop
    <2>4. Loop = [i \in 0..n |-> IF i = 0 THEN base ELSE NextFrame(Loop[i - 1])]
      BY <1>1, <1>2, <2>3
    <2> DEFINE S == {i \in 0..n : Loop[i] = f[i]}
    <2>5. 0 \in S
      BY <1>5, <2>4
    <2>6. ASSUME NEW i \in 1..n, i - 1 \in S PROVE i \in S
      BY <1>5, <2>4, <2>6
    <2> HIDE DEF S
    <2>7. 0..n \subseteq S
      BY <2>5, <2>6, InductionUpTo
    <2>8. Loop[n] = f[n]
      BY <2>7 DEF S
    <2>9. Drain(bytes) = Loop[Len(bytes)]
      BY DEF Drain, Loop
    <2> QED
      BY <1>1, <2>8, <2>9
  <1>7. \A i \in 0..n : Progress(bad, v, tail, f[i]) /\ f[i].rest \in Seq(Bytes)
    BY <1>5 DEF V, Decodings
  <1> DEFINE S == {i \in 0..n : Settled(f[i]) \/ Len(f[i].rest) <= n - i}
  <1>8. 0 \in S
    <2>1. f[0].rest = bytes
      BY <1>2, <1>5 DEF Decoded
    <2> QED
      BY <1>1, <2>1
  <1>9. ASSUME NEW i \in 1..n, i - 1 \in S PROVE i \in S
    <2>1. i - 1 \in 0..n /\ i \in 0..n /\ f[i] = NextFrame(f[i - 1])
      BY <1>5
    <2>2. CASE Settled(f[i - 1])
      BY <2>1, <2>2 DEF Settled
    <2>3. CASE Settled(f[i])
      BY <2>3
    <2>4. CASE Len(f[i].rest) < Len(f[i - 1].rest)
      <3>1. PICK a \in Nat, b \in Nat : a = Len(f[i - 1].rest) /\ b = Len(f[i].rest)
        BY <1>7, <2>1
      <3>2. Settled(f[i - 1]) \/ a <= n - (i - 1)
        BY <1>9, <3>1
      <3>3. a <= n - (i - 1) => b <= n - i
        BY <2>4, <3>1
      <3> QED
        BY <2>2, <3>1, <3>2, <3>3
    <2>5. Settled(f[i - 1]) \/ Settled(f[i]) \/ Len(f[i].rest) < Len(f[i - 1].rest)
      <3>1. Progress(bad, v, tail, f[i - 1])
        BY <1>7, <2>1
      <3> QED
        BY <2>1, <3>1, NextFrameProgress
    <2> QED
      BY <2>2, <2>3, <2>4, <2>5
  <1> HIDE DEF S
  <1>10. 0..n \subseteq S
    BY <1>8, <1>9, InductionUpTo
  <1>11. Settled(f[n]) \/ Len(f[n].rest) <= n - n
    BY <1>10 DEF S
  <1>12. f[n].failed \/ Len(f[n].rest) < HeaderLength + MaxFrame
    <2>1. HeaderLength \in Nat \ {0} /\ MaxFrame \in Nat \ {0}
      BY FramingAssumption
    <2>2. PICK b \in Nat : b = Len(f[n].rest)
      BY <1>7
    <2> QED
      BY <1>11, <2>1, <2>2 DEF Settled
  <1> QED
    BY <1>6, <1>7, <1>12

\* What push has taken of a stream, and what it leaves.
KeepsOrder(bad, v, tail, d) ==
  /\ d \in Decodings
  /\ IsPrefix(d.messages, v)
  /\ \A i \in 1..Len(d.messages) : i \in 1..Len(v) /\ d.messages[i] = v[i]
  /\ ~d.failed => /\ Len(d.rest) < HeaderLength + MaxFrame
                  /\ OnWire(bad, Dropped(v, Len(d.messages)), d.rest \o tail)

LEMMA DrainKeepsOrder ==
  ASSUME NEW bad, NEW v, NEW bytes \in Seq(Bytes), NEW tail \in Seq(Bytes),
         OnWire(bad, v, bytes \o tail)
  PROVE  KeepsOrder(bad, v, tail, Drain(bytes))
  <1>0. PICK d : d = Drain(bytes)
    OBVIOUS
  <1> SUFFICES KeepsOrder(bad, v, tail, d)
    BY <1>0, Zenon
  <1>1. PICK M : M = Messages \union {bad}
    OBVIOUS
  <1>2. v \in Seq(M)
    BY <1>1, OnWireTypes
  <1>3. Progress(bad, v, tail, d) /\ d \in Decodings
        /\ (d.failed \/ Len(d.rest) < HeaderLength + MaxFrame)
    BY <1>0, DrainProgress, ProgressTypes
  <1>4. CASE \E messages \in Seq(Messages), rest \in Seq(Bytes) :
               d = Undecodable(rest) /\ v = messages \o <<bad>>
    <2>1. d.failed /\ d.messages = <<>>
      BY <1>4 DEF Undecodable
    <2>2. IsPrefix(d.messages, v)
      <3>1. Len(d.messages) = 0 /\ Len(v) \in Nat
        BY <1>2, <2>1, EmptySeq
      <3>2. SubSeq(d.messages, 1, 0) = <<>> /\ SubSeq(v, 1, 0) = <<>>
        BY SubSeqEmpty
      <3> QED
        BY <3>1, <3>2 DEF IsPrefix
    <2>3. \A i \in 1..Len(d.messages) : i \in 1..Len(v) /\ d.messages[i] = v[i]
      BY <2>1, EmptySeq
    <2>4. ~d.failed => /\ Len(d.rest) < HeaderLength + MaxFrame
                       /\ OnWire(bad, Dropped(v, Len(d.messages)), d.rest \o tail)
      BY <2>1
    <2>5. d \in Decodings
      BY <1>3
    <2> QED
      BY <2>2, <2>3, <2>4, <2>5, Zenon DEF KeepsOrder
  <1>5. ASSUME NEW messages \in Seq(Messages), NEW rest \in Seq(Bytes), NEW w,
               d = Decoded(messages, rest), v = messages \o w, OnWire(bad, w, rest \o tail)
        PROVE  /\ IsPrefix(d.messages, v)
               /\ \A i \in 1..Len(d.messages) : i \in 1..Len(v) /\ d.messages[i] = v[i]
               /\ OnWire(bad, Dropped(v, Len(d.messages)), d.rest \o tail)
    <2>1. d.messages = messages /\ d.rest = rest
      BY <1>5 DEF Decoded
    <2>2. w \in Seq(M) /\ messages \in Seq(M)
      <3>1. Messages \subseteq M
        BY <1>1
      <3>2. messages \in Seq(M)
        BY <3>1, SeqMonotonic
      <3> QED
        BY <1>1, <1>5, <3>2, OnWireTypes
    <2>3. PICK n \in Nat, k \in Nat : n = Len(messages) /\ k = Len(w)
      BY <2>2
    <2>4. Len(v) = n + k /\ \A i \in 1..n : v[i] = messages[i]
      <3>1. /\ Len(messages \o w) = Len(messages) + Len(w)
            /\ \A i \in 1..(Len(messages) + Len(w)) :
                 (messages \o w)[i] = IF i <= Len(messages) THEN messages[i] ELSE w[i - Len(messages)]
        BY <2>2, ConcatProperties
      <3> QED
        BY <1>5, <2>3, <3>1
    <2>5. IsPrefix(messages, v)
      <3>1. PICK p, q : p = SubSeq(messages, 1, n) /\ q = SubSeq(v, 1, n)
        OBVIOUS
      <3>2. /\ p \in Seq(M) /\ Len(p) = n /\ \A i \in 1..n : p[i] = messages[i]
        <4>1. \A i \in 1..n : messages[i] \in M
          BY <2>2, <2>3
        <4>2. /\ p \in Seq(M) /\ Len(p) = IF 1 <= n THEN n - 1 + 1 ELSE 0
              /\ \A i \in 1..(n - 1 + 1) : p[i] = messages[1 + i - 1]
          BY <3>1, <4>1, SubSeqProperties
        <4> QED
          BY <4>2
      <3>3. /\ q \in Seq(M) /\ Len(q) = n /\ \A i \in 1..n : q[i] = v[i]
        <4>1. \A i \in 1..n : v[i] \in M
          BY <1>2, <2>4
        <4>2. /\ q \in Seq(M) /\ Len(q) = IF 1 <= n THEN n - 1 + 1 ELSE 0
              /\ \A i \in 1..(n - 1 + 1) : q[i] = v[1 + i - 1]
          BY <3>1, <4>1, SubSeqProperties
        <4> QED
          BY <4>2
      <3>4. \A i \in 1..n : p[i] = q[i]
        BY <2>4, <3>2, <3>3
      <3>5. p = q
        BY <3>2, <3>3, <3>4, SeqEqual
      <3>6. Len(messages) <= Len(v) /\ SubSeq(messages, 1, Len(messages)) = SubSeq(v, 1, Len(messages))
        <4>1. Len(messages) <= Len(v)
          BY <2>3, <2>4
        <4>2. SubSeq(messages, 1, n) = SubSeq(v, 1, n)
          BY <3>1, <3>5, Zenon
        <4> QED
          BY <2>3, <4>1, <4>2, Zenon
      <3> QED
        BY <3>6, Zenon DEF IsPrefix
    <2>6. Dropped(v, n) = w
      <3>1. PICK none \in Seq(M) : none = <<>>
        BY EmptySeq
      <3>2. v \o none = messages \o w
        BY <1>2, <1>5, <3>1, ConcatEmptySeq
      <3>3. Len(messages) <= Len(v)
        BY <2>3, <2>4
      <3>4. Dropped(v, Len(messages)) \o none = w
        BY <1>2, <2>2, <3>2, <3>3, AfterStart
      <3>5. Dropped(v, n) \in Seq(M)
        BY <1>2, <2>3, <3>3, DroppedIs
      <3> QED
        BY <2>3, <3>1, <3>4, <3>5, ConcatEmptySeq
    <2>7. \A i \in 1..n : i \in 1..Len(v) /\ messages[i] = v[i]
      BY <2>4
    <2> QED
      BY <1>5, <2>1, <2>3, <2>5, <2>6, <2>7
  <1>6. CASE \E messages \in Seq(Messages), rest \in Seq(Bytes) : \E w :
               /\ d = Decoded(messages, rest)
               /\ v = messages \o w /\ OnWire(bad, w, rest \o tail)
    <2>0. PICK messages \in Seq(Messages), rest \in Seq(Bytes) : \E w :
            d = Decoded(messages, rest) /\ v = messages \o w /\ OnWire(bad, w, rest \o tail)
      BY <1>6
    <2>1. PICK w :
            d = Decoded(messages, rest) /\ v = messages \o w /\ OnWire(bad, w, rest \o tail)
      BY <2>0
    <2>2. /\ IsPrefix(d.messages, v)
          /\ \A i \in 1..Len(d.messages) : i \in 1..Len(v) /\ d.messages[i] = v[i]
          /\ OnWire(bad, Dropped(v, Len(d.messages)), d.rest \o tail)
      BY <1>5, <2>1
    <2>3. ~d.failed => Len(d.rest) < HeaderLength + MaxFrame
      BY <1>3
    <2>4. d \in Decodings
      BY <1>3
    <2>5. ~d.failed => /\ Len(d.rest) < HeaderLength + MaxFrame
                       /\ OnWire(bad, Dropped(v, Len(d.messages)), d.rest \o tail)
      BY <2>2, <2>3, Zenon
    <2> QED
      BY <2>2, <2>4, <2>5, Zenon DEF KeepsOrder
  <1>7. Progress(bad, v, tail, d)
    BY <1>3
  <1> QED
    BY <1>4, <1>6, <1>7, Zenon DEF Progress

\* A stream without what is no frame consists of the frames of its messages.
LEMMA ProperStream ==
  ASSUME NEW bad, NEW w, NEW bytes, OnWire(bad, w, bytes), \A i \in 1..Len(w) : w[i] # bad
  PROVE  w \in Seq(Messages) /\ bytes = Wire(w)
  <1>0. PICK u \in Seq(Messages) : \E last, end :
          Ending(bad, last, end) /\ w = u \o last /\ bytes = Wire(u) \o end
    BY DEF OnWire
  <1>1. PICK last, end :
          Ending(bad, last, end) /\ w = u \o last /\ bytes = Wire(u) \o end
    BY <1>0
  <1>2. CASE last = <<>> /\ end = <<>>
    <2>1. Wire(u) \in Seq(Bytes)
      BY WireBytes
    <2>2. w = u
      BY <1>1, <1>2, ConcatEmptySeq
    <2>3. bytes = Wire(u)
      BY <1>1, <1>2, <2>1, ConcatEmptySeq
    <2> QED
      BY <2>2, <2>3
  <1>3. CASE last = <<bad>>
    <2>1. PICK M : M = Messages \union {bad}
      OBVIOUS
    <2>2. u \in Seq(M)
      <3>1. Messages \subseteq M
        BY <2>1
      <3> QED
        BY <3>1, SeqMonotonic
    <2>3. PICK longer \in Seq(M) : longer = Append(u, bad) /\ longer = u \o <<bad>>
      <3>1. Append(u, bad) \in Seq(M) /\ Append(u, bad) = u \o <<bad>>
        BY <2>1, <2>2, AppendJoins
      <3> QED
        BY <3>1
    <2>4. Len(longer) = Len(u) + 1 /\ longer[Len(u) + 1] = bad
      BY <2>1, <2>2, <2>3, AppendIs
    <2>5. w = longer /\ Len(u) + 1 \in 1..Len(w)
      BY <1>1, <1>3, <2>3, <2>4
    <2> QED
      BY <2>4, <2>5
  <1> QED
    BY <1>1, <1>2, <1>3 DEF Ending

\* However a stream of frames is cut, push (src/protocol.ts) on what has come
\* does not fail, and it returns the first messages: what it keeps and what is
\* still to come are the frames of the others, and it keeps less than the
\* largest frame.
THEOREM FramesSurviveAnyCut ==
  \A u \in Seq(Messages), bytes \in Seq(Bytes), tail \in Seq(Bytes) :
    bytes \o tail = Wire(u) =>
      LET d == Drain(bytes)
      IN /\ ~d.failed /\ Len(d.rest) < HeaderLength + MaxFrame
         /\ \E w \in Seq(Messages) : u = d.messages \o w /\ d.rest \o tail = Wire(w)
  <1> SUFFICES ASSUME NEW u \in Seq(Messages), NEW bytes \in Seq(Bytes), NEW tail \in Seq(Bytes),
                      bytes \o tail = Wire(u)
               PROVE  LET d == Drain(bytes)
                      IN /\ ~d.failed /\ Len(d.rest) < HeaderLength + MaxFrame
                         /\ \E w \in Seq(Messages) : u = d.messages \o w /\ d.rest \o tail = Wire(w)
    OBVIOUS
  <1> DEFINE d == Drain(bytes)
  <1> HIDE DEF d
  <1>1. PICK bad : bad \notin Messages
    <2>1. PICK strange : strange = {m \in Messages : m \notin m}
      OBVIOUS
    <2>2. ASSUME strange \in Messages PROVE FALSE
      <3>1. strange \in strange <=> (strange \in Messages /\ strange \notin strange)
        BY <2>1, Zenon
      <3> QED
        BY <2>2, <3>1, Zenon
    <2> QED
      BY <2>2, Zenon
  <1>2. OnWire(bad, u, bytes \o tail)
    <2>1. u = u \o <<>>
      BY ConcatEmptySeq
    <2>2. Wire(u) = Wire(u) \o <<>>
      BY WireBytes, ConcatEmptySeq
    <2>3. Ending(bad, <<>>, <<>>)
      BY DEF Ending
    <2> QED
      BY <2>1, <2>2, <2>3 DEF OnWire
  <1>3. Progress(bad, u, tail, d) /\ (d.failed \/ Len(d.rest) < HeaderLength + MaxFrame)
    BY <1>2, DrainProgress DEF d
  <1>4. \A i \in 1..Len(u) : u[i] # bad
    BY <1>1
  <1>5. ASSUME NEW messages \in Seq(Messages) PROVE u # messages \o <<bad>>
    <2>1. SUFFICES ASSUME u = messages \o <<bad>> PROVE FALSE
      OBVIOUS
    <2>2. PICK M : M = Messages \union {bad}
      OBVIOUS
    <2>3. messages \in Seq(M)
      <3>1. Messages \subseteq M
        BY <2>2
      <3> QED
        BY <3>1, SeqMonotonic
    <2>4. PICK longer : longer = Append(messages, bad)
      OBVIOUS
    <2>5. Len(longer) = Len(messages) + 1 /\ longer[Len(messages) + 1] = bad
      BY <2>2, <2>3, <2>4, AppendIs
    <2>6. longer = u
      BY <2>1, <2>2, <2>3, <2>4, AppendJoins
    <2> QED
      BY <1>4, <2>5, <2>6
  <1>6a. PICK messages \in Seq(Messages), rest \in Seq(Bytes) : \E w :
          d = Decoded(messages, rest) /\ u = messages \o w /\ OnWire(bad, w, rest \o tail)
    BY <1>3, <1>5 DEF Progress
  <1>6. PICK w :
          d = Decoded(messages, rest) /\ u = messages \o w /\ OnWire(bad, w, rest \o tail)
    BY <1>6a
  <1>7. ~d.failed /\ d.messages = messages /\ d.rest = rest
    BY <1>6 DEF Decoded
  <1>8. w \in Seq(Messages) /\ rest \o tail = Wire(w)
    <2>1. PICK M : M = Messages \union {bad}
      OBVIOUS
    <2>2. w \in Seq(M) /\ messages \in Seq(M)
      <3>1. Messages \subseteq M
        BY <2>1
      <3>2. messages \in Seq(M)
        BY <3>1, SeqMonotonic
      <3> QED
        BY <1>6, <2>1, <3>2, OnWireTypes
    <2>3. PICK n \in Nat, k \in Nat : n = Len(messages) /\ k = Len(w)
      BY <2>2
    <2>4. /\ Len(u) = n + k
          /\ \A i \in 1..(n + k) : u[i] = IF i <= n THEN messages[i] ELSE w[i - n]
      BY <1>6, <2>2, <2>3, ConcatProperties
    <2>5. ASSUME NEW i \in 1..Len(w) PROVE w[i] # bad
      <3>1. n + i \in 1..Len(u) /\ ~(n + i <= n) /\ (n + i) - n = i
        BY <2>3, <2>4
      <3>2. u[n + i] = w[i]
        BY <2>4, <3>1
      <3> QED
        BY <1>4, <3>1, <3>2
    <2> QED
      BY <1>6, <2>5, ProperStream
  <1> QED
    BY <1>3, <1>6, <1>7, <1>8 DEF d
=============================================================================
