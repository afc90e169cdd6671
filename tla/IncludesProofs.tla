---------------------------- MODULE IncludesProofs ----------------------------
(***************************************************************************)
(* What is proved of includes, for every system of files without a cycle:  *)
(* a document means what it would mean with the text of the files in place *)
(* of the includes, and it fails only for a reason.                        *)
(***************************************************************************)
EXTENDS Inlining, StackProofs

-----------------------------------------------------------------------------
(***************************************************************************)
(* Layers, of which nothing is seen below a scalar.                        *)
(***************************************************************************)
HasScalar(a) == \E i \in 1 .. Len(a) : a[i].t = "scalar"

\* The natural numbers are well-ordered.
LEMMA LeastOf ==
  ASSUME NEW S, S \subseteq Nat, S # {}
  PROVE  \E i \in S : \A j \in S : i <= j
<1>1. \E x \in S : \A y \in S : ~ (<<y, x>> \in OpToRel(<, Nat))
  BY NatLessThanWellFounded, WFMin
<1>2. PICK x \in S : \A y \in S : ~ (<<y, x>> \in OpToRel(<, Nat))
  BY <1>1
<1>3. \A y \in S : ~ (y < x)
  BY <1>2 DEF OpToRel
<1>4. x \in S
  BY <1>2
<1>5. \A y \in S : x <= y
  BY <1>3, <1>4
<1> QED
  BY <1>4, <1>5

\* The first n of a sequence.
LEMMA FirstOnes ==
  ASSUME NEW a, IsSequence(a), NEW n \in 0 .. Len(a)
  PROVE  /\ IsSequence(SubSeq(a, 1, n)) /\ Len(SubSeq(a, 1, n)) = n
         /\ \A i \in 1 .. n : SubSeq(a, 1, n)[i] = a[i]
<1> DEFINE S == {a[i] : i \in 1 .. Len(a)}
           b == SubSeq(a, 1, n)
<1>1. a \in Seq(S) /\ Len(a) \in Nat
  BY SequenceOverElements DEF IsSequence
<1>2. n \in Nat /\ n <= Len(a) /\ 1 \in Int /\ n \in 1 - 1 .. Len(a)
  BY <1>1
<1>3. b \in Seq(S) /\ Len(b) = n /\ \A i \in 1 .. n : b[i] = a[i]
  BY <1>1, <1>2
<1>4. IsSequence(b)
  BY <1>3, SequenceIsSequence
<1> QED
  BY <1>3, <1>4

\* Without a scalar all layers are seen, else those up to the first one.
LEMMA Cut ==
  ASSUME NEW a, IsSequence(a)
  PROVE  /\ ~HasScalar(a) => UpToScalar(a) = a
         /\ HasScalar(a) => \E n \in 1 .. Len(a) :
              /\ UpToScalar(a) = SubSeq(a, 1, n) /\ a[n].t = "scalar"
              /\ \A i \in 1 .. n - 1 : a[i].t # "scalar"
<1> DEFINE scalars == {i \in DOMAIN a : a[i].t = "scalar"}
           n == CHOOSE i \in scalars : \A j \in scalars : i <= j
<1>1. DOMAIN a = 1 .. Len(a) /\ Len(a) \in Nat
  BY DEF IsSequence
<1>2. UpToScalar(a) = IF scalars = {} THEN a ELSE SubSeq(a, 1, n)
  BY DEF UpToScalar
<1>3. scalars \subseteq 1 .. Len(a) /\ (scalars = {} <=> ~HasScalar(a))
  BY <1>1 DEF HasScalar
<1>4. ASSUME HasScalar(a)
      PROVE  \E m \in 1 .. Len(a) :
               /\ UpToScalar(a) = SubSeq(a, 1, m) /\ a[m].t = "scalar"
               /\ \A i \in 1 .. m - 1 : a[i].t # "scalar"
  <2>0. scalars \subseteq Nat /\ scalars # {}
    BY <1>1, <1>3, <1>4
  <2> HIDE DEF scalars
  <2>1. \E i \in scalars : \A j \in scalars : i <= j
    BY <2>0, LeastOf
  <2>2. n \in scalars /\ \A j \in scalars : n <= j
    BY <2>1
  <2> HIDE DEF n
  <2>3. n \in 1 .. Len(a) /\ a[n].t = "scalar"
    BY <1>1, <2>2 DEF scalars
  <2>4. \A i \in 1 .. n - 1 : a[i].t # "scalar"
    BY <1>1, <2>2, <2>3 DEF scalars
  <2>5. UpToScalar(a) = SubSeq(a, 1, n)
    BY <1>2, <2>0
  <2> QED
    BY <2>3, <2>4, <2>5
<1> QED
  BY <1>2, <1>3, <1>4

\* A value is its layers up to the scalar.
LEMMA ValueIsCut ==
  ASSUME NEW a, IsValue(a)
  PROVE  UpToScalar(a) = a
<1>1. IsSequence(a) /\ a # <<>> /\ Len(a) \in Nat
  BY DEF IsValue, IsSequence
<1>2. CASE ~HasScalar(a)
  BY <1>1, <1>2, Cut
<1>3. CASE HasScalar(a)
  <2>1. PICK n \in 1 .. Len(a) : UpToScalar(a) = SubSeq(a, 1, n) /\ a[n].t = "scalar"
    BY <1>1, <1>3, Cut
  <2>2. n = Len(a)
    BY <1>1, <2>1 DEF IsValue
  <2>3. IsSequence(SubSeq(a, 1, n)) /\ Len(SubSeq(a, 1, n)) = n /\ \A i \in 1 .. n : SubSeq(a, 1, n)[i] = a[i]
    BY <1>1, <2>1, FirstOnes
  <2>4. SubSeq(a, 1, n) = a
    BY <1>1, <2>2, <2>3, SameElements
  <2> QED
    BY <2>1, <2>4
<1> QED
  BY <1>2, <1>3

\* What is seen of layers is a value; it has a scalar if they have one, which
\* is then what it ends with.
LEMMA CutIsValue ==
  ASSUME NEW a, IsSequence(a), a # <<>>
  PROVE  IsValue(UpToScalar(a)) /\ (IsScalar(UpToScalar(a)) <=> HasScalar(a))
<1>1. Len(a) \in Nat
  BY DEF IsSequence
<1>2. Len(a) # 0
  BY NoElements
<1>3. CASE ~HasScalar(a)
  <2>1. UpToScalar(a) = a /\ \A i \in 1 .. Len(a) : a[i].t # "scalar"
    BY <1>3, Cut DEF HasScalar
  <2>2. Len(a) \in 1 .. Len(a) /\ \A i \in 1 .. Len(a) - 1 : i \in 1 .. Len(a)
    BY <1>1, <1>2
  <2> QED
    BY <1>3, <2>1, <2>2 DEF IsValue, IsScalar, Last
<1>4. CASE HasScalar(a)
  <2>1. PICK n \in 1 .. Len(a) : /\ UpToScalar(a) = SubSeq(a, 1, n) /\ a[n].t = "scalar"
                                 /\ \A i \in 1 .. n - 1 : a[i].t # "scalar"
    BY <1>4, Cut
  <2> DEFINE b == SubSeq(a, 1, n)
  <2>2. IsSequence(b) /\ Len(b) = n /\ \A i \in 1 .. n : b[i] = a[i]
    BY <1>1, <2>1, FirstOnes
  <2> HIDE DEF b
  <2>3. b # <<>>
    BY <2>2, EmptyIsSequence
  <2>4. \A i \in 1 .. n - 1 : i \in 1 .. n
    BY <1>1
  <2>5. IsValue(b)
    BY <2>1, <2>2, <2>3, <2>4 DEF IsValue
  <2>6. IsScalar(b)
    BY <1>1, <2>1, <2>2 DEF IsScalar, Last
  <2> QED
    BY <1>4, <2>1, <2>5, <2>6 DEF b
<1> QED
  BY <1>3, <1>4

\* What is seen of some layers over others: those, and the others only if
\* there is no scalar in them.
LEMMA MergedLayers ==
  ASSUME NEW b, NEW a, IsSequence(a), IsSequence(b), b # <<>>
  PROVE  MergedValue(UpToScalar(b), UpToScalar(a)) = UpToScalar(b \o a)
<1> DEFINE c == b \o a
<1>1. /\ IsSequence(c) /\ Len(c) = Len(b) + Len(a)
      /\ \A i \in 1 .. Len(b) : c[i] = b[i]
      /\ \A i \in 1 .. Len(a) : c[Len(b) + i] = a[i]
  BY Joining
<1> HIDE DEF c
<1>2. Len(a) \in Nat /\ Len(b) \in Nat
  BY DEF IsSequence
<1>3. IsScalar(UpToScalar(b)) <=> HasScalar(b)
  BY CutIsValue
<1>4. CASE HasScalar(b)
  <2>1. PICK n \in 1 .. Len(b) : /\ UpToScalar(b) = SubSeq(b, 1, n) /\ b[n].t = "scalar"
                                 /\ \A i \in 1 .. n - 1 : b[i].t # "scalar"
    BY <1>4, Cut
  <2>2. n \in 1 .. Len(c) /\ c[n].t = "scalar" /\ \A i \in 1 .. n - 1 : i \in 1 .. Len(b)
    BY <1>1, <1>2, <2>1
  <2>3. HasScalar(c)
    BY <2>2 DEF HasScalar
  <2>4. PICK m \in 1 .. Len(c) : /\ UpToScalar(c) = SubSeq(c, 1, m) /\ c[m].t = "scalar"
                                 /\ \A i \in 1 .. m - 1 : c[i].t # "scalar"
    BY <1>1, <2>3, Cut
  <2>5. m = n
    <3>1. \A i \in 1 .. n - 1 : c[i].t # "scalar"
      BY <1>1, <2>1, <2>2
    <3>2. ~(m < n) /\ ~(n < m)
      BY <1>1, <1>2, <2>1, <2>2, <2>4, <3>1
    <3> QED
      BY <1>1, <1>2, <2>1, <2>4, <3>2
  <2>6. /\ IsSequence(SubSeq(b, 1, n)) /\ Len(SubSeq(b, 1, n)) = n
        /\ \A i \in 1 .. n : SubSeq(b, 1, n)[i] = b[i]
    BY <1>2, <2>1, FirstOnes
  <2>7. /\ IsSequence(SubSeq(c, 1, n)) /\ Len(SubSeq(c, 1, n)) = n
        /\ \A i \in 1 .. n : SubSeq(c, 1, n)[i] = c[i]
    BY <1>1, <1>2, <2>2, FirstOnes
  <2>8. \A i \in 1 .. n : i \in 1 .. Len(b)
    BY <1>2, <2>1
  <2> DEFINE u == SubSeq(b, 1, n)
             v == SubSeq(c, 1, n)
  <2>9. IsSequence(u) /\ IsSequence(v) /\ Len(u) = n /\ Len(v) = n /\ \A i \in 1 .. n : u[i] = v[i]
    BY <1>1, <2>6, <2>7, <2>8
  <2> HIDE DEF u, v
  <2>10. u = v
    BY <2>9, SameElements
  <2> QED
    BY <1>3, <1>4, <2>1, <2>4, <2>5, <2>10 DEF MergedValue, u, v, c
<1>5. CASE ~HasScalar(b)
  <2>1. UpToScalar(b) = b /\ \A i \in 1 .. Len(b) : c[i].t # "scalar"
    BY <1>1, <1>5, Cut DEF HasScalar
  <2>2. UpToScalar(c) = b \o UpToScalar(a)
    <3>1. CASE ~HasScalar(a)
      <4>1. \A i \in 1 .. Len(c) : c[i].t # "scalar"
        <5> SUFFICES ASSUME NEW i \in 1 .. Len(c), i \notin 1 .. Len(b)
                     PROVE  c[i].t # "scalar"
          BY <2>1
        <5>1. i - Len(b) \in 1 .. Len(a) /\ Len(b) + (i - Len(b)) = i
          BY <1>1, <1>2
        <5> QED
          BY <1>1, <3>1, <5>1 DEF HasScalar
      <4>2. UpToScalar(c) = c
        BY <1>1, <4>1, Cut DEF HasScalar
      <4> QED
        BY <3>1, <4>2, Cut DEF c
    <3>2. CASE HasScalar(a)
      <4>1. PICK n \in 1 .. Len(a) : /\ UpToScalar(a) = SubSeq(a, 1, n) /\ a[n].t = "scalar"
                                     /\ \A i \in 1 .. n - 1 : a[i].t # "scalar"
        BY <3>2, Cut
      <4>2. Len(b) + n \in 1 .. Len(c) /\ c[Len(b) + n].t = "scalar"
        BY <1>1, <1>2, <4>1
      <4>3. \A i \in 1 .. (Len(b) + n) - 1 : c[i].t # "scalar"
        <5> SUFFICES ASSUME NEW i \in 1 .. (Len(b) + n) - 1, i \notin 1 .. Len(b)
                     PROVE  c[i].t # "scalar"
          BY <2>1
        <5>1. i - Len(b) \in 1 .. n - 1 /\ i - Len(b) \in 1 .. Len(a) /\ Len(b) + (i - Len(b)) = i
          BY <1>1, <1>2
        <5> QED
          BY <1>1, <4>1, <5>1
      <4>4. HasScalar(c)
        BY <4>2 DEF HasScalar
      <4>5. PICK m \in 1 .. Len(c) : /\ UpToScalar(c) = SubSeq(c, 1, m) /\ c[m].t = "scalar"
                                     /\ \A i \in 1 .. m - 1 : c[i].t # "scalar"
        BY <1>1, <4>4, Cut
      <4>6. m = Len(b) + n
        <5>1. m \in Nat /\ n \in Nat /\ Len(b) + n \in Nat
          BY <1>1, <1>2
        <5>2. ~(m < Len(b) + n) /\ ~(Len(b) + n < m)
          BY <1>1, <1>2, <4>2, <4>3, <4>5, <5>1
        <5> QED
          BY <5>1, <5>2
      <4> DEFINE u == SubSeq(a, 1, n)
                 v == SubSeq(c, 1, m)
      <4>7. IsSequence(u) /\ Len(u) = n /\ \A i \in 1 .. n : u[i] = a[i]
        BY <1>2, <4>1, FirstOnes
      <4>8. IsSequence(v) /\ Len(v) = m /\ \A i \in 1 .. m : v[i] = c[i]
        BY <1>1, <1>2, <4>5, FirstOnes
      <4> HIDE DEF u, v
      <4>9. \A i \in 1 .. Len(b) : v[i] = b[i]
        BY <1>1, <1>2, <4>6, <4>8
      <4>10. \A i \in 1 .. n : v[Len(b) + i] = u[i]
        <5> SUFFICES ASSUME NEW i \in 1 .. n
                     PROVE  v[Len(b) + i] = u[i]
          OBVIOUS
        <5>1. Len(b) + i \in 1 .. m /\ i \in 1 .. Len(a)
          BY <1>2, <4>6
        <5> QED
          BY <1>1, <4>7, <4>8, <5>1
      <4>11. v = b \o u
        BY <4>6, <4>7, <4>8, <4>9, <4>10, SameParts
      <4> QED
        BY <4>1, <4>5, <4>11 DEF u, v
    <3> QED
      BY <3>1, <3>2
  <2> QED
    BY <1>3, <1>5, <2>1, <2>2 DEF MergedValue, c
<1> QED
  BY <1>4, <1>5

-----------------------------------------------------------------------------
(***************************************************************************)
(* Parts, and what they come to.                                           *)
(***************************************************************************)
IsObject(o)  == o = [key \in DOMAIN o |-> o[key]] /\ \A key \in DOMAIN o : IsValue(o[key])
AreParts(ps) == IsSequence(ps) /\ \A i \in 1 .. Len(ps) : IsObject(ps[i])

Keys(ps)           == UNION {DOMAIN ps[i] : i \in DOMAIN ps}
LayersIn(o, key)   == IF key \in DOMAIN o THEN o[key] ELSE <<>>
LayersEach(ps, key) == [i \in 1 .. Len(ps) |-> LayersIn(ps[(Len(ps) - i) + 1], key)]

LEMMA Layers ==
  ASSUME NEW ps, AreParts(ps), NEW key
  PROVE  /\ LayersOf(ps, key) = FlattenSeq(LayersEach(ps, key))
         /\ AreSequences(LayersEach(ps, key)) /\ Len(LayersEach(ps, key)) = Len(ps)
         /\ IsSequence(LayersOf(ps, key))
<1> DEFINE each == [i \in DOMAIN ps |-> IF key \in DOMAIN ps[i] THEN ps[i][key] ELSE <<>>]
<1>1. Len(ps) \in Nat /\ DOMAIN ps = 1 .. Len(ps)
  BY DEF AreParts, IsSequence
<1>2. each = [i \in 1 .. Len(ps) |-> each[i]] /\ \A i \in 1 .. Len(ps) : each[i] = LayersIn(ps[i], key)
  BY <1>1 DEF LayersIn
<1>3. LayersOf(ps, key) = FlattenSeq(Reverse(each))
  BY DEF LayersOf
<1> HIDE DEF each
<1>4. Len(each) = Len(ps)
  BY <1>1, <1>2, FunctionIsSequence
<1>5. \A i \in 1 .. Len(ps) : (Len(ps) - i) + 1 \in 1 .. Len(ps)
  BY <1>1
<1>6. Reverse(each) = LayersEach(ps, key)
  BY <1>2, <1>4, <1>5 DEF Reverse, LayersEach
<1>7. \A i \in 1 .. Len(ps) : IsSequence(LayersIn(ps[i], key))
  BY EmptyIsSequence DEF AreParts, IsObject, IsValue, LayersIn
<1> DEFINE l == LayersEach(ps, key)
<1>8. l = [i \in 1 .. Len(ps) |-> l[i]] /\ \A i \in 1 .. Len(ps) : l[i] = LayersIn(ps[(Len(ps) - i) + 1], key)
  BY DEF LayersEach
<1> HIDE DEF l
<1>9. IsSequence(l) /\ Len(l) = Len(ps)
  BY <1>1, <1>8, FunctionIsSequence
<1>10. AreSequences(l)
  BY <1>5, <1>7, <1>8, <1>9 DEF AreSequences
<1> QED
  BY <1>3, <1>6, <1>9, <1>10, FlattenedIsSequence DEF l

\* Parts after others are layers over them.
LEMMA LayersJoined ==
  ASSUME NEW ps, NEW qs, AreParts(ps), AreParts(qs)
  PROVE  /\ AreParts(ps \o qs) /\ Keys(ps \o qs) = Keys(ps) \cup Keys(qs)
         /\ \A key : LayersOf(ps \o qs, key) = LayersOf(qs, key) \o LayersOf(ps, key)
<1> DEFINE rs == ps \o qs
<1>1. /\ IsSequence(rs) /\ Len(rs) = Len(ps) + Len(qs)
      /\ \A i \in 1 .. Len(ps) : rs[i] = ps[i]
      /\ \A i \in 1 .. Len(qs) : rs[Len(ps) + i] = qs[i]
  BY Joining DEF AreParts
<1> HIDE DEF rs
<1>2. Len(ps) \in Nat /\ Len(qs) \in Nat /\ DOMAIN ps = 1 .. Len(ps) /\ DOMAIN qs = 1 .. Len(qs)
  BY DEF AreParts, IsSequence
<1>3. DOMAIN rs = 1 .. Len(rs)
  BY <1>1 DEF IsSequence
<1>4. \A i \in 1 .. Len(rs) : i \in 1 .. Len(ps) \/ \E j \in 1 .. Len(qs) : i = Len(ps) + j
  <2> SUFFICES ASSUME NEW i \in 1 .. Len(rs), i \notin 1 .. Len(ps)
               PROVE  \E j \in 1 .. Len(qs) : i = Len(ps) + j
    OBVIOUS
  <2>1. i - Len(ps) \in 1 .. Len(qs) /\ i = Len(ps) + (i - Len(ps))
    BY <1>1, <1>2
  <2> QED
    BY <2>1
<1>5. AreParts(rs)
  <2> SUFFICES ASSUME NEW i \in 1 .. Len(rs)
               PROVE  IsObject(rs[i])
    BY <1>1 DEF AreParts
  <2> QED
    BY <1>1, <1>4 DEF AreParts
<1>6. Keys(rs) = Keys(ps) \cup Keys(qs)
  <2>1. \A i \in DOMAIN ps : i \in DOMAIN rs /\ rs[i] = ps[i]
    BY <1>1, <1>2, <1>3
  <2>2. \A i \in DOMAIN qs : Len(ps) + i \in DOMAIN rs /\ rs[Len(ps) + i] = qs[i]
    BY <1>1, <1>2, <1>3
  <2>3. \A i \in DOMAIN rs : i \in DOMAIN ps \/ \E j \in DOMAIN qs : i = Len(ps) + j
    BY <1>2, <1>3, <1>4
  <2>4. Keys(ps) \subseteq Keys(rs)
    BY <2>1 DEF Keys
  <2>5. Keys(qs) \subseteq Keys(rs)
    BY <2>2 DEF Keys
  <2>6. Keys(rs) \subseteq Keys(ps) \cup Keys(qs)
    BY <2>1, <2>2, <2>3 DEF Keys
  <2> QED
    BY <2>4, <2>5, <2>6
<1>7. ASSUME NEW key
      PROVE  LayersOf(rs, key) = LayersOf(qs, key) \o LayersOf(ps, key)
  <2> DEFINE a == LayersEach(ps, key)
             b == LayersEach(qs, key)
             c == LayersEach(rs, key)
  <2>1. LayersOf(ps, key) = FlattenSeq(a) /\ AreSequences(a) /\ Len(a) = Len(ps)
    BY Layers
  <2>2. LayersOf(qs, key) = FlattenSeq(b) /\ AreSequences(b) /\ Len(b) = Len(qs)
    BY Layers
  <2>3. LayersOf(rs, key) = FlattenSeq(c) /\ AreSequences(c) /\ Len(c) = Len(rs)
    BY <1>5, Layers
  <2>4. /\ \A i \in 1 .. Len(ps) : a[i] = LayersIn(ps[(Len(ps) - i) + 1], key)
        /\ \A i \in 1 .. Len(qs) : b[i] = LayersIn(qs[(Len(qs) - i) + 1], key)
        /\ \A i \in 1 .. Len(rs) : c[i] = LayersIn(rs[(Len(rs) - i) + 1], key)
    BY DEF LayersEach
  <2> HIDE DEF a, b, c
  <2>5. \A i \in 1 .. Len(b) : c[i] = b[i]
    <3> SUFFICES ASSUME NEW i \in 1 .. Len(qs)
                 PROVE  c[i] = b[i]
      BY <2>2
    <3>1. /\ i \in 1 .. Len(rs) /\ (Len(qs) - i) + 1 \in 1 .. Len(qs)
          /\ (Len(rs) - i) + 1 = Len(ps) + ((Len(qs) - i) + 1)
      BY <1>1, <1>2
    <3>2. rs[(Len(rs) - i) + 1] = qs[(Len(qs) - i) + 1]
      BY <1>1, <3>1
    <3> QED
      BY <2>4, <3>1, <3>2
  <2>6. \A i \in 1 .. Len(a) : c[Len(b) + i] = a[i]
    <3> SUFFICES ASSUME NEW i \in 1 .. Len(ps)
                 PROVE  c[Len(qs) + i] = a[i]
      BY <2>1, <2>2
    <3>1. /\ Len(qs) + i \in 1 .. Len(rs) /\ (Len(ps) - i) + 1 \in 1 .. Len(ps)
          /\ (Len(rs) - (Len(qs) + i)) + 1 = (Len(ps) - i) + 1
      BY <1>1, <1>2
    <3>2. rs[(Len(rs) - (Len(qs) + i)) + 1] = ps[(Len(ps) - i) + 1]
      BY <1>1, <3>1
    <3> QED
      BY <2>4, <3>1, <3>2
  <2>7. Len(c) = Len(b) + Len(a)
    BY <1>1, <1>2, <2>1, <2>2, <2>3
  <2>8. IsSequence(a) /\ IsSequence(b) /\ IsSequence(c)
    BY <2>1, <2>2, <2>3 DEF AreSequences
  <2>9. c = b \o a
    BY <2>5, <2>6, <2>7, <2>8, SameParts
  <2> QED
    BY <2>1, <2>2, <2>3, <2>9, FlattenedJoin
<1> QED
  BY <1>5, <1>6, <1>7 DEF rs

\* A key has layers where it is in a part.
LEMMA LayersAt ==
  ASSUME NEW ps, AreParts(ps), NEW key
  PROVE  /\ key \in Keys(ps) => LayersOf(ps, key) # <<>>
         /\ key \notin Keys(ps) => LayersOf(ps, key) = <<>>
<1> DEFINE l == LayersEach(ps, key)
           T == {n \in Nat : \A qs : AreParts(qs) /\ Len(qs) = n /\ key \in Keys(qs) => LayersOf(qs, key) # <<>>}
<1>1. LayersOf(ps, key) = FlattenSeq(l) /\ AreSequences(l) /\ Len(l) = Len(ps)
  BY Layers
<1>2. Len(ps) \in Nat /\ DOMAIN ps = 1 .. Len(ps)
  BY DEF AreParts, IsSequence
<1>3. ASSUME key \notin Keys(ps)
      PROVE  LayersOf(ps, key) = <<>>
  <2>1. \A i \in 1 .. Len(ps) : (Len(ps) - i) + 1 \in 1 .. Len(ps)
    BY <1>2
  <2>2. \A i \in 1 .. Len(ps) : key \notin DOMAIN ps[i]
    BY <1>2, <1>3 DEF Keys
  <2>3. \A i \in 1 .. Len(ps) : l[i] = <<>>
    BY <2>1, <2>2 DEF LayersEach, LayersIn
  <2> HIDE DEF l
  <2>4. IsSequence(l) /\ \A i \in 1 .. Len(l) : l[i] = <<>>
    BY <1>1, <2>3 DEF AreSequences
  <2> QED
    BY <1>1, <2>4, FlattenedEmptyOnes
<1>4. 0 \in T
  <2> SUFFICES ASSUME NEW qs, AreParts(qs), Len(qs) = 0, key \in Keys(qs)
               PROVE  FALSE
    OBVIOUS
  <2>1. DOMAIN qs = 1 .. 0
    BY DEF AreParts, IsSequence
  <2> QED
    BY <2>1 DEF Keys
<1>5. ASSUME NEW n \in Nat, n \in T
      PROVE  n + 1 \in T
  <2> SUFFICES ASSUME NEW qs, AreParts(qs), Len(qs) = n + 1, key \in Keys(qs)
               PROVE  LayersOf(qs, key) # <<>>
    BY <1>5
  <2> DEFINE a == [i \in 1 .. n |-> qs[i]]
             o == qs[n + 1]
             one == <<o>>
  <2>1. IsSequence(a) /\ Len(a) = n /\ qs = Append(a, o) /\ n + 1 \in 1 .. Len(qs)
    BY LastApart DEF AreParts
  <2>2. \A i \in 1 .. n : a[i] = qs[i] /\ i \in 1 .. Len(qs)
    OBVIOUS
  <2>3. AreParts(a) /\ IsObject(o)
    BY <2>1, <2>2 DEF AreParts
  <2> HIDE DEF a, o
  <2>4. qs = a \o one /\ IsSequence(one) /\ Len(one) = 1 /\ one[1] = o
    BY <2>1, JoiningOne
  <2>5. DOMAIN one = 1 .. 1
    BY <2>4 DEF IsSequence
  <2> HIDE DEF one
  <2>6. AreParts(one)
    BY <2>3, <2>4 DEF AreParts
  <2>7. LayersOf(qs, key) = LayersOf(one, key) \o LayersOf(a, key) /\ Keys(qs) = Keys(a) \cup Keys(one)
    BY <2>3, <2>4, <2>6, LayersJoined
  <2>8. Keys(one) = DOMAIN o
    <3>1. 1 \in DOMAIN one /\ \A i \in DOMAIN one : i = 1
      BY <2>5
    <3>2. \A i \in DOMAIN one : one[i] = o
      BY <2>4, <3>1
    <3>3. Keys(one) = UNION {DOMAIN one[i] : i \in DOMAIN one}
      BY DEF Keys
    <3> QED
      BY <3>1, <3>2, <3>3
  <2>9. LayersOf(one, key) = LayersIn(o, key)
    <3> DEFINE m == LayersEach(one, key)
    <3>1. LayersOf(one, key) = FlattenSeq(m) /\ AreSequences(m) /\ Len(m) = 1
      BY <2>4, <2>6, Layers
    <3>2. m[1] = LayersIn(o, key)
      BY <2>4 DEF LayersEach
    <3> HIDE DEF m
    <3>3. IsSequence(m) /\ IsSequence(m[1])
      BY <3>1 DEF AreSequences
    <3>4. FlattenSeq(m) = FlattenSeq(<<>>) \o m[1]
      <4> DEFINE none == <<>>
                 s == m[1]
      <4>1. IsSequence(none) /\ Len(none) = 0 /\ IsSequence(s) /\ 0 \in Nat /\ Len(m) = 0 + 1 /\ m[0 + 1] = s
        BY <3>1, <3>3, EmptyIsSequence
      <4>2. \A i \in 1 .. 0 : m[i] = none[i]
        OBVIOUS
      <4> HIDE DEF none, s
      <4>3. FlattenSeq(m) = FlattenSeq(none) \o s
        BY <3>3, <4>1, <4>2, FlattenedLonger
      <4> QED
        BY <4>3 DEF none, s
    <3> QED
      BY <3>1, <3>2, <3>3, <3>4, FlattenedNothing, JoiningNothing
  <2>10. IsSequence(LayersOf(one, key)) /\ IsSequence(LayersOf(a, key))
    BY <2>3, <2>6, Layers
  <2>11. LayersOf(one, key) # <<>> \/ LayersOf(a, key) # <<>>
    <3>1. CASE key \in DOMAIN o
      BY <2>3, <2>9, <3>1 DEF IsObject, IsValue, LayersIn
    <3>2. CASE key \in Keys(a)
      BY <1>5, <2>1, <2>3, <3>2
    <3> QED
      BY <2>7, <2>8, <3>1, <3>2
  <2> DEFINE x == LayersOf(one, key)
             y == LayersOf(a, key)
  <2> HIDE DEF x, y
  <2>12. Len(x \o y) = Len(x) + Len(y) /\ Len(x) \in Nat /\ Len(y) \in Nat
    <3>1. IsSequence(x) /\ IsSequence(y)
      BY <2>10 DEF x, y
    <3> QED
      BY <3>1, Joining DEF IsSequence
  <2>13. Len(x) # 0 \/ Len(y) # 0
    BY <2>10, <2>11, NoElements DEF x, y
  <2>14. Len(x \o y) # 0
    BY <2>12, <2>13
  <2> QED
    BY <2>7, <2>14, EmptyIsSequence DEF x, y
<1> HIDE DEF T
<1>6. \A n \in Nat : n \in T
  BY <1>4, <1>5, Induction
<1> QED
  BY <1>2, <1>3, <1>6 DEF T

\* What parts come to is an object.
LEMMA MeaningIs ==
  ASSUME NEW ps, AreParts(ps)
  PROVE  /\ Meaning(ps) = [key \in Keys(ps) |-> UpToScalar(LayersOf(ps, key))]
         /\ IsObject(Meaning(ps))
<1>1. Meaning(ps) = [key \in Keys(ps) |-> UpToScalar(LayersOf(ps, key))]
  BY DEF Meaning, Keys
<1>2. \A key \in Keys(ps) : IsValue(UpToScalar(LayersOf(ps, key)))
  BY Layers, LayersAt, CutIsValue
<1> QED
  BY <1>1, <1>2 DEF IsObject

\* Parts after others come to their object over that of the others.
LEMMA Merging ==
  ASSUME NEW ps, NEW qs, AreParts(ps), AreParts(qs)
  PROVE  AreParts(ps \o qs) /\ Meaning(ps \o qs) = WithFallback(Meaning(qs), Meaning(ps))
<1> DEFINE rs == ps \o qs
<1>1. /\ AreParts(rs) /\ Keys(rs) = Keys(ps) \cup Keys(qs)
      /\ \A key : LayersOf(rs, key) = LayersOf(qs, key) \o LayersOf(ps, key)
  BY LayersJoined
<1> HIDE DEF rs
<1> DEFINE new == Meaning(qs)
           old == Meaning(ps)
           both == Meaning(rs)
<1>2. /\ new = [key \in Keys(qs) |-> UpToScalar(LayersOf(qs, key))]
      /\ old = [key \in Keys(ps) |-> UpToScalar(LayersOf(ps, key))]
      /\ both = [key \in Keys(rs) |-> UpToScalar(LayersOf(rs, key))]
  BY <1>1, MeaningIs
<1> HIDE DEF new, old, both
<1>3. WithFallback(new, old) =
        [key \in Keys(rs) |-> IF key \notin Keys(ps) THEN new[key]
                              ELSE IF key \notin Keys(qs) THEN old[key]
                              ELSE MergedValue(new[key], old[key])]
  <2>1. DOMAIN new = Keys(qs) /\ DOMAIN old = Keys(ps) /\ DOMAIN new \cup DOMAIN old = Keys(rs)
    BY <1>1, <1>2
  <2> QED
    BY <2>1 DEF WithFallback
<1>4. ASSUME NEW key \in Keys(rs)
      PROVE  both[key] = IF key \notin Keys(ps) THEN new[key]
                         ELSE IF key \notin Keys(qs) THEN old[key]
                         ELSE MergedValue(new[key], old[key])
  <2> DEFINE x == LayersOf(qs, key)
             y == LayersOf(ps, key)
  <2>1. IsSequence(x) /\ IsSequence(y)
    BY Layers
  <2>2. both[key] = UpToScalar(x \o y)
    BY <1>1, <1>2
  <2>3. /\ key \in Keys(qs) => new[key] = UpToScalar(x) /\ x # <<>>
        /\ key \notin Keys(qs) => x = <<>>
    BY <1>2, LayersAt
  <2>4. /\ key \in Keys(ps) => old[key] = UpToScalar(y)
        /\ key \notin Keys(ps) => y = <<>>
    BY <1>2, LayersAt
  <2> HIDE DEF x, y
  <2>5. x \o <<>> = x /\ <<>> \o y = y
    BY <2>1, JoiningNothing
  <2>6. CASE key \notin Keys(ps)
    BY <1>1, <2>2, <2>3, <2>4, <2>5, <2>6
  <2>7. CASE key \in Keys(ps) /\ key \notin Keys(qs)
    BY <2>2, <2>3, <2>4, <2>5, <2>7
  <2>8. CASE key \in Keys(ps) /\ key \in Keys(qs)
    BY <2>1, <2>2, <2>3, <2>4, <2>8, MergedLayers
  <2> QED
    BY <2>6, <2>7, <2>8
<1>5. both = WithFallback(new, old)
  BY <1>2, <1>3, <1>4
<1> QED
  BY <1>1, <1>5 DEF rs, new, old, both

\* No parts come to nothing, and a single one to itself.
LEMMA NoPartsMean == AreParts(<<>>) /\ Meaning(<<>>) = NoObject
<1>1. AreParts(<<>>)
  BY EmptyIsSequence DEF AreParts
<1>2. Keys(<<>>) = {}
  BY EmptyIsSequence DEF Keys
<1> QED
  BY <1>1, <1>2, MeaningIs DEF NoObject

LEMMA OnePartMeans ==
  ASSUME NEW o, IsObject(o)
  PROVE  AreParts(<<o>>) /\ Meaning(<<o>>) = o
<1> DEFINE one == <<o>>
<1>1. IsSequence(one) /\ Len(one) = 1 /\ one[1] = o
  BY EmptyIsSequence, JoiningOne
<1>2. DOMAIN one = 1 .. 1
  BY <1>1 DEF IsSequence
<1> HIDE DEF one
<1>3. AreParts(one)
  BY <1>1 DEF AreParts
<1>4. Keys(one) = DOMAIN o
  <2>1. 1 \in DOMAIN one /\ \A i \in DOMAIN one : one[i] = o
    BY <1>1, <1>2
  <2> QED
    BY <2>1 DEF Keys
<1>5. ASSUME NEW key \in DOMAIN o
      PROVE  UpToScalar(LayersOf(one, key)) = o[key]
  <2> DEFINE m == LayersEach(one, key)
             none == <<>>
             s == m[1]
  <2>1. LayersOf(one, key) = FlattenSeq(m) /\ AreSequences(m) /\ Len(m) = 1
    BY <1>1, <1>3, Layers
  <2>2. m[1] = o[key]
    BY <1>1 DEF LayersEach, LayersIn
  <2> HIDE DEF m
  <2>3. IsSequence(m) /\ IsSequence(s) /\ IsSequence(none) /\ Len(none) = 0 /\ 0 \in Nat /\ Len(m) = 0 + 1 /\ m[0 + 1] = s
    BY <2>1, EmptyIsSequence DEF AreSequences
  <2>4. \A i \in 1 .. 0 : m[i] = none[i]
    OBVIOUS
  <2>5. FlattenSeq(none) = none
    BY FlattenedNothing
  <2>6. none \o s = s
    BY <2>3, JoiningNothing
  <2> HIDE DEF none, s
  <2>7. FlattenSeq(m) = FlattenSeq(none) \o s
    BY <2>3, <2>4, FlattenedLonger
  <2>8. LayersOf(one, key) = o[key]
    BY <2>1, <2>2, <2>5, <2>6, <2>7 DEF s
  <2> QED
    BY <2>8, ValueIsCut DEF IsObject
<1>6. Meaning(one) = [key \in DOMAIN o |-> UpToScalar(LayersOf(one, key))]
  BY <1>3, <1>4, MeaningIs
<1>7. Meaning(one) = [key \in DOMAIN o |-> o[key]]
  BY <1>5, <1>6
<1> QED
  BY <1>3, <1>7 DEF IsObject, one

-----------------------------------------------------------------------------
(***************************************************************************)
(* The texts of all files exist where no file includes itself.             *)
(***************************************************************************)
TextIn(fs, texts, a) ==
  IF Parses(fs[a.file], a.syntax) THEN Inlined(texts, a.file.dir, fs[a.file].body) ELSE Failure
Solves(texts, fs) == texts = [a \in Asked(fs) |-> TextIn(fs, texts, a)]

\* The text of a file depends only on those of the files it may include.
LEMMA DependsOn ==
  ASSUME NEW fs, NEW depth, Descends(fs, depth), NEW file \in DOMAIN fs, NEW t, NEW u,
         DOMAIN t = Asked(fs), DOMAIN u = Asked(fs),
         \A a \in Asked(fs) : depth[a.file] < depth[file] => t[a] = u[a]
  PROVE  Inlined(t, file.dir, fs[file].body) = Inlined(u, file.dir, fs[file].body)
<1> DEFINE body == fs[file].body
<1>1. ASSUME NEW i \in DOMAIN body, body[i].t # "field"
      PROVE  \A syntax : InlinedName(t, file.dir, body[i].name, syntax) = InlinedName(u, file.dir, body[i].name, syntax)
  <2> DEFINE name == body[i].name
  <2>1. \A other \in Named(file.dir, name) \cap DOMAIN fs : depth[other] < depth[file]
    BY <1>1 DEF Descends
  <2>2. ASSUME NEW other \in Named(file.dir, name), NEW syntax
        PROVE  InlinedFile(t, other, syntax) = InlinedFile(u, other, syntax)
    <3> DEFINE asked == [file |-> other, syntax |-> syntax]
    <3>1. asked \in Asked(fs) => other \in DOMAIN fs /\ asked.file = other
      BY DEF Asked
    <3>2. asked \in Asked(fs) => t[asked] = u[asked]
      BY <2>1, <3>1
    <3> HIDE DEF asked
    <3>3. /\ InlinedFile(t, other, syntax) = IF asked \in DOMAIN t THEN t[asked]
                                             ELSE IF syntax = "CONF" THEN Success(<<>>) ELSE Failure
          /\ InlinedFile(u, other, syntax) = IF asked \in DOMAIN u THEN u[asked]
                                             ELSE IF syntax = "CONF" THEN Success(<<>>) ELSE Failure
      BY DEF InlinedFile, asked
    <3> QED
      BY <3>2, <3>3
  <2> HIDE DEF name
  <2>3. CASE name.ext # ""
    <3>1. RelativeTo(file.dir, name) \in Named(file.dir, name)
      BY <2>3 DEF Named
    <3> QED
      BY <2>2, <2>3, <3>1 DEF InlinedName, name
  <2>4. CASE name.ext = ""
    <3> DEFINE there == RelativeTo(file.dir, name)
    <3>1. /\ [there EXCEPT !.ext = "conf"] \in Named(file.dir, name)
          /\ [there EXCEPT !.ext = "json"] \in Named(file.dir, name)
      BY <2>4 DEF Named
    <3>2. ASSUME NEW syntax
          PROVE  /\ InlinedConf(t, there, syntax) = InlinedConf(u, there, syntax)
                 /\ InlinedJson(t, there, syntax) = InlinedJson(u, there, syntax)
      <4> HIDE DEF there
      <4> QED
        BY <2>2, <3>1 DEF InlinedConf, InlinedJson
    <3> QED
      BY <2>4, <3>2 DEF InlinedName, name
  <2> QED
    BY <2>3, <2>4
<1>2. ASSUME NEW i \in DOMAIN body
      PROVE  InlinedStatement(t, file.dir, body[i]) = InlinedStatement(u, file.dir, body[i])
  BY <1>1 DEF InlinedStatement
<1>3. [i \in DOMAIN body |-> InlinedStatement(t, file.dir, body[i])]
        = [i \in DOMAIN body |-> InlinedStatement(u, file.dir, body[i])]
  BY <1>2
<1> QED
  BY <1>3 DEF Inlined

LEMMA TextsExist ==
  ASSUME NEW fs, NoCycle(fs)
  PROVE  Solves(Texts(fs), fs)
<1>0. PICK n \in Nat : \E depth \in [DOMAIN fs -> 0 .. n] : Descends(fs, depth)
  BY DEF NoCycle
<1>1. PICK depth \in [DOMAIN fs -> 0 .. n] : Descends(fs, depth)
  BY <1>0
<1> DEFINE Partial(k, t) == t = [a \in Asked(fs) |-> IF depth[a.file] < k THEN TextIn(fs, t, a) ELSE Failure]
           T == {k \in Nat : \E t : Partial(k, t)}
<1>2. \A a \in Asked(fs) : a.file \in DOMAIN fs /\ depth[a.file] \in Nat /\ depth[a.file] <= n
  BY DEF Asked
<1>3. 0 \in T
  <2> DEFINE t == [a \in Asked(fs) |-> Failure]
  <2>1. \A a \in Asked(fs) : ~(depth[a.file] < 0)
    BY <1>2
  <2>2. Partial(0, t)
    BY <2>1
  <2> QED
    BY <2>2
<1>4. ASSUME NEW k \in Nat, k \in T
      PROVE  k + 1 \in T
  <2>1. PICK t : Partial(k, t)
    BY <1>4
  <2> DEFINE u == [a \in Asked(fs) |-> IF depth[a.file] < k + 1 THEN TextIn(fs, t, a) ELSE Failure]
  <2>2. DOMAIN t = Asked(fs) /\ DOMAIN u = Asked(fs)
    BY <2>1
  <2>3. ASSUME NEW b \in Asked(fs), depth[b.file] < k
        PROVE  t[b] = u[b]
    <3>1. depth[b.file] < k + 1
      BY <1>2, <2>3
    <3>2. t[b] = TextIn(fs, t, b)
      BY <2>1, <2>3
    <3> QED
      BY <3>1, <3>2
  <2> HIDE DEF u
  <2>4. ASSUME NEW a \in Asked(fs), depth[a.file] < k + 1
        PROVE  TextIn(fs, t, a) = TextIn(fs, u, a)
    <3>1. \A b \in Asked(fs) : depth[b.file] < depth[a.file] => t[b] = u[b]
      <4> SUFFICES ASSUME NEW b \in Asked(fs), depth[b.file] < depth[a.file]
                   PROVE  t[b] = u[b]
        OBVIOUS
      <4>1. depth[b.file] < k
        BY <1>2, <2>4
      <4> QED
        BY <2>3, <4>1
    <3>2. a.file \in DOMAIN fs
      BY <1>2
    <3>3. Inlined(t, a.file.dir, fs[a.file].body) = Inlined(u, a.file.dir, fs[a.file].body)
      BY <1>1, <2>2, <3>1, <3>2, DependsOn
    <3> QED
      BY <3>3 DEF TextIn
  <2>5. Partial(k + 1, u)
    BY <2>4 DEF u
  <2> QED
    BY <2>5
<1> HIDE DEF T
<1>5. n + 1 \in T
  BY <1>3, <1>4, Induction
<1>6. PICK t : Partial(n + 1, t)
  BY <1>5 DEF T
<1>7. \A a \in Asked(fs) : depth[a.file] < n + 1
  BY <1>2
<1>8. t = [a \in Asked(fs) |-> TextIn(fs, t, a)]
  BY <1>6, <1>7
<1>9. \E u : u = [a \in Asked(fs) |-> TextIn(fs, u, a)]
  BY <1>8
<1>10. Texts(fs) = CHOOSE u : u = [a \in Asked(fs) |-> TextIn(fs, u, a)]
  BY DEF Texts, TextIn
<1> QED
  BY <1>9, <1>10 DEF Solves

-----------------------------------------------------------------------------
(***************************************************************************)
(* The text of a document, statement by statement.                         *)
(***************************************************************************)
PartsUpTo(e, dir, body, n) == FlattenSeq([i \in 1 .. n |-> InlinedStatement(e, dir, body[i]).parts])

LEMMA NoStatements ==
  ASSUME NEW e, NEW dir, NEW body
  PROVE  PartsUpTo(e, dir, body, 0) = <<>>
<1> DEFINE f == [i \in 1 .. 0 |-> InlinedStatement(e, dir, body[i]).parts]
<1>1. f = [i \in 1 .. 0 |-> f[i]]
  OBVIOUS
<1> HIDE DEF f
<1>2. IsSequence(f) /\ Len(f) = 0
  BY <1>1, FunctionIsSequence
<1>3. f = <<>>
  BY <1>2, NoElements
<1> QED
  BY <1>3, FlattenedNothing DEF PartsUpTo, f

LEMMA StatementMore ==
  ASSUME NEW e, NEW dir, NEW body, NEW n \in Nat, AreParts(PartsUpTo(e, dir, body, n)),
         NEW text, text = InlinedStatement(e, dir, body[n + 1]), AreParts(text.parts)
  PROVE  /\ AreParts(PartsUpTo(e, dir, body, n + 1))
         /\ Meaning(PartsUpTo(e, dir, body, n + 1))
              = WithFallback(Meaning(text.parts), Meaning(PartsUpTo(e, dir, body, n)))
<1> DEFINE f == [i \in 1 .. n |-> InlinedStatement(e, dir, body[i]).parts]
           g == [i \in 1 .. n + 1 |-> InlinedStatement(e, dir, body[i]).parts]
           s == text.parts
           p == PartsUpTo(e, dir, body, n)
           q == PartsUpTo(e, dir, body, n + 1)
<1>1. f = [i \in 1 .. n |-> f[i]] /\ g = [i \in 1 .. n + 1 |-> g[i]]
  OBVIOUS
<1>2. \A i \in 1 .. n : i \in 1 .. n + 1
  OBVIOUS
<1>3. \A i \in 1 .. n : g[i] = f[i]
  BY <1>2
<1>4. g[n + 1] = s
  OBVIOUS
<1>5. p = FlattenSeq(f) /\ q = FlattenSeq(g)
  BY DEF PartsUpTo
<1>6. AreParts(p) /\ AreParts(s)
  OBVIOUS
<1> HIDE DEF f, g, s, p, q
<1>7. IsSequence(f) /\ Len(f) = n
  BY <1>1, FunctionIsSequence
<1>8. IsSequence(g) /\ Len(g) = n + 1
  <2>1. n + 1 \in Nat
    OBVIOUS
  <2> QED
    BY <1>1, <2>1, FunctionIsSequence
<1>9. IsSequence(s)
  BY <1>6 DEF AreParts
<1>10. q = p \o s
  BY <1>3, <1>4, <1>5, <1>7, <1>8, <1>9, FlattenedLonger
<1>11. AreParts(q) /\ Meaning(q) = WithFallback(Meaning(s), Meaning(p))
  BY <1>6, <1>10, Merging
<1> QED
  BY <1>11 DEF p, q, s

\* A document succeeds when all of its statements do.
LEMMA AllStatements ==
  ASSUME NEW e, NEW dir, NEW body, IsSequence(body),
         \A i \in 1 .. Len(body) : ~InlinedStatement(e, dir, body[i]).fails
  PROVE  Inlined(e, dir, body) = Success(PartsUpTo(e, dir, body, Len(body)))
<1> DEFINE texts == [i \in DOMAIN body |-> InlinedStatement(e, dir, body[i])]
<1>1. DOMAIN body = 1 .. Len(body)
  BY DEF IsSequence
<1>2. ~(\E i \in DOMAIN texts : texts[i].fails)
  BY <1>1
<1>3. [i \in DOMAIN texts |-> texts[i].parts] = [i \in 1 .. Len(body) |-> InlinedStatement(e, dir, body[i]).parts]
  BY <1>1
<1>4. Inlined(e, dir, body) = Joined(texts)
  BY DEF Inlined
<1> HIDE DEF texts
<1>5. Joined(texts) = Success(FlattenSeq([i \in DOMAIN texts |-> texts[i].parts]))
  BY <1>2 DEF Joined
<1> QED
  BY <1>3, <1>4, <1>5 DEF PartsUpTo

LEMMA OneStatementFails ==
  ASSUME NEW e, NEW dir, NEW body, IsSequence(body), NEW i \in 1 .. Len(body),
         InlinedStatement(e, dir, body[i]).fails
  PROVE  Inlined(e, dir, body).fails
<1> DEFINE texts == [j \in DOMAIN body |-> InlinedStatement(e, dir, body[j])]
<1>1. i \in DOMAIN texts /\ texts[i].fails
  BY DEF IsSequence
<1>2. Inlined(e, dir, body) = Joined(texts)
  BY DEF Inlined
<1> HIDE DEF texts
<1>3. Joined(texts) = Failure
  BY <1>1 DEF Joined
<1> QED
  BY <1>2, <1>3 DEF Failure

\* What a statement stands for.
LEMMA FieldText ==
  ASSUME NEW e, NEW dir, NEW s, s.t = "field", IsValue(s.v), NEW text, text = InlinedStatement(e, dir, s)
  PROVE  /\ ~text.fails /\ AreParts(text.parts)
         /\ Meaning(text.parts) = [key \in {s.key} |-> s.v]
<1> DEFINE o == [key \in {s.key} |-> s.v]
<1>1. IsObject(o)
  BY DEF IsObject
<1>2. text = Success(<<o>>)
  BY DEF InlinedStatement
<1> HIDE DEF o
<1>3. text.parts = <<o>> /\ text.fails = FALSE
  BY <1>2 DEF Success
<1> QED
  BY <1>1, <1>3, OnePartMeans DEF o

\* config::resolve makes objects of objects.
ResolveGivesObjects == \A o : IsObject(o) /\ ~Resolve(o).fails => IsObject(Resolve(o).v)

\* Where an include gave v, the statement stands for it, or for what it is
\* resolved to.
LEMMA IncludeText ==
  ASSUME ResolveGivesObjects, NEW e, NEW dir, NEW s, s.t # "field",
         NEW named, named = InlinedName(e, dir, s.name, "UNSPECIFIED"),
         ~named.fails, AreParts(named.parts),
         NEW text, text = InlinedStatement(e, dir, s),
         NEW r, r = (IF s.how = "file" THEN Resolve(Meaning(named.parts)) ELSE [fails |-> FALSE, v |-> Meaning(named.parts)])
  PROVE  /\ r.fails => text.fails
         /\ ~r.fails => ~text.fails /\ AreParts(text.parts) /\ Meaning(text.parts) = r.v
<1>1. text = IF s.how = "file" THEN Resolved(named) ELSE named
  BY DEF InlinedStatement
<1>2. CASE s.how # "file"
  BY <1>1, <1>2
<1>3. CASE s.how = "file"
  <2> DEFINE o == Meaning(named.parts)
  <2>1. IsObject(o)
    BY MeaningIs
  <2>2. text = IF Resolve(o).fails THEN Failure ELSE Success(<<Resolve(o).v>>)
    BY <1>1, <1>3 DEF Resolved
  <2>3. r = Resolve(o)
    BY <1>3
  <2> HIDE DEF o
  <2>4. CASE r.fails
    BY <2>2, <2>3, <2>4 DEF Failure
  <2>5. CASE ~r.fails
    <3>1. IsObject(r.v)
      BY <2>1, <2>3, <2>5 DEF ResolveGivesObjects
    <3>2. text.parts = <<r.v>> /\ text.fails = FALSE
      BY <2>2, <2>3, <2>5 DEF Success
    <3> QED
      BY <2>5, <3>1, <3>2, OnePartMeans
  <2> QED
    BY <2>4, <2>5
<1> QED
  BY <1>2, <1>3

LEMMA IncludeFails ==
  ASSUME NEW e, NEW dir, NEW s, s.t # "field", InlinedName(e, dir, s.name, "UNSPECIFIED").fails
  PROVE  InlinedStatement(e, dir, s).fails
BY DEF InlinedStatement, Resolved, Failure

\* A name with an extension stands for the file, one without for both files,
\* which are looked for where it says if it is at home.
HasExtension(name) == name.ext # ""

LEMMA NamedText ==
  ASSUME NEW e, NEW dir, NEW name, HasExtension(name), NEW syntax
  PROVE  InlinedName(e, dir, name, syntax)
           = InlinedFile(e, RelativeTo(dir, name), Syntax(RelativeTo(dir, name), syntax))
BY DEF InlinedName, HasExtension

LEMMA Unnamed ==
  ASSUME NEW e, NEW dir, NEW name, ~HasExtension(name), IsAtHome(dir, name), NEW syntax
  PROVE  InlinedName(e, dir, name, syntax) = Joined(<<InlinedJson(e, name, syntax), InlinedConf(e, name, syntax)>>)
<1> DEFINE there == RelativeTo(dir, name)
<1>1. there = name
  BY DEF IsAtHome, HasExtension
<1>2. InlinedName(e, dir, name, syntax) = Joined(<<InlinedJson(e, there, syntax), InlinedConf(e, there, syntax)>>)
  BY DEF InlinedName, HasExtension
<1> HIDE DEF there
<1> QED
  BY <1>1, <1>2

LEMMA OrEmptySucceeds ==
  ASSUME NEW e, NEW name, NEW syntax
  PROVE  ~InlinedJson(e, name, syntax).fails /\ ~InlinedConf(e, name, syntax).fails
<1>1. \A text : ~OrEmpty(text).fails
  BY DEF OrEmpty, Success
<1>2. ~Success(<<>>).fails
  BY DEF Success
<1> QED
  BY <1>1, <1>2 DEF InlinedJson, InlinedConf

LEMMA BothText ==
  ASSUME NEW a, NEW b, ~a.fails, ~b.fails, IsSequence(a.parts), IsSequence(b.parts)
  PROVE  Joined(<<a, b>>) = Success(a.parts \o b.parts)
<1> DEFINE two == <<a, b>>
           ss == [i \in DOMAIN two |-> two[i].parts]
           x == a.parts
           y == b.parts
           none == <<>>
           one == <<x>>
<1>1. two = Append(<<a>>, b) /\ IsSequence(<<a>>) /\ Len(<<a>>) = 1 /\ <<a>>[1] = a
  BY EmptyIsSequence, JoiningOne
<1>2. IsSequence(two) /\ Len(two) = 2 /\ two[1] = a /\ two[2] = b
  <2>1. Len(two) = 2 /\ two[1] = a /\ two[2] = b
    OBVIOUS
  <2>2. IsSequence(Append(<<a>>, b))
    BY <1>1, Pushing
  <2> QED
    BY <1>1, <2>1, <2>2
<1>3. DOMAIN two = 1 .. 2
  BY <1>2 DEF IsSequence
<1>4. ~(\E i \in DOMAIN two : two[i].fails)
  <2>1. \A i \in DOMAIN two : i = 1 \/ i = 2
    BY <1>3
  <2> QED
    BY <1>2, <2>1
<1>5. Joined(two) = Success(FlattenSeq(ss))
  BY <1>4 DEF Joined
<1>6. ss = [i \in 1 .. 2 |-> ss[i]] /\ ss[1] = x /\ ss[2] = y
  BY <1>2, <1>3
<1>7. IsSequence(one) /\ Len(one) = 1 /\ one[1] = x /\ one = Append(none, x)
  BY EmptyIsSequence, JoiningOne
<1>8. IsSequence(x) /\ IsSequence(y) /\ IsSequence(none) /\ FlattenSeq(none) = none
  BY EmptyIsSequence, FlattenedNothing
<1> HIDE DEF two, ss, x, y, one
<1>9. IsSequence(ss) /\ Len(ss) = 1 + 1 /\ ss[1 + 1] = y
  <2>1. 2 \in Nat /\ 1 + 1 = 2
    OBVIOUS
  <2> QED
    BY <1>6, <2>1, FunctionIsSequence
<1>10. \A i \in 1 .. 1 : ss[i] = one[i]
  BY <1>6, <1>7
<1>11. FlattenSeq(ss) = FlattenSeq(one) \o y
  <2>1. IsSequence(one) /\ Len(one) = 1 /\ IsSequence(y) /\ 1 \in Nat
    BY <1>7, <1>8
  <2> QED
    BY <2>1, <1>9, <1>10, FlattenedLonger
<1> HIDE DEF none
<1>12. FlattenSeq(one) = FlattenSeq(none) \o x
  BY <1>7, <1>8, FlattenedAppend
<1>13. none \o x = x
  BY <1>8, JoiningNothing DEF none
<1> QED
  BY <1>5, <1>8, <1>11, <1>12, <1>13 DEF two, x, y

-----------------------------------------------------------------------------
(***************************************************************************)
(* How far a function has come, and the text it is for.                    *)
(*                                                                         *)
(* e are the texts of the files, x is the text of what the application     *)
(* asked for, q what it asked.                                             *)
(***************************************************************************)
Syntaxes == {"UNSPECIFIED", "CONF", "JSON"}

JsonName(name) == [name EXCEPT !.ext = "json"]
ConfName(name) == [name EXCEPT !.ext = "conf"]

\* The fields before the statement at hand are in values, and none failed.
IsParse(e, f) ==
  /\ f = [fn |-> "parse", dir |-> f.dir, body |-> f.body, next |-> f.next, values |-> f.values]
  /\ IsContent(f) /\ AreAtHome(f.dir, f.body) /\ f.next \in 1 .. Len(f.body) + 1
  /\ \A i \in 1 .. f.next - 1 : ~InlinedStatement(e, f.dir, f.body[i]).fails
  /\ AreParts(PartsUpTo(e, f.dir, f.body, f.next - 1))
  /\ f.values = Meaning(PartsUpTo(e, f.dir, f.body, f.next - 1))

\* There is a reason not to have got something.
NotGot(e, name, options) == options.syntax = "CONF" \/ InlinedFile(e, JsonName(name), "JSON").fails

IsBasename(e, f) ==
  LET conf == InlinedConf(e, f.name, f.options.syntax).parts
      json == InlinedJson(e, f.name, f.options.syntax).parts
  IN  /\ f = [fn |-> "from_basename", name |-> f.name, options |-> f.options, stage |-> f.stage,
              obj |-> f.obj, got_something |-> f.got_something]
      /\ ~HasExtension(f.name) /\ f.options.syntax \in Syntaxes /\ f.stage \in {"conf", "json", "both"}
      /\ f.stage = "conf" => f.obj = NoObject /\ ~f.got_something
      /\ f.stage = "json" => AreParts(conf) /\ f.obj = Meaning(conf) /\ ~f.got_something
      /\ f.stage = "both" => /\ AreParts(conf) /\ AreParts(json) /\ f.obj = Meaning(json \o conf)
                             /\ ~f.got_something => NotGot(e, f.name, f.options)
                             /\ f.got_something => ~NotGot(e, f.name, f.options)

\* The text of what a function parses, and of what it waits for.
OwnText(e, f) ==
  IF f.fn = "parse" THEN Inlined(e, f.dir, f.body)
  ELSE Joined(<<InlinedJson(e, f.name, f.options.syntax), InlinedConf(e, f.name, f.options.syntax)>>)
AwaitedBy(e, f) ==
  IF f.fn = "parse" THEN InlinedName(e, f.dir, f.body[f.next].name, "UNSPECIFIED")
  ELSE IF f.stage = "conf" THEN InlinedFile(e, ConfName(f.name), "CONF")
  ELSE InlinedFile(e, JsonName(f.name), "JSON")
Calling(f) ==
  IF f.fn = "parse" THEN f.next \in 1 .. Len(f.body) /\ f.body[f.next].t # "field"
  ELSE \/ f.stage = "conf" /\ f.options.syntax \in {"UNSPECIFIED", "CONF"}
       \/ f.stage = "json" /\ f.options.syntax \in {"UNSPECIFIED", "JSON"}

\* Only the application may forbid that a file is missing.
Strict(q) == q.op = "parse_file_any_syntax" /\ ~q.options.allow_missing
Allowed(q, i, name, options) ==
  IF i = 1 THEN q.op = "parse_file_any_syntax" /\ q.name = name /\ q.options = options
  ELSE options.allow_missing
Excuse(e, q) == Strict(q) /\ ~HasExtension(q.name) /\ NotGot(e, q.name, q.options)

IsFrame(e, q, i, f) ==
  \/ f.fn = "parse" /\ IsParse(e, f) /\ (i = 1 => ~Strict(q))
  \/ f.fn = "from_basename" /\ IsBasename(e, f) /\ Allowed(q, i, f.name, f.options)

\* Each function is for the text that the one below waits for.
Chain(e, x, q, s) ==
  /\ IsSequence(s)
  /\ \A i \in 1 .. Len(s) : IsFrame(e, q, i, s[i])
  /\ \A i \in 2 .. Len(s) : Calling(s[i - 1]) /\ OwnText(e, s[i]) = AwaitedBy(e, s[i - 1])
  /\ s # <<>> => OwnText(e, s[1]) = x

Wanted(e, x, s) == IF s = <<>> THEN x ELSE AwaitedBy(e, s[Len(s)])
Awaits(s)       == s # <<>> => Calling(s[Len(s)])
Breaks(e, x, q, s) ==
  IF s = <<>> THEN x.fails \/ Excuse(e, q)
  ELSE LET f == s[Len(s)]
       IN  IF f.fn = "parse" THEN InlinedStatement(e, f.dir, f.body[f.next]).fails ELSE AwaitedBy(e, f).fails

\* What is called is what is wanted, what is returned what it comes to, and
\* what is thrown has a cause.
Goes(e, x, q, s, c) ==
  \/ c.op = "continue" /\ s # <<>>
  \/ /\ c.op = "from_basename" /\ Awaits(s)
     /\ InlinedName(e, c.dir, c.name, c.options.syntax) = Wanted(e, x, s)
     /\ c.options.syntax \in Syntaxes /\ Allowed(q, Len(s) + 1, c.name, c.options) /\ IsAtHome(c.dir, c.name)
  \/ /\ c.op = "parse" /\ Awaits(s) /\ (s = <<>> => ~Strict(q))
     /\ InlinedFile(e, c.file, c.syntax) = Wanted(e, x, s) /\ c.syntax \in {"CONF", "JSON"}
  \/ /\ c.op = "return" /\ Awaits(s) /\ (s = <<>> => ~Excuse(e, q))
     /\ ~Wanted(e, x, s).fails /\ AreParts(Wanted(e, x, s).parts) /\ c.v = Meaning(Wanted(e, x, s).parts)
  \/ /\ c.op = "throw" /\ Awaits(s)
     /\ Breaks(e, x, q, s)

Agrees(e, x, q, s, c) == Chain(e, x, q, s) /\ Goes(e, x, q, s, c)

\* What is going on, by its name.
LEMMA Outcome ==
  ASSUME NEW e, NEW x, NEW q, NEW s, NEW c, Goes(e, x, q, s, c)
  PROVE  /\ c.op = "continue" => s # <<>>
         /\ c.op = "from_basename" =>
              /\ Awaits(s) /\ InlinedName(e, c.dir, c.name, c.options.syntax) = Wanted(e, x, s)
              /\ c.options.syntax \in Syntaxes /\ Allowed(q, Len(s) + 1, c.name, c.options) /\ IsAtHome(c.dir, c.name)
         /\ c.op = "parse" => /\ Awaits(s) /\ (s = <<>> => ~Strict(q))
                              /\ InlinedFile(e, c.file, c.syntax) = Wanted(e, x, s) /\ c.syntax \in {"CONF", "JSON"}
         /\ c.op = "return" => /\ Awaits(s) /\ (s = <<>> => ~Excuse(e, q)) /\ ~Wanted(e, x, s).fails /\ AreParts(Wanted(e, x, s).parts)
                               /\ c.v = Meaning(Wanted(e, x, s).parts)
         /\ c.op = "throw" => Awaits(s) /\ Breaks(e, x, q, s)
BY DEF Goes

\* A function is called.
LEMMA ChainPushed ==
  ASSUME NEW e, NEW x, NEW q, NEW s, Chain(e, x, q, s), Awaits(s),
         NEW f, IsFrame(e, q, Len(s) + 1, f), OwnText(e, f) = Wanted(e, x, s)
  PROVE  /\ Chain(e, x, q, Append(s, f)) /\ Append(s, f) # <<>>
<1> DEFINE u == Append(s, f)
           n == Len(s)
<1>1. /\ IsSequence(u) /\ Len(u) = n + 1 /\ u[n + 1] = f /\ n \in Nat
      /\ \A i \in 1 .. n : u[i] = s[i]
  BY Pushing DEF Chain, IsSequence
<1>2. u # <<>>
  BY PushedIsLast DEF Chain
<1>3. s = <<>> <=> n = 0
  BY NoElements, EmptyIsSequence DEF Chain
<1>4. \A i \in 1 .. n : IsFrame(e, q, i, s[i])
  BY DEF Chain
<1>5. \A i \in 2 .. n : Calling(s[i - 1]) /\ OwnText(e, s[i]) = AwaitedBy(e, s[i - 1])
  BY DEF Chain
<1>6. n # 0 => Calling(s[n]) /\ OwnText(e, f) = AwaitedBy(e, s[n]) /\ OwnText(e, s[1]) = x
  BY <1>3 DEF Awaits, Wanted, Chain
<1>7. n = 0 => OwnText(e, f) = x
  BY <1>3 DEF Wanted
<1> HIDE DEF u, n
<1>8. \A i \in 1 .. n + 1 : IsFrame(e, q, i, u[i])
  <2>1. \A i \in 1 .. n + 1 : i \in 1 .. n \/ i = n + 1
    BY <1>1
  <2> QED
    BY <1>1, <1>4, <2>1 DEF n
<1>9. \A i \in 2 .. n + 1 : Calling(u[i - 1]) /\ OwnText(e, u[i]) = AwaitedBy(e, u[i - 1])
  <2> SUFFICES ASSUME NEW i \in 2 .. n + 1
               PROVE  Calling(u[i - 1]) /\ OwnText(e, u[i]) = AwaitedBy(e, u[i - 1])
    OBVIOUS
  <2>1. i - 1 \in 1 .. n /\ u[i - 1] = s[i - 1]
    BY <1>1
  <2>2. CASE i = n + 1
    BY <1>1, <1>6, <2>1, <2>2
  <2>3. CASE i # n + 1
    <3>1. i \in 2 .. n /\ i \in 1 .. n
      BY <1>1, <2>3
    <3> QED
      BY <1>1, <1>5, <2>1, <3>1
  <2> QED
    BY <2>2, <2>3
<1>10. OwnText(e, u[1]) = x
  <2>1. CASE n = 0
    BY <1>1, <1>7, <2>1
  <2>2. CASE n # 0
    <3>1. 1 \in 1 .. n
      BY <1>1, <2>2
    <3> QED
      BY <1>1, <1>6, <2>2, <3>1
  <2> QED
    BY <2>1, <2>2
<1> QED
  BY <1>1, <1>2, <1>8, <1>9, <1>10 DEF Chain, u

\* A function returns, to the one that waits for its text.
LEMMA ChainPopped ==
  ASSUME NEW e, NEW x, NEW q, NEW s, Chain(e, x, q, s), s # <<>>
  PROVE  /\ Chain(e, x, q, Popped(s)) /\ Awaits(Popped(s))
         /\ Wanted(e, x, Popped(s)) = OwnText(e, s[Len(s)])
         /\ Len(s) = 1 <=> Popped(s) = <<>>
         /\ Popped(s) # <<>> => Popped(s)[Len(Popped(s))] = s[Len(s) - 1] /\ Len(s) - 1 \in 1 .. Len(s)
<1> DEFINE u == Popped(s)
           n == Len(s)
<1>1. /\ n \in Nat \ {0} /\ IsSequence(u) /\ Len(u) = n - 1
      /\ \A i \in 1 .. n - 1 : u[i] = s[i]
  BY Popping DEF Chain
<1>2. /\ \A i \in 1 .. n : IsFrame(e, q, i, s[i])
      /\ \A i \in 2 .. n : Calling(s[i - 1]) /\ OwnText(e, s[i]) = AwaitedBy(e, s[i - 1])
      /\ OwnText(e, s[1]) = x
  BY DEF Chain
<1> HIDE DEF u, n
<1>3. u = <<>> <=> n = 1
  <2>1. u = <<>> <=> Len(u) = 0
    BY <1>1, NoElements, EmptyIsSequence
  <2> QED
    BY <1>1, <2>1
<1>4. Chain(e, x, q, u)
  <2>1. \A i \in 1 .. n - 1 : i \in 1 .. n /\ u[i] = s[i]
    BY <1>1
  <2>2. \A i \in 2 .. n - 1 : i \in 2 .. n /\ i \in 1 .. n - 1 /\ i - 1 \in 1 .. n - 1
    BY <1>1
  <2>3. u # <<>> => 1 \in 1 .. n - 1
    BY <1>1, <1>3
  <2>4. \A i \in 1 .. Len(u) : IsFrame(e, q, i, u[i])
    BY <1>1, <1>2, <2>1
  <2>5. \A i \in 2 .. Len(u) : Calling(u[i - 1]) /\ OwnText(e, u[i]) = AwaitedBy(e, u[i - 1])
    BY <1>1, <1>2, <2>1, <2>2
  <2> QED
    BY <1>1, <1>2, <2>1, <2>3, <2>4, <2>5 DEF Chain
<1>5. ASSUME u # <<>>
      PROVE  /\ u[Len(u)] = s[n - 1] /\ n - 1 \in 1 .. n /\ Calling(s[n - 1])
             /\ OwnText(e, s[n]) = AwaitedBy(e, s[n - 1])
  <2>1. n \in 2 .. n /\ n - 1 \in 1 .. n - 1 /\ n - 1 \in 1 .. n
    BY <1>1, <1>3, <1>5
  <2> QED
    BY <1>1, <1>2, <2>1
<1>6. u = <<>> => OwnText(e, s[n]) = x
  BY <1>2, <1>3
<1> QED
  BY <1>3, <1>4, <1>5, <1>6 DEF Awaits, Wanted, u, n

\* The function at the top goes on, for the same text.
LEMMA ChainRetopped ==
  ASSUME NEW e, NEW x, NEW q, NEW s, Chain(e, x, q, s), s # <<>>,
         NEW g, IsFrame(e, q, Len(s), g), OwnText(e, g) = OwnText(e, s[Len(s)])
  PROVE  /\ Chain(e, x, q, Retopped(s, g)) /\ Retopped(s, g) # <<>>
         /\ Len(Retopped(s, g)) = Len(s) /\ Retopped(s, g)[Len(s)] = g
<1> DEFINE u == Retopped(s, g)
           n == Len(s)
<1>1. n \in Nat \ {0}
  BY Popping DEF Chain
<1>2. IsSequence(u) /\ Len(u) = n /\ u[n] = g /\ \A i \in 1 .. n - 1 : u[i] = s[i]
  BY ChangingTop DEF Chain
<1>3. /\ \A i \in 1 .. n : IsFrame(e, q, i, s[i])
      /\ \A i \in 2 .. n : Calling(s[i - 1]) /\ OwnText(e, s[i]) = AwaitedBy(e, s[i - 1])
      /\ OwnText(e, s[1]) = x
  BY DEF Chain
<1>4. IsFrame(e, q, n, g) /\ OwnText(e, g) = OwnText(e, s[n])
  OBVIOUS
<1> HIDE DEF u, n
<1>5. u # <<>>
  BY <1>1, <1>2, EmptyIsSequence
<1>6. \A i \in 1 .. n : i = n \/ i \in 1 .. n - 1
  BY <1>1
<1>7. \A i \in 1 .. n : IsFrame(e, q, i, u[i])
  BY <1>2, <1>3, <1>4, <1>6
<1>8. \A i \in 1 .. n : OwnText(e, u[i]) = OwnText(e, s[i])
  BY <1>2, <1>4, <1>6
<1>9. \A i \in 2 .. n : i - 1 \in 1 .. n - 1 /\ i \in 1 .. n
  BY <1>1
<1>10. \A i \in 2 .. n : Calling(u[i - 1]) /\ OwnText(e, u[i]) = AwaitedBy(e, u[i - 1])
  BY <1>2, <1>3, <1>8, <1>9
<1>11. OwnText(e, u[1]) = x
  BY <1>1, <1>3, <1>8
<1> QED
  BY <1>2, <1>5, <1>7, <1>10, <1>11 DEF Chain, u, n

-----------------------------------------------------------------------------
(***************************************************************************)
(* What each step does.                                                    *)
(***************************************************************************)
LEMMA TopIs ==
  ASSUME NEW e, NEW x, Agrees(e, x, request, stack, ctl), stack # <<>>
  PROVE  /\ Chain(e, x, request, stack) /\ Goes(e, x, request, stack, ctl)
         /\ IsFrame(e, request, Len(stack), Top) /\ Top = stack[Len(stack)]
         /\ In("parse") => Top.fn = "parse" /\ IsParse(e, Top) /\ (Len(stack) = 1 => ~Strict(request))
         /\ In("from_basename") => /\ Top.fn = "from_basename" /\ IsBasename(e, Top)
                                   /\ Allowed(request, Len(stack), Top.name, Top.options)
<1>1. Chain(e, x, request, stack) /\ Goes(e, x, request, stack, ctl)
  BY DEF Agrees
<1>2. Len(stack) \in Nat \ {0}
  BY <1>1, Popping DEF Chain
<1>3. IsFrame(e, request, Len(stack), stack[Len(stack)])
  BY <1>1, <1>2 DEF Chain
<1>4. Top = stack[Len(stack)]
  BY DEF Top
<1> QED
  BY <1>1, <1>3, <1>4 DEF In, IsFrame

\* The top goes on.
LEMMA TopGoesOn ==
  ASSUME NEW e, NEW x, Agrees(e, x, request, stack, ctl), stack # <<>>,
         NEW g, stack' = Retopped(stack, g), ctl'.op = "continue",
         IsFrame(e, request, Len(stack), g), OwnText(e, g) = OwnText(e, Top)
  PROVE  Agrees(e, x, request, stack', ctl')
<1>1. Chain(e, x, request, stack) /\ Top = stack[Len(stack)]
  BY TopIs
<1>2. Chain(e, x, request, Retopped(stack, g)) /\ Retopped(stack, g) # <<>>
  BY <1>1, ChainRetopped
<1> QED
  BY <1>2 DEF Agrees, Goes

\* A statement is done.
Done(f, v) == [f EXCEPT !.values = WithFallback(v, f.values), !.next = f.next + 1]

LEMMA StatementDone ==
  ASSUME NEW e, NEW f, f.fn = "parse", IsParse(e, f), f.next \in 1 .. Len(f.body),
         NEW text, text = InlinedStatement(e, f.dir, f.body[f.next]), ~text.fails, AreParts(text.parts),
         NEW v, v = Meaning(text.parts),
         NEW g, g = Done(f, v)
  PROVE  g.fn = "parse" /\ IsParse(e, g) /\ OwnText(e, g) = OwnText(e, f)
<1> DEFINE w == WithFallback(v, f.values)
<1>1. f = [fn |-> "parse", dir |-> f.dir, body |-> f.body, next |-> f.next, values |-> f.values]
  BY DEF IsParse
<1>2. g = [fn |-> "parse", dir |-> f.dir, body |-> f.body, next |-> f.next + 1, values |-> w]
  BY <1>1 DEF Done
<1>3. w = WithFallback(Meaning(text.parts), Meaning(PartsUpTo(e, f.dir, f.body, f.next - 1)))
  BY DEF IsParse
<1> HIDE DEF w
<1>4. g.fn = "parse" /\ g.dir = f.dir /\ g.body = f.body /\ g.next = f.next + 1 /\ g.values = w
  BY <1>2
<1>5. IsContent(g) /\ AreAtHome(g.dir, g.body) /\ Len(f.body) \in Nat
  BY <1>4 DEF IsParse, IsContent, IsSequence
<1>6. f.next \in Nat /\ f.next - 1 \in Nat /\ (f.next - 1) + 1 = f.next /\ f.next + 1 \in 1 .. Len(f.body) + 1
  BY <1>5
<1> DEFINE m == f.next - 1
<1>7. AreParts(PartsUpTo(e, f.dir, f.body, m))
  BY DEF IsParse
<1>8. text = InlinedStatement(e, f.dir, f.body[m + 1])
  BY <1>6
<1>9. w = WithFallback(Meaning(text.parts), Meaning(PartsUpTo(e, f.dir, f.body, m)))
  BY <1>3
<1>10. m \in Nat
  BY <1>6
<1> HIDE DEF m
<1>11. AreParts(PartsUpTo(e, f.dir, f.body, m + 1)) /\ w = Meaning(PartsUpTo(e, f.dir, f.body, m + 1))
  BY <1>7, <1>8, <1>9, <1>10, StatementMore
<1>12. m + 1 = f.next /\ (f.next + 1) - 1 = f.next
  BY <1>6 DEF m
<1>13. \A i \in 1 .. f.next : i = f.next \/ i \in 1 .. f.next - 1
  BY <1>6
<1>14. \A i \in 1 .. f.next : ~InlinedStatement(e, f.dir, f.body[i]).fails
  BY <1>13 DEF IsParse
<1>15. IsParse(e, g)
  <2>1. g = [fn |-> "parse", dir |-> g.dir, body |-> g.body, next |-> g.next, values |-> g.values]
    BY <1>2, <1>4
  <2>2. g.next \in 1 .. Len(g.body) + 1 /\ g.next - 1 = f.next
    BY <1>4, <1>6, <1>12
  <2>3. \A i \in 1 .. g.next - 1 : ~InlinedStatement(e, g.dir, g.body[i]).fails
    BY <1>4, <1>14, <2>2
  <2>4. /\ AreParts(PartsUpTo(e, g.dir, g.body, g.next - 1))
        /\ g.values = Meaning(PartsUpTo(e, g.dir, g.body, g.next - 1))
    BY <1>4, <1>11, <1>12, <2>2
  <2> QED
    BY <1>5, <2>1, <2>2, <2>3, <2>4 DEF IsParse
<1> QED
  BY <1>4, <1>15 DEF OwnText

LEMMA FieldAgrees ==
  ASSUME NEW e, NEW x, Agrees(e, x, request, stack, ctl), Field
  PROVE  Agrees(e, x, request, stack', ctl')
<1> DEFINE f == Top
           o == [k \in {Statement.key} |-> Statement.v]
           g == Done(f, o)
           text == InlinedStatement(e, f.dir, f.body[f.next])
<1>1. /\ In("parse") /\ stack # <<>> /\ ctl = Continue /\ ctl' = ctl
      /\ f.next \in DOMAIN f.body /\ Statement = f.body[f.next] /\ Statement.t = "field"
  BY DEF Field, Reached, In, Statement
<1>2. stack' = Retopped(stack, [f EXCEPT !.values = ValuesMerged(f, o), !.next = NextStatement(f)])
  BY DEF Field, SetTop
<1>3. ctl'.op = "continue"
  BY <1>1 DEF Continue
<1>4. f.fn = "parse" /\ IsParse(e, f) /\ (Len(stack) = 1 => ~Strict(request))
  BY <1>1, TopIs
<1>5. f.next \in 1 .. Len(f.body) /\ IsValue(Statement.v)
  BY <1>1, <1>4 DEF IsParse, IsContent, IsSequence
<1>6. stack' = Retopped(stack, g)
  BY <1>2 DEF ValuesMerged, NextStatement, Done
<1> HIDE DEF f, o, g, text
<1>7. ~text.fails /\ AreParts(text.parts) /\ Meaning(text.parts) = o
  <2> DEFINE s == Statement
  <2>1. s.t = "field" /\ IsValue(s.v) /\ o = [k \in {s.key} |-> s.v]
    BY <1>1, <1>5 DEF o
  <2>2. text = InlinedStatement(e, f.dir, s)
    BY <1>1 DEF text
  <2> HIDE DEF s
  <2>3. Meaning(text.parts) = [k \in {s.key} |-> s.v] /\ ~text.fails /\ AreParts(text.parts)
    BY <2>1, <2>2, FieldText
  <2> QED
    BY <2>1, <2>3
<1>8. g = Done(f, o)
  BY DEF g
<1>9. text = InlinedStatement(e, f.dir, f.body[f.next])
  BY DEF text
<1>10. g.fn = "parse" /\ IsParse(e, g) /\ OwnText(e, g) = OwnText(e, f)
  BY <1>4, <1>5, <1>7, <1>8, <1>9, StatementDone
<1>11. IsFrame(e, request, Len(stack), g)
  BY <1>4, <1>10 DEF IsFrame
<1> QED
  BY <1>1, <1>3, <1>6, <1>10, <1>11, TopGoesOn DEF f

LEMMA IncludeAgrees ==
  ASSUME NEW e, NEW x, Agrees(e, x, request, stack, ctl), Include
  PROVE  Agrees(e, x, request, stack', ctl')
<1> DEFINE f == stack[Len(stack)]
<1>1. /\ In("parse") /\ stack # <<>> /\ Top = f /\ stack' = stack
      /\ f.next \in DOMAIN f.body /\ f.body[f.next].t = "include"
      /\ ctl' = FromBasename(f.body[f.next].name, f.dir, IncludeOptions)
  BY DEF Include, Reached, In, Statement, CurrentDirectory, Top
<1>2. f.fn = "parse" /\ IsParse(e, f)
  BY <1>1, TopIs
<1>3. f.next \in 1 .. Len(f.body)
  BY <1>1, <1>2 DEF IsParse, IsContent, IsSequence
<1> HIDE DEF f
<1>4. Calling(f) /\ AwaitedBy(e, f) = InlinedName(e, f.dir, f.body[f.next].name, "UNSPECIFIED")
  BY <1>1, <1>2, <1>3 DEF Calling, AwaitedBy
<1>5. Awaits(stack) /\ Wanted(e, x, stack) = AwaitedBy(e, f)
  BY <1>1, <1>4 DEF Awaits, Wanted, f
<1>6. /\ ctl'.op = "from_basename" /\ ctl'.name = f.body[f.next].name /\ ctl'.dir = f.dir
      /\ ctl'.options = IncludeOptions /\ IncludeOptions.syntax = "UNSPECIFIED" /\ IncludeOptions.allow_missing
  BY <1>1 DEF FromBasename, IncludeOptions
<1> DEFINE c == ctl'
<1> HIDE DEF c
<1>7. IsAtHome(f.dir, f.body[f.next].name)
  BY <1>1, <1>2 DEF IsParse, AreAtHome
<1>8. Len(stack) + 1 # 1
  <2>1. Len(stack) \in Nat \ {0}
    BY <1>1, TopIs, Popping DEF Chain
  <2> QED
    BY <2>1
<1>9. Goes(e, x, request, stack, c)
  BY <1>4, <1>5, <1>6, <1>7, <1>8 DEF Goes, Allowed, Syntaxes, c
<1>10. Chain(e, x, request, stack)
  BY <1>1, TopIs
<1> QED
  BY <1>1, <1>9, <1>10 DEF Agrees, c

LEMMA IncludedAgrees ==
  ASSUME ResolveGivesObjects, NEW e, NEW x, Agrees(e, x, request, stack, ctl), Included
  PROVE  Agrees(e, x, request, stack', ctl')
<1> DEFINE f == Top
           s == Statement
           r == Resolution(ctl.v)
           g == Done(f, r.v)
           named == InlinedName(e, f.dir, s.name, "UNSPECIFIED")
           text == InlinedStatement(e, f.dir, s)
<1>1. /\ In("parse") /\ stack # <<>> /\ ctl.op = "return" /\ s = f.body[f.next] /\ f = stack[Len(stack)]
      /\ r.fails => ctl' = Throws /\ stack' = stack
      /\ ~r.fails => /\ stack' = Retopped(stack, [f EXCEPT !.values = ValuesMerged(f, r.v), !.next = NextStatement(f)])
                     /\ ctl' = Continue
  BY DEF Included, In, Statement, SetTop, Top
<1>2. /\ f.fn = "parse" /\ IsParse(e, f) /\ (Len(stack) = 1 => ~Strict(request))
      /\ Chain(e, x, request, stack) /\ Goes(e, x, request, stack, ctl)
  BY <1>1, TopIs
<1>3. /\ Awaits(stack) /\ ~Wanted(e, x, stack).fails /\ AreParts(Wanted(e, x, stack).parts)
      /\ ctl.v = Meaning(Wanted(e, x, stack).parts)
  BY <1>1, <1>2, Outcome
<1>4. ~r.fails => stack' = Retopped(stack, g)
  BY <1>1 DEF ValuesMerged, NextStatement, Done
<1>5. r = IF s.how = "file" THEN Resolve(ctl.v) ELSE [fails |-> FALSE, v |-> ctl.v]
  BY DEF Resolution
<1>6. text = InlinedStatement(e, f.dir, f.body[f.next])
  BY <1>1
<1>7. Calling(f) /\ Wanted(e, x, stack) = AwaitedBy(e, f)
  BY <1>1, <1>3 DEF Awaits, Wanted
<1>8. g = Done(f, r.v)
  OBVIOUS
<1> HIDE DEF f, s, r, g
<1>9. f.next \in 1 .. Len(f.body) /\ s.t # "field" /\ AwaitedBy(e, f) = named
  BY <1>1, <1>2, <1>7 DEF Calling, AwaitedBy
<1> HIDE DEF named, text
<1>10. ~named.fails /\ AreParts(named.parts) /\ ctl.v = Meaning(named.parts)
  BY <1>3, <1>7, <1>9
<1>11. r = IF s.how = "file" THEN Resolve(Meaning(named.parts)) ELSE [fails |-> FALSE, v |-> Meaning(named.parts)]
  BY <1>5, <1>10
<1>12. /\ r.fails => text.fails
       /\ ~r.fails => ~text.fails /\ AreParts(text.parts) /\ Meaning(text.parts) = r.v
  BY <1>9, <1>10, <1>11, IncludeText DEF named, text
<1>13. CASE r.fails
  <2>1. stack' = stack /\ ctl' = Throws /\ ctl'.op = "throw"
    BY <1>1, <1>13 DEF Throws
  <2>2. Breaks(e, x, request, stack)
    BY <1>1, <1>2, <1>6, <1>12, <1>13 DEF Breaks
  <2> DEFINE c == ctl'
  <2> HIDE DEF c
  <2>3. Goes(e, x, request, stack, c)
    BY <1>3, <2>1, <2>2 DEF Goes, c
  <2> QED
    BY <1>2, <2>1, <2>3 DEF Agrees, c
<1>14. CASE ~r.fails
  <2>1. stack' = Retopped(stack, g) /\ ctl'.op = "continue"
    BY <1>1, <1>4, <1>14 DEF Continue
  <2>2. g.fn = "parse" /\ IsParse(e, g) /\ OwnText(e, g) = OwnText(e, f)
    BY <1>2, <1>6, <1>8, <1>9, <1>12, <1>14, StatementDone
  <2>3. IsFrame(e, request, Len(stack), g)
    BY <1>2, <2>2 DEF IsFrame
  <2> QED
    BY <1>1, <2>1, <2>2, <2>3, TopGoesOn DEF f
<1> QED
  BY <1>13, <1>14

-----------------------------------------------------------------------------
\* A function that looks for two files comes to its next stage.
Staged(f, st, o, got) ==
  [fn |-> "from_basename", name |-> f.name, options |-> f.options, stage |-> st, obj |-> o, got_something |-> got]

Both(f, st, v) == [f EXCEPT !.stage = st, !.got_something = TRUE, !.obj = WithFallback(@, v)]

LEMMA StagedIs ==
  ASSUME NEW e, NEW f, IsBasename(e, f), NEW st, NEW v
  PROVE  /\ [f EXCEPT !.stage = st] = Staged(f, st, f.obj, f.got_something)
         /\ [f EXCEPT !.stage = st, !.obj = v] = Staged(f, st, v, f.got_something)
<1>1. f = [fn |-> "from_basename", name |-> f.name, options |-> f.options, stage |-> f.stage,
           obj |-> f.obj, got_something |-> f.got_something]
  BY DEF IsBasename
<1>2. /\ DOMAIN f = {"fn", "name", "options", "stage", "obj", "got_something"} /\ f.fn = "from_basename"
      /\ f = [field \in DOMAIN f |-> f[field]]
  BY <1>1
<1> DEFINE a == [f EXCEPT !.stage = st]
<1>3. [f EXCEPT !.stage = st, !.obj = v] = [a EXCEPT !.obj = v]
  OBVIOUS
<1>4. a = Staged(f, st, f.obj, f.got_something)
  BY <1>2 DEF Staged
<1> HIDE DEF a
<1>5. [a EXCEPT !.obj = v] = Staged(f, st, v, f.got_something)
  BY <1>4 DEF Staged
<1> QED
  BY <1>3, <1>4, <1>5 DEF a

LEMMA BothAre ==
  ASSUME NEW e, NEW f, IsBasename(e, f), NEW st, NEW v, NEW got, got = TRUE
  PROVE  Both(f, st, v) = Staged(f, st, WithFallback(f.obj, v), got)
<1> DEFINE o == WithFallback(f.obj, v)
           a == [f EXCEPT !.stage = st]
           yes == TRUE
           b == [a EXCEPT !.got_something = yes]
<1>1. Both(f, st, v) = [b EXCEPT !.obj = o]
  BY DEF Both
<1>2. a = Staged(f, st, f.obj, f.got_something)
  BY StagedIs
<1>3. got = yes
  OBVIOUS
<1> HIDE DEF o, yes, a
<1>4. b = Staged(f, st, f.obj, yes)
  BY <1>2 DEF Staged
<1> HIDE DEF b
<1>5. [b EXCEPT !.obj = o] = Staged(f, st, o, yes)
  BY <1>4 DEF Staged
<1> QED
  BY <1>1, <1>3, <1>5 DEF o

ConfParts(e, f) == InlinedConf(e, f.name, f.options.syntax).parts
JsonParts(e, f) == InlinedJson(e, f.name, f.options.syntax).parts
CanBeAt(e, f, st, o, got) ==
  /\ st \in {"json", "both"}
  /\ st = "json" => AreParts(ConfParts(e, f)) /\ o = Meaning(ConfParts(e, f)) /\ ~got
  /\ st = "both" => /\ AreParts(ConfParts(e, f)) /\ AreParts(JsonParts(e, f))
                    /\ o = Meaning(JsonParts(e, f) \o ConfParts(e, f))
                    /\ ~got => NotGot(e, f.name, f.options)
                    /\ got => ~NotGot(e, f.name, f.options)

LEMMA BasenameIs ==
  ASSUME NEW e, NEW f, IsBasename(e, f)
  PROVE  /\ ~HasExtension(f.name) /\ f.options.syntax \in Syntaxes /\ f.stage \in {"conf", "json", "both"}
         /\ f.stage = "conf" => f.obj = NoObject /\ ~f.got_something
         /\ f.stage # "conf" => CanBeAt(e, f, f.stage, f.obj, f.got_something)
BY DEF IsBasename, CanBeAt, ConfParts, JsonParts

LEMMA NextStage ==
  ASSUME NEW e, NEW x, Agrees(e, x, request, stack, ctl), In("from_basename"),
         NEW st, NEW o, NEW got, CanBeAt(e, Top, st, o, got),
         stack' = Retopped(stack, Staged(Top, st, o, got)), ctl'.op = "continue"
  PROVE  Agrees(e, x, request, stack', ctl')
<1> DEFINE f == Top
           g == Staged(f, st, o, got)
<1>1. /\ stack # <<>> /\ f.fn = "from_basename" /\ IsBasename(e, f)
      /\ Allowed(request, Len(stack), f.name, f.options)
  BY TopIs DEF In
<1>2. CanBeAt(e, f, st, o, got) /\ stack' = Retopped(stack, g)
  OBVIOUS
<1>3. g = [fn |-> "from_basename", name |-> f.name, options |-> f.options, stage |-> st, obj |-> o, got_something |-> got]
  BY DEF Staged
<1> HIDE DEF f, g
<1>4. /\ g.fn = "from_basename" /\ g.name = f.name /\ g.options = f.options
      /\ g.stage = st /\ g.obj = o /\ g.got_something = got
  BY <1>3
<1>5. ~HasExtension(f.name) /\ f.options.syntax \in Syntaxes
  BY <1>1, BasenameIs
<1>6. CanBeAt(e, g, st, o, got)
  BY <1>2, <1>4 DEF CanBeAt, ConfParts, JsonParts
<1>7. g = [fn |-> "from_basename", name |-> g.name, options |-> g.options, stage |-> g.stage,
           obj |-> g.obj, got_something |-> g.got_something]
  BY <1>3, <1>4
<1>8. IsBasename(e, g)
  <2>1. ~HasExtension(g.name) /\ g.options.syntax \in Syntaxes
    BY <1>4, <1>5
  <2>2. g.stage \in {"json", "both"} /\ CanBeAt(e, g, g.stage, g.obj, g.got_something)
    BY <1>4, <1>6 DEF CanBeAt
  <2> QED
    BY <1>7, <2>1, <2>2 DEF IsBasename, CanBeAt, ConfParts, JsonParts
<1>9. IsFrame(e, request, Len(stack), g) /\ OwnText(e, g) = OwnText(e, f)
  BY <1>1, <1>4, <1>8 DEF IsFrame, OwnText
<1> QED
  BY <1>1, <1>2, <1>9, TopGoesOn DEF f

\* What each stage has found, or found missing.
LEMMA ConfFound ==
  ASSUME NEW e, NEW f, NEW text, text = InlinedFile(e, ConfName(f.name), "CONF"), f.options.syntax \in {"UNSPECIFIED", "CONF"}
  PROVE  /\ ~text.fails => ConfParts(e, f) = text.parts
         /\ text.fails => ConfParts(e, f) = <<>>
BY DEF ConfParts, InlinedConf, OrEmpty, Success, ConfName

LEMMA JsonFound ==
  ASSUME NEW e, NEW f, NEW text, text = InlinedFile(e, JsonName(f.name), "JSON"), f.options.syntax \in {"UNSPECIFIED", "JSON"}
  PROVE  /\ ~text.fails => JsonParts(e, f) = text.parts
         /\ text.fails => JsonParts(e, f) = <<>>
BY DEF JsonParts, InlinedJson, OrEmpty, Success, JsonName

LEMMA NotAsked ==
  ASSUME NEW e, NEW f
  PROVE  /\ f.options.syntax = "JSON" => ConfParts(e, f) = <<>>
         /\ f.options.syntax = "CONF" => JsonParts(e, f) = <<>>
BY DEF ConfParts, JsonParts, InlinedConf, InlinedJson, Success

\* Without parts in the .json, what counts is the .conf.
LEMMA NoJsonParts ==
  ASSUME NEW e, NEW f, JsonParts(e, f) = <<>>, AreParts(ConfParts(e, f))
  PROVE  AreParts(JsonParts(e, f)) /\ JsonParts(e, f) \o ConfParts(e, f) = ConfParts(e, f)
BY NoPartsMean, JoiningNothing DEF AreParts

\* A file of its own is asked for.
LEMMA AsksForFile ==
  ASSUME NEW e, NEW x, Agrees(e, x, request, stack, ctl), In("from_basename"), Calling(Top), stack' = stack,
         NEW file, NEW syntax \in {"CONF", "JSON"}, ctl' = ParseFile(file, syntax), AwaitedBy(e, Top) = InlinedFile(e, file, syntax)
  PROVE  Agrees(e, x, request, stack', ctl')
<1> DEFINE c == ctl'
<1>1. c.op = "parse" /\ c.file = file /\ c.syntax = syntax
  BY DEF ParseFile
<1>2. Chain(e, x, request, stack) /\ Top = stack[Len(stack)] /\ stack # <<>>
  BY TopIs DEF In
<1>3. Awaits(stack) /\ Wanted(e, x, stack) = InlinedFile(e, file, syntax)
  BY <1>2 DEF Awaits, Wanted
<1> HIDE DEF c
<1>4. Goes(e, x, request, stack, c)
  BY <1>1, <1>2, <1>3 DEF Goes
<1> QED
  BY <1>2, <1>4 DEF Agrees, c

LEMMA TryConfAgrees ==
  ASSUME NEW e, NEW x, Agrees(e, x, request, stack, ctl), TryConf
  PROVE  Agrees(e, x, request, stack', ctl')
<1> DEFINE f == Top
<1>1. In("from_basename") /\ stack # <<>> /\ f.stage = "conf" /\ ctl = Continue
  BY DEF TryConf, AtStage, In
<1>2. f.fn = "from_basename" /\ IsBasename(e, f)
  BY <1>1, TopIs
<1>3. f.obj = NoObject /\ ~f.got_something /\ f.options.syntax \in Syntaxes
  BY <1>1, <1>2, BasenameIs
<1>4. CASE f.options.syntax \in {"UNSPECIFIED", "CONF"}
  <2>1. ctl' = ParseFile(ConfName(f.name), "CONF") /\ stack' = stack
    BY <1>4 DEF TryConf, ConfName
  <2>2. Calling(f) /\ AwaitedBy(e, f) = InlinedFile(e, ConfName(f.name), "CONF")
    BY <1>1, <1>2, <1>4 DEF Calling, AwaitedBy
  <2> HIDE DEF f
  <2> QED
    BY <1>1, <2>1, <2>2, AsksForFile DEF f
<1>5. CASE f.options.syntax = "JSON"
  <2>1. stack' = Retopped(stack, [f EXCEPT !.stage = "json"]) /\ ctl' = ctl
    BY <1>5 DEF TryConf, SetTop
  <2>2. stack' = Retopped(stack, Staged(f, "json", f.obj, f.got_something))
    BY <1>2, <2>1, StagedIs
  <2>3. ctl'.op = "continue"
    BY <1>1, <2>1 DEF Continue
  <2>4. ConfParts(e, f) = <<>>
    BY <1>5, NotAsked
  <2> HIDE DEF f
  <2>5. CanBeAt(e, f, "json", f.obj, f.got_something)
    BY <1>3, <2>4, NoPartsMean DEF CanBeAt
  <2> QED
    BY <1>1, <2>2, <2>3, <2>5, NextStage DEF f
<1> QED
  BY <1>3, <1>4, <1>5 DEF Syntaxes

\* What a function is given that has called: the text it waits for.
LEMMA GivenIs ==
  ASSUME NEW e, NEW x, Agrees(e, x, request, stack, ctl), In("from_basename")
  PROVE  /\ ctl.op = "return" => /\ Calling(Top) /\ ~AwaitedBy(e, Top).fails /\ AreParts(AwaitedBy(e, Top).parts)
                                 /\ ctl.v = Meaning(AwaitedBy(e, Top).parts)
         /\ ctl.op = "throw" => Calling(Top) /\ AwaitedBy(e, Top).fails
<1> DEFINE f == stack[Len(stack)]
<1>1. Goes(e, x, request, stack, ctl) /\ Top = f /\ stack # <<>> /\ f.fn = "from_basename"
  BY TopIs DEF In
<1> HIDE DEF f
<1>2. Wanted(e, x, stack) = AwaitedBy(e, f) /\ (Awaits(stack) <=> Calling(f))
  BY <1>1 DEF Wanted, Awaits, f
<1>3. Breaks(e, x, request, stack) <=> AwaitedBy(e, f).fails
  BY <1>1 DEF Breaks, f
<1> QED
  BY <1>1, <1>2, <1>3, Outcome

LEMMA ConfParsedAgrees ==
  ASSUME NEW e, NEW x, Agrees(e, x, request, stack, ctl), ConfParsed
  PROVE  Agrees(e, x, request, stack', ctl')
<1> DEFINE f == Top
           text == AwaitedBy(e, f)
<1>1. In("from_basename") /\ f.stage = "conf" /\ ctl.op = "return" /\ ctl' = Continue
  BY DEF ConfParsed, AtStage
<1>2. stack' = Retopped(stack, [f EXCEPT !.stage = "json", !.obj = ctl.v])
  BY DEF ConfParsed, SetTop
<1>3. stack # <<>> /\ f.fn = "from_basename" /\ IsBasename(e, f)
  BY <1>1, TopIs DEF In
<1>4. /\ Calling(f) /\ ~text.fails /\ AreParts(text.parts) /\ ctl.v = Meaning(text.parts)
      /\ ~f.got_something
  BY <1>1, <1>3, GivenIs, BasenameIs
<1>5. stack' = Retopped(stack, Staged(f, "json", ctl.v, f.got_something))
  BY <1>2, <1>3, StagedIs
<1>6. ctl'.op = "continue"
  BY <1>1 DEF Continue
<1> HIDE DEF f
<1>7. text = InlinedFile(e, ConfName(f.name), "CONF") /\ f.options.syntax \in {"UNSPECIFIED", "CONF"}
  BY <1>1, <1>3, <1>4 DEF AwaitedBy, Calling
<1> HIDE DEF text
<1>8. ConfParts(e, f) = text.parts
  BY <1>4, <1>7, ConfFound
<1>9. CanBeAt(e, f, "json", ctl.v, f.got_something)
  BY <1>4, <1>8 DEF CanBeAt
<1> QED
  BY <1>1, <1>5, <1>6, <1>9, NextStage DEF f

LEMMA TryJsonAgrees ==
  ASSUME NEW e, NEW x, Agrees(e, x, request, stack, ctl), TryJson
  PROVE  Agrees(e, x, request, stack', ctl')
<1> DEFINE f == Top
<1>1. In("from_basename") /\ stack # <<>> /\ f.stage = "json" /\ ctl = Continue
  BY DEF TryJson, AtStage, In
<1>2. f.fn = "from_basename" /\ IsBasename(e, f)
  BY <1>1, TopIs
<1>3. CanBeAt(e, f, "json", f.obj, f.got_something) /\ f.options.syntax \in Syntaxes
  BY <1>1, <1>2, BasenameIs
<1>4. CASE f.options.syntax \in {"UNSPECIFIED", "JSON"}
  <2>1. ctl' = ParseFile(JsonName(f.name), "JSON") /\ stack' = stack
    BY <1>4 DEF TryJson, JsonName
  <2>2. Calling(f) /\ AwaitedBy(e, f) = InlinedFile(e, JsonName(f.name), "JSON")
    BY <1>1, <1>2, <1>4 DEF Calling, AwaitedBy
  <2> HIDE DEF f
  <2> QED
    BY <1>1, <2>1, <2>2, AsksForFile DEF f
<1>5. CASE f.options.syntax = "CONF"
  <2>1. stack' = Retopped(stack, [f EXCEPT !.stage = "both"]) /\ ctl' = ctl
    BY <1>5 DEF TryJson, SetTop
  <2>2. stack' = Retopped(stack, Staged(f, "both", f.obj, f.got_something))
    BY <1>2, <2>1, StagedIs
  <2>3. ctl'.op = "continue"
    BY <1>1, <2>1 DEF Continue
  <2>4. JsonParts(e, f) = <<>> /\ NotGot(e, f.name, f.options)
    BY <1>5, NotAsked DEF NotGot
  <2> HIDE DEF f
  <2>5. AreParts(ConfParts(e, f)) /\ f.obj = Meaning(ConfParts(e, f)) /\ ~f.got_something
    BY <1>3 DEF CanBeAt
  <2>6. CanBeAt(e, f, "both", f.obj, f.got_something)
    BY <2>4, <2>5, NoJsonParts DEF CanBeAt
  <2> QED
    BY <1>1, <2>2, <2>3, <2>6, NextStage DEF f
<1> QED
  BY <1>3, <1>4, <1>5 DEF Syntaxes

LEMMA JsonParsedAgrees ==
  ASSUME NEW e, NEW x, Agrees(e, x, request, stack, ctl), JsonParsed
  PROVE  Agrees(e, x, request, stack', ctl')
<1> DEFINE f == Top
           text == AwaitedBy(e, f)
           o == WithFallback(f.obj, ctl.v)
<1>1. In("from_basename") /\ f.stage = "json" /\ ctl.op = "return" /\ ctl' = Continue
  BY DEF JsonParsed, AtStage
<1>2. stack' = Retopped(stack, [f EXCEPT !.stage = "both", !.got_something = TRUE, !.obj = WithFallback(@, ctl.v)])
  BY DEF JsonParsed, SetTop
<1>3. stack # <<>> /\ f.fn = "from_basename" /\ IsBasename(e, f)
  BY <1>1, TopIs DEF In
<1>4. Calling(f) /\ ~text.fails /\ AreParts(text.parts) /\ ctl.v = Meaning(text.parts)
  BY <1>1, GivenIs
<1> DEFINE yes == TRUE
<1> HIDE DEF yes
<1>5. stack' = Retopped(stack, Staged(f, "both", o, yes))
  <2>1. stack' = Retopped(stack, Both(f, "both", ctl.v))
    BY <1>2 DEF Both
  <2>2. yes = TRUE
    BY DEF yes
  <2>3. Both(f, "both", ctl.v) = Staged(f, "both", o, yes)
    BY <1>3, <2>2, BothAre
  <2> QED
    BY <2>1, <2>3
<1>6. ctl'.op = "continue"
  BY <1>1 DEF Continue
<1>7. AreParts(ConfParts(e, f)) /\ f.obj = Meaning(ConfParts(e, f))
  BY <1>1, <1>3, BasenameIs DEF CanBeAt
<1> HIDE DEF f
<1>8. text = InlinedFile(e, JsonName(f.name), "JSON") /\ f.options.syntax \in {"UNSPECIFIED", "JSON"}
  BY <1>1, <1>3, <1>4 DEF AwaitedBy, Calling
<1> HIDE DEF text
<1>9. JsonParts(e, f) = text.parts
  BY <1>4, <1>8, JsonFound
<1>10. o = Meaning(JsonParts(e, f) \o ConfParts(e, f)) /\ AreParts(JsonParts(e, f))
  BY <1>4, <1>7, <1>9, Merging
<1> HIDE DEF o
<1>11. ~NotGot(e, f.name, f.options)
  BY <1>4, <1>8 DEF NotGot
<1>12. CanBeAt(e, f, "both", o, yes)
  BY <1>7, <1>10, <1>11 DEF CanBeAt, yes
<1> QED
  BY <1>1, <1>5, <1>6, <1>12, NextStage DEF f

LEMMA CaughtAgrees ==
  ASSUME NEW e, NEW x, Agrees(e, x, request, stack, ctl), Caught
  PROVE  Agrees(e, x, request, stack', ctl')
<1> DEFINE f == Top
           text == AwaitedBy(e, f)
<1>1. In("from_basename") /\ ctl.op = "throw" /\ ctl' = Continue
  BY DEF Caught
<1>2. stack' = Retopped(stack, [f EXCEPT !.stage = IF f.stage = "conf" THEN "json" ELSE "both"])
  BY DEF Caught, SetTop
<1>3. stack # <<>> /\ f.fn = "from_basename" /\ IsBasename(e, f)
  BY <1>1, TopIs DEF In
<1>4. Calling(f) /\ text.fails
  BY <1>1, GivenIs
<1>5. ctl'.op = "continue"
  BY <1>1 DEF Continue
<1>6. CASE f.stage = "conf"
  <2>1. stack' = Retopped(stack, Staged(f, "json", f.obj, f.got_something))
    BY <1>2, <1>3, <1>6, StagedIs
  <2>2. f.obj = NoObject /\ ~f.got_something
    BY <1>3, <1>6, BasenameIs
  <2> HIDE DEF f
  <2>3. text = InlinedFile(e, ConfName(f.name), "CONF") /\ f.options.syntax \in {"UNSPECIFIED", "CONF"}
    BY <1>3, <1>4, <1>6 DEF AwaitedBy, Calling
  <2> HIDE DEF text
  <2>4. ConfParts(e, f) = <<>>
    BY <1>4, <2>3, ConfFound
  <2>5. CanBeAt(e, f, "json", f.obj, f.got_something)
    BY <2>2, <2>4, NoPartsMean DEF CanBeAt
  <2> QED
    BY <1>1, <1>5, <2>1, <2>5, NextStage DEF f
<1>7. CASE f.stage # "conf"
  <2>1. stack' = Retopped(stack, Staged(f, "both", f.obj, f.got_something))
    BY <1>2, <1>3, <1>7, StagedIs
  <2>2. CanBeAt(e, f, f.stage, f.obj, f.got_something)
    BY <1>3, <1>7, BasenameIs
  <2> HIDE DEF f
  <2>3. f.stage = "json" /\ text = InlinedFile(e, JsonName(f.name), "JSON") /\ f.options.syntax \in {"UNSPECIFIED", "JSON"}
    BY <1>3, <1>4, <1>7 DEF AwaitedBy, Calling
  <2> HIDE DEF text
  <2>4. JsonParts(e, f) = <<>> /\ NotGot(e, f.name, f.options)
    BY <1>4, <2>3, JsonFound DEF NotGot
  <2>5. AreParts(ConfParts(e, f)) /\ f.obj = Meaning(ConfParts(e, f)) /\ ~f.got_something
    BY <2>2, <2>3 DEF CanBeAt
  <2>6. CanBeAt(e, f, "both", f.obj, f.got_something)
    BY <2>4, <2>5, NoJsonParts DEF CanBeAt
  <2> QED
    BY <1>1, <1>5, <2>1, <2>6, NextStage DEF f
<1> QED
  BY <1>6, <1>7

\* A name with its extension is the file in the directory of the document.
LEMMA NamedFileAgrees ==
  ASSUME NEW e, NEW x, Agrees(e, x, request, stack, ctl), NamedFile,
         Strict(request) => ~HasExtension(request.name)
  PROVE  Agrees(e, x, request, stack', ctl')
<1> DEFINE file == RelativeTo(ctl.dir, ctl.name)
           syntax == Syntax(file, ctl.options.syntax)
           c == ctl'
<1>1. ctl.op = "from_basename" /\ HasExtension(ctl.name)
  BY DEF NamedFile, HasExtension
<1>2. c = ParseFile(file, syntax) /\ stack' = stack
  BY DEF NamedFile
<1>3. Chain(e, x, request, stack) /\ Goes(e, x, request, stack, ctl)
  BY DEF Agrees
<1>4. /\ Awaits(stack) /\ ctl.options.syntax \in Syntaxes
      /\ InlinedName(e, ctl.dir, ctl.name, ctl.options.syntax) = Wanted(e, x, stack)
      /\ Allowed(request, Len(stack) + 1, ctl.name, ctl.options)
  BY <1>1, <1>3, Outcome
<1> DEFINE strict == Strict(request)
<1> HIDE DEF strict
<1>0. stack = <<>> => ~strict
  <2>1. stack = <<>> => Len(stack) + 1 = 1
    BY EmptyIsSequence
  <2> QED
    BY <1>1, <1>4, <2>1 DEF Allowed, strict
<1>5. InlinedFile(e, file, syntax) = Wanted(e, x, stack)
  BY <1>1, <1>4, NamedText
<1> HIDE DEF file, c
<1>6. syntax \in {"CONF", "JSON"}
  BY <1>4 DEF Syntax, Syntaxes
<1> HIDE DEF syntax
<1>7. c.op = "parse" /\ c.file = file /\ c.syntax = syntax
  BY <1>2 DEF ParseFile
<1>8. Goes(e, x, request, stack, c)
  BY <1>0, <1>4, <1>5, <1>6, <1>7 DEF Goes, strict
<1> QED
  BY <1>2, <1>3, <1>8 DEF Agrees, c

\* One without is looked for as two files, where it says.
LEMMA AnySyntaxAgrees ==
  ASSUME NEW e, NEW x, Agrees(e, x, request, stack, ctl), AnySyntax
  PROVE  Agrees(e, x, request, stack', ctl')
<1> DEFINE f == Basename(ctl.name, ctl.options)
<1>1. ctl.op = "from_basename" /\ ~HasExtension(ctl.name)
  BY DEF AnySyntax, HasExtension
<1>2. stack' = Append(stack, f) /\ ctl'.op = "continue"
  BY DEF AnySyntax, Continue
<1>3. Chain(e, x, request, stack) /\ Goes(e, x, request, stack, ctl)
  BY DEF Agrees
<1>4. /\ Awaits(stack) /\ ctl.options.syntax \in Syntaxes
      /\ Allowed(request, Len(stack) + 1, ctl.name, ctl.options)
      /\ InlinedName(e, ctl.dir, ctl.name, ctl.options.syntax) = Wanted(e, x, stack)
      /\ IsAtHome(ctl.dir, ctl.name)
  BY <1>1, <1>3, Outcome
<1>5. /\ f.fn = "from_basename" /\ f.name = ctl.name /\ f.options = ctl.options /\ f.stage = "conf" /\ f.obj = NoObject
      /\ ~f.got_something
      /\ f = [fn |-> "from_basename", name |-> f.name, options |-> f.options, stage |-> f.stage,
              obj |-> f.obj, got_something |-> f.got_something]
  BY DEF Basename
<1> HIDE DEF f
<1>6. IsBasename(e, f)
  BY <1>1, <1>4, <1>5 DEF IsBasename
<1>7. IsFrame(e, request, Len(stack) + 1, f)
  BY <1>4, <1>5, <1>6 DEF IsFrame
<1>8. OwnText(e, f) = Joined(<<InlinedJson(e, ctl.name, ctl.options.syntax), InlinedConf(e, ctl.name, ctl.options.syntax)>>)
  BY <1>5 DEF OwnText
<1>9. OwnText(e, f) = Wanted(e, x, stack)
  BY <1>1, <1>4, <1>8, Unnamed
<1>10. Chain(e, x, request, Append(stack, f)) /\ Append(stack, f) # <<>>
  BY <1>3, <1>4, <1>7, <1>9, ChainPushed
<1> QED
  BY <1>2, <1>10 DEF Agrees, Goes

\* What was found is what both files come to.
LEMMA BothStandFor ==
  ASSUME NEW e, NEW f, f.fn = "from_basename", IsBasename(e, f), f.stage = "both"
  PROVE  /\ ~OwnText(e, f).fails /\ AreParts(OwnText(e, f).parts) /\ f.obj = Meaning(OwnText(e, f).parts)
         /\ ~f.got_something => NotGot(e, f.name, f.options)
         /\ f.got_something => ~NotGot(e, f.name, f.options)
<1> DEFINE json == InlinedJson(e, f.name, f.options.syntax)
           conf == InlinedConf(e, f.name, f.options.syntax)
<1>1. CanBeAt(e, f, "both", f.obj, f.got_something) /\ ~HasExtension(f.name)
  BY BasenameIs
<1>2. /\ AreParts(json.parts) /\ AreParts(conf.parts) /\ f.obj = Meaning(json.parts \o conf.parts)
      /\ ~f.got_something => NotGot(e, f.name, f.options)
      /\ f.got_something => ~NotGot(e, f.name, f.options)
  BY <1>1 DEF CanBeAt, JsonParts, ConfParts
<1>3. ~json.fails /\ ~conf.fails
  BY OrEmptySucceeds
<1>4. OwnText(e, f) = Joined(<<json, conf>>)
  BY DEF OwnText
<1> HIDE DEF json, conf
<1>5. Joined(<<json, conf>>) = Success(json.parts \o conf.parts)
  BY <1>2, <1>3, BothText DEF AreParts
<1> DEFINE both == json.parts \o conf.parts
           text == OwnText(e, f)
<1>6. AreParts(both) /\ f.obj = Meaning(both) /\ text = Success(both)
  BY <1>2, <1>4, <1>5, Merging
<1> HIDE DEF both, text
<1>7. text.parts = both /\ text.fails = FALSE
  BY <1>6 DEF Success
<1> QED
  BY <1>2, <1>6, <1>7 DEF text

LEMMA BasenameReturnsAgrees ==
  ASSUME NEW e, NEW x, Agrees(e, x, request, stack, ctl), BasenameReturns
  PROVE  Agrees(e, x, request, stack', ctl')
<1> DEFINE f == Top
           n == Len(stack)
           u == Popped(stack)
           c == ctl'
<1>1. In("from_basename") /\ stack # <<>> /\ f.stage = "both"
  BY DEF BasenameReturns, AtStage, In
<1>2. /\ c = IF ~f.options.allow_missing /\ ~f.got_something THEN Throws ELSE Returns(f.obj)
      /\ stack' = u
  BY DEF BasenameReturns
<1>3. /\ Chain(e, x, request, stack) /\ f = stack[n] /\ f.fn = "from_basename"
      /\ IsBasename(e, f) /\ Allowed(request, n, f.name, f.options)
  BY <1>1, TopIs
<1>4. /\ ~OwnText(e, f).fails /\ AreParts(OwnText(e, f).parts) /\ f.obj = Meaning(OwnText(e, f).parts)
      /\ ~f.got_something => NotGot(e, f.name, f.options)
      /\ f.got_something => ~NotGot(e, f.name, f.options)
  BY <1>1, <1>3, BothStandFor
<1>5. Chain(e, x, request, u) /\ Awaits(u) /\ Wanted(e, x, u) = OwnText(e, f) /\ (n = 1 <=> u = <<>>)
  BY <1>1, <1>3, ChainPopped
<1>6. ~HasExtension(f.name)
  BY <1>3, BasenameIs
<1> HIDE DEF f, n, u, c
<1>7. CASE ~f.options.allow_missing /\ ~f.got_something
  <2>1. n = 1 /\ request.op = "parse_file_any_syntax" /\ request.name = f.name /\ request.options = f.options
    BY <1>3, <1>7 DEF Allowed
  <2>2. Excuse(e, request)
    BY <1>4, <1>6, <1>7, <2>1 DEF Excuse, Strict
  <2>3. Breaks(e, x, request, u)
    BY <1>5, <2>1, <2>2 DEF Breaks
  <2>4. c.op = "throw"
    BY <1>2, <1>7 DEF Throws
  <2> QED
    BY <1>2, <1>5, <2>3, <2>4 DEF Agrees, Goes, c
<1>8. CASE ~(~f.options.allow_missing /\ ~f.got_something)
  <2>1. c.op = "return" /\ c.v = f.obj
    BY <1>2, <1>8 DEF Returns
  <2>2. u = <<>> => ~Excuse(e, request)
    BY <1>3, <1>4, <1>5, <1>8 DEF Allowed, Excuse, Strict
  <2> QED
    BY <1>2, <1>4, <1>5, <2>1, <2>2 DEF Agrees, Goes, c
<1> QED
  BY <1>7, <1>8

-----------------------------------------------------------------------------
\* A file that was read stands for its text, one that could not be fails.
LEMMA FileText ==
  ASSUME NEW e, Solves(e, files), NEW file, NEW syntax \in {"CONF", "JSON"}
  PROVE  /\ Reads(file, syntax) => InlinedFile(e, file, syntax) = Inlined(e, file.dir, Body(file))
         /\ ~Reads(file, syntax) => InlinedFile(e, file, syntax).fails
<1> DEFINE asked == [file |-> file, syntax |-> syntax]
           text == InlinedFile(e, file, syntax)
<1>1. e = [a \in Asked(files) |-> TextIn(files, e, a)]
  BY DEF Solves
<1>2. asked \in Asked(files) <=> file \in DOMAIN files
  BY DEF Asked
<1>3. DOMAIN e = Asked(files)
  BY <1>1
<1>4. CASE file \in DOMAIN files
  <2>1. text = e[asked]
    BY <1>2, <1>3, <1>4 DEF InlinedFile
  <2>2. e[asked] = TextIn(files, e, asked)
    BY <1>1, <1>2, <1>4
  <2>3. asked.file = file /\ asked.syntax = syntax
    OBVIOUS
  <2> HIDE DEF asked, text
  <2>4. text = IF Parses(files[file], syntax) THEN Inlined(e, file.dir, files[file].body) ELSE Failure
    BY <2>1, <2>2, <2>3 DEF TextIn
  <2>5. Reads(file, syntax) <=> Parses(files[file], syntax)
    BY <1>4 DEF Reads
  <2>6. Body(file) = files[file].body
    BY <1>4 DEF Body
  <2> QED
    BY <2>4, <2>5, <2>6 DEF Failure, text
<1>5. CASE file \notin DOMAIN files
  <2> DEFINE none == <<>>
             whole == Inlined(e, file.dir, none)
  <2>1. text = IF syntax = "CONF" THEN Success(none) ELSE Failure
    BY <1>2, <1>3, <1>5 DEF InlinedFile
  <2>2. (Reads(file, syntax) <=> syntax = "CONF") /\ Body(file) = none
    BY <1>5 DEF Reads, Body
  <2>3. IsSequence(none) /\ Len(none) = 0
    BY EmptyIsSequence
  <2>4. PartsUpTo(e, file.dir, none, 0) = none
    BY NoStatements
  <2> HIDE DEF asked, text, none
  <2>5. \A i \in 1 .. Len(none) : ~InlinedStatement(e, file.dir, none[i]).fails
    BY <2>3
  <2>6. whole = Success(PartsUpTo(e, file.dir, none, Len(none)))
    BY <2>3, <2>5, AllStatements
  <2>7. whole = Success(none)
    BY <2>3, <2>4, <2>6
  <2> HIDE DEF whole
  <2> QED
    BY <2>1, <2>2, <2>7 DEF Failure, text, whole
<1> QED
  BY <1>4, <1>5

\* When what is wanted fails, so does the function that waits for it.
LEMMA WantedFails ==
  ASSUME NEW e, NEW x, NEW q, NEW s, Chain(e, x, q, s), Awaits(s), Wanted(e, x, s).fails
  PROVE  Breaks(e, x, q, s)
<1>1. CASE s = <<>>
  BY <1>1 DEF Wanted, Breaks
<1>2. CASE s # <<>>
  <2> DEFINE f == s[Len(s)]
  <2>1. Len(s) \in Nat \ {0}
    BY <1>2, Popping DEF Chain
  <2>2. IsFrame(e, q, Len(s), f)
    BY <2>1 DEF Chain
  <2>3. Calling(f) /\ AwaitedBy(e, f).fails
    BY <1>2 DEF Wanted, Awaits
  <2> HIDE DEF f
  <2>4. CASE f.fn = "parse"
    <3>1. f.body[f.next].t # "field" /\ InlinedName(e, f.dir, f.body[f.next].name, "UNSPECIFIED").fails
      BY <2>3, <2>4 DEF Calling, AwaitedBy
    <3>2. InlinedStatement(e, f.dir, f.body[f.next]).fails
      BY <3>1, IncludeFails
    <3> QED
      BY <1>2, <2>4, <3>2 DEF Breaks, f
  <2>5. CASE f.fn # "parse"
    BY <1>2, <2>3, <2>5 DEF Breaks, f
  <2> QED
    BY <2>4, <2>5
<1> QED
  BY <1>1, <1>2

\* No document is ever believed in progress.
LEMMA EnteredIs ==
  ASSUME parse_stack = <<>>, NEW file
  PROVE  Entered(file) = <<>> /\ ~(Len(parse_stack) >= MaxIncludeDepth)
<1> DEFINE none == parse_stack
           one == Append(none, file)
           u == Popped(one)
<1>1. IsSequence(none) /\ Len(none) = 0
  BY EmptyIsSequence
<1> HIDE DEF none
<1>2. IsSequence(one) /\ Len(one) = 1
  <2>1. IsSequence(one) /\ Len(one) = Len(none) + 1
    BY <1>1, Pushing
  <2> HIDE DEF one
  <2> QED
    BY <1>1, <2>1
<1> HIDE DEF one
<1>3. IsSequence(u) /\ Len(u) = 0
  <2>1. one # <<>>
    BY <1>2, EmptyIsSequence
  <2> QED
    BY <1>2, <2>1, Popping
<1> HIDE DEF u
<1>4. u = <<>>
  BY <1>3, NoElements
<1>5. Entered(file) = u
  BY DEF Entered, u, one, none
<1> QED
  BY <1>1, <1>4, <1>5, MaxIncludeDepthAssumption DEF none

\* A document is parsed from its first statement.
LEMMA DocumentStarts ==
  ASSUME NEW e, NEW q, NEW i, NEW dir, NEW body, IsSequence(body),
         \A j \in 1 .. Len(body) : body[j].t = "field" => IsValue(body[j].v),
         AreAtHome(dir, body), i = 1 => ~Strict(q)
  PROVE  /\ IsFrame(e, q, i, Document(dir, body))
         /\ OwnText(e, Document(dir, body)) = Inlined(e, dir, body)
<1> DEFINE f == Document(dir, body)
<1>1. /\ f = [fn |-> "parse", dir |-> f.dir, body |-> f.body, next |-> f.next, values |-> f.values]
      /\ f.fn = "parse" /\ f.dir = dir /\ f.body = body /\ f.next = 1 /\ f.values = NoObject
  BY DEF Document
<1> HIDE DEF f
<1> DEFINE none == PartsUpTo(e, f.dir, f.body, 0)
<1>2. AreParts(none) /\ f.values = Meaning(none)
  BY <1>1, NoStatements, NoPartsMean
<1>3. IsContent(f) /\ AreAtHome(f.dir, f.body) /\ Len(f.body) \in Nat
  BY <1>1 DEF IsContent, IsSequence
<1>4. f.next \in 1 .. Len(f.body) + 1 /\ f.next - 1 = 0
  BY <1>1, <1>3
<1>5. \A j \in 1 .. f.next - 1 : ~InlinedStatement(e, f.dir, f.body[j]).fails
  BY <1>4
<1>6. IsParse(e, f)
  BY <1>1, <1>2, <1>3, <1>4, <1>5 DEF IsParse
<1> QED
  BY <1>1, <1>6 DEF IsFrame, OwnText, f

LEMMA ParseAgrees ==
  ASSUME NEW e, Solves(e, files), files \in FileSystems, parse_stack = <<>>,
         BasenamesAreAtHome, NEW x, Agrees(e, x, request, stack, ctl), Parse
  PROVE  Agrees(e, x, request, stack', ctl') /\ parse_stack' = <<>>
<1> DEFINE file == ctl.file
           syntax == ctl.syntax
           body == Body(file)
           f == Document(file.dir, body)
           text == InlinedFile(e, file, syntax)
           c == ctl'
<1>1. ctl.op = "parse" /\ parse_stack' = <<>>
  BY EnteredIs DEF Parse
<1>2. /\ Reads(file, syntax) => stack' = Append(stack, f) /\ c = Continue
      /\ ~Reads(file, syntax) => stack' = stack /\ c = Throws
  BY EnteredIs DEF Parse
<1>3. Chain(e, x, request, stack) /\ Goes(e, x, request, stack, ctl)
  BY DEF Agrees
<1>4. /\ Awaits(stack) /\ text = Wanted(e, x, stack) /\ syntax \in {"CONF", "JSON"}
      /\ stack = <<>> => ~Strict(request)
  BY <1>1, <1>3, Outcome
<1>5. /\ IsSequence(body) /\ \A i \in 1 .. Len(body) : body[i].t = "field" => IsValue(body[i].v)
      /\ AreAtHome(file.dir, body)
  <2>1. CASE file \in DOMAIN files
    BY <2>1, FileSystemsAssumption DEF IsContent, Body, BasenamesAreAtHome
  <2>2. CASE file \notin DOMAIN files
    <3>1. body = <<>>
      BY <2>2 DEF Body
    <3>2. DOMAIN body = {}
      BY <3>1, EmptyIsSequence DEF IsSequence
    <3> QED
      BY <3>1, <3>2, EmptyIsSequence DEF AreAtHome
  <2> QED
    BY <2>1, <2>2
<1>0. Len(stack) + 1 = 1 => ~Strict(request)
  <2>1. Len(stack) \in Nat /\ (Len(stack) = 0 => stack = <<>>)
    BY <1>3, NoElements DEF Chain, IsSequence
  <2> QED
    BY <1>4, <2>1
<1>6. IsFrame(e, request, Len(stack) + 1, f) /\ OwnText(e, f) = Inlined(e, file.dir, body)
  BY <1>0, <1>5, DocumentStarts
<1>7. /\ Reads(file, syntax) => text = Inlined(e, file.dir, body)
      /\ ~Reads(file, syntax) => text.fails
  BY <1>4, FileText
<1> HIDE DEF file, syntax, body, f, text, c
<1>8. CASE Reads(file, syntax)
  <2>1. OwnText(e, f) = Wanted(e, x, stack)
    BY <1>4, <1>6, <1>7, <1>8
  <2>2. Chain(e, x, request, Append(stack, f)) /\ Append(stack, f) # <<>>
    BY <1>3, <1>4, <1>6, <2>1, ChainPushed
  <2>3. c.op = "continue"
    BY <1>2, <1>8 DEF Continue
  <2> QED
    BY <1>1, <1>2, <1>8, <2>2, <2>3 DEF Agrees, Goes, c
<1>9. CASE ~Reads(file, syntax)
  <2>1. Breaks(e, x, request, stack)
    BY <1>3, <1>4, <1>7, <1>9, WantedFails
  <2>2. c.op = "throw"
    BY <1>2, <1>9 DEF Throws
  <2> QED
    BY <1>1, <1>2, <1>3, <1>4, <1>9, <2>1, <2>2 DEF Agrees, Goes, c
<1> QED
  BY <1>8, <1>9

LEMMA EndOfDocumentAgrees ==
  ASSUME NEW e, NEW x, Agrees(e, x, request, stack, ctl), EndOfDocument
  PROVE  Agrees(e, x, request, stack', ctl')
<1> DEFINE f == Top
           u == Popped(stack)
           c == ctl'
           text == OwnText(e, f)
           parts == PartsUpTo(e, f.dir, f.body, Len(f.body))
<1>1. In("parse") /\ stack # <<>> /\ f.next \notin DOMAIN f.body /\ c = Returns(f.values) /\ stack' = u
  BY DEF EndOfDocument, In
<1>2. /\ Chain(e, x, request, stack) /\ f = stack[Len(stack)] /\ f.fn = "parse" /\ IsParse(e, f)
      /\ Len(stack) = 1 => ~Strict(request)
  BY <1>1, TopIs
<1>3. Chain(e, x, request, u) /\ Awaits(u) /\ Wanted(e, x, u) = text /\ (Len(stack) = 1 <=> u = <<>>)
  BY <1>1, <1>2, ChainPopped
<1>0. u = <<>> => ~Excuse(e, request)
  BY <1>2, <1>3 DEF Excuse
<1> HIDE DEF f, u, c
<1>4. IsSequence(f.body) /\ f.next \in 1 .. Len(f.body) + 1 /\ DOMAIN f.body = 1 .. Len(f.body) /\ Len(f.body) \in Nat
  BY <1>2 DEF IsParse, IsContent, IsSequence
<1>5. f.next - 1 = Len(f.body)
  BY <1>1, <1>4
<1>6. /\ \A i \in 1 .. Len(f.body) : ~InlinedStatement(e, f.dir, f.body[i]).fails
      /\ AreParts(parts) /\ f.values = Meaning(parts)
  BY <1>2, <1>5 DEF IsParse
<1>7. text = Success(parts)
  BY <1>2, <1>4, <1>6, AllStatements DEF OwnText
<1> HIDE DEF text, parts
<1>8. text.parts = parts /\ text.fails = FALSE
  BY <1>7 DEF Success
<1>9. c.op = "return" /\ c.v = f.values
  BY <1>1 DEF Returns
<1> QED
  BY <1>0, <1>1, <1>3, <1>6, <1>8, <1>9 DEF Agrees, Goes, c

LEMMA UnwindAgrees ==
  ASSUME NEW e, NEW x, Agrees(e, x, request, stack, ctl), Unwind
  PROVE  Agrees(e, x, request, stack', ctl')
<1> DEFINE f == stack[Len(stack)]
           u == Popped(stack)
           c == ctl'
<1>1. In("parse") /\ stack # <<>> /\ Top = f /\ ctl.op = "throw" /\ c.op = "throw" /\ stack' = u
  BY DEF Unwind, In, Top
<1>2. Chain(e, x, request, stack) /\ Goes(e, x, request, stack, ctl) /\ f.fn = "parse" /\ IsParse(e, f)
  BY <1>1, TopIs
<1>3. Chain(e, x, request, u) /\ Awaits(u) /\ Wanted(e, x, u) = OwnText(e, f)
  BY <1>1, <1>2, ChainPopped
<1>4. Awaits(stack) /\ Breaks(e, x, request, stack)
  BY <1>1, <1>2, Outcome
<1>5. Calling(f) /\ InlinedStatement(e, f.dir, f.body[f.next]).fails
  BY <1>1, <1>2, <1>4 DEF Awaits, Breaks
<1> HIDE DEF f, u, c
<1>6. f.next \in 1 .. Len(f.body) /\ IsSequence(f.body)
  BY <1>2, <1>5 DEF Calling, IsParse, IsContent
<1>7. OwnText(e, f).fails
  BY <1>2, <1>5, <1>6, OneStatementFails DEF OwnText
<1>8. Breaks(e, x, request, u)
  BY <1>3, <1>7, WantedFails
<1> QED
  BY <1>1, <1>3, <1>8 DEF Agrees, Goes, c

-----------------------------------------------------------------------------
(***************************************************************************)
(* From the first state on.                                                *)
(***************************************************************************)
\* No file includes itself, however many files are between.
FilesAreTrees == \A fs \in FileSystems : NoCycle(fs)

\* What is asked for stands for this, found or not.
WholeText ==
  IF request.op = "parse_string"
  THEN IF request.text.parses THEN Inlined(Texts(files), <<>>, request.text.body) ELSE Failure
  ELSE InlinedName(Texts(files), <<>>, request.name, request.options.syntax)

Inv ==
  /\ parse_stack = <<>> /\ files \in FileSystems /\ request \in Requests
  /\ Agrees(Texts(files), WholeText, request, stack, ctl)

LEMMA EmptyChain ==
  ASSUME NEW e, NEW x, NEW q
  PROVE  Chain(e, x, q, <<>>) /\ Awaits(<<>>) /\ Wanted(e, x, <<>>) = x
<1> DEFINE none == <<>>
<1>1. none = <<>> /\ IsSequence(none) /\ Len(none) = 0
  BY EmptyIsSequence
<1> HIDE DEF none
<1>2. Chain(e, x, q, none) /\ Awaits(none) /\ Wanted(e, x, none) = x
  BY <1>1 DEF Chain, Awaits, Wanted
<1> QED
  BY <1>2 DEF none

LEMMA FirstCall ==
  ASSUME NEW e, NEW x, Init, BasenamesAreAtHome, request.op = "parse_file_any_syntax",
         x = InlinedName(e, <<>>, request.name, request.options.syntax)
  PROVE  Agrees(e, x, request, stack, ctl)
<1>1. stack = <<>> /\ ctl = FromBasename(request.name, <<>>, request.options)
  BY DEF Init
<1>2. request.options.syntax \in Syntaxes
  BY RequestsAssumption DEF Init, Syntaxes
<1>3. Chain(e, x, request, stack) /\ Awaits(stack) /\ Wanted(e, x, stack) = x /\ Len(stack) + 1 = 1
  BY <1>1, EmptyChain, EmptyIsSequence
<1>4. /\ ctl.op = "from_basename" /\ ctl.name = request.name /\ ctl.dir = <<>> /\ ctl.options = request.options
  BY <1>1 DEF FromBasename
<1>5. Allowed(request, Len(stack) + 1, ctl.name, ctl.options)
  BY <1>3, <1>4 DEF Allowed
<1>6. IsAtHome(ctl.dir, ctl.name)
  BY <1>4 DEF Init, BasenamesAreAtHome
<1> QED
  BY <1>2, <1>3, <1>4, <1>5, <1>6 DEF Agrees, Goes

LEMMA FirstDocument ==
  ASSUME NEW e, NEW x, Init, BasenamesAreAtHome, request.op = "parse_string",
         x = IF request.text.parses THEN Inlined(e, <<>>, request.text.body) ELSE Failure
  PROVE  Agrees(e, x, request, stack, ctl)
<1> DEFINE body == request.text.body
           none == <<>>
           f == Document(none, body)
<1>1. /\ request.text.parses => stack = <<f>> /\ ctl = Continue
      /\ ~request.text.parses => stack = none /\ ctl = Throws
  BY DEF Init
<1>2. /\ IsSequence(body) /\ \A j \in 1 .. Len(body) : body[j].t = "field" => IsValue(body[j].v)
      /\ AreAtHome(none, body) /\ ~Strict(request)
  BY RequestsAssumption DEF Init, IsContent, BasenamesAreAtHome, Strict
<1>3. /\ Chain(e, x, request, none) /\ Awaits(none) /\ Wanted(e, x, none) = x
      /\ IsSequence(none) /\ Len(none) = 0 /\ none = <<>>
  BY EmptyChain, EmptyIsSequence
<1>4. IsFrame(e, request, Len(none) + 1, f) /\ OwnText(e, f) = Inlined(e, none, body)
  BY <1>2, DocumentStarts
<1>5. Append(none, f) = <<f>>
  BY JoiningOne
<1>6. x = IF request.text.parses THEN Inlined(e, none, body) ELSE Failure
  OBVIOUS
<1> HIDE DEF f, none, body
<1>7. CASE request.text.parses
  <2>1. Chain(e, x, request, Append(none, f)) /\ Append(none, f) # <<>>
    BY <1>3, <1>4, <1>6, <1>7, ChainPushed
  <2>2. ctl.op = "continue" /\ stack = Append(none, f)
    BY <1>1, <1>5, <1>7 DEF Continue
  <2> QED
    BY <2>1, <2>2 DEF Agrees, Goes
<1>8. CASE ~request.text.parses
  <2>1. ctl.op = "throw" /\ stack = none
    BY <1>1, <1>8 DEF Throws
  <2>2. x.fails
    BY <1>6, <1>8 DEF Failure
  <2>3. Breaks(e, x, request, none)
    BY <1>3, <2>2 DEF Breaks
  <2> QED
    BY <1>3, <2>1, <2>3 DEF Agrees, Goes
<1> QED
  BY <1>7, <1>8

LEMMA InvAtFirst ==
  ASSUME BasenamesAreAtHome, Init
  PROVE  Inv
<1>1. parse_stack = <<>> /\ files \in FileSystems /\ request \in Requests
  BY DEF Init
<1>2. PICK e : e = Texts(files)
  OBVIOUS
<1>3. PICK x : x = WholeText
  OBVIOUS
<1>4. request.op \in {"parse_string", "parse_file_any_syntax"}
  BY <1>1, RequestsAssumption
<1>5. CASE request.op = "parse_file_any_syntax"
  <2>1. x = InlinedName(e, <<>>, request.name, request.options.syntax)
    BY <1>2, <1>3, <1>5 DEF WholeText
  <2>2. Agrees(e, x, request, stack, ctl)
    BY <1>5, <2>1, FirstCall
  <2> QED
    BY <1>1, <1>2, <1>3, <2>2 DEF Inv
<1>6. CASE request.op = "parse_string"
  <2>1. x = IF request.text.parses THEN Inlined(e, <<>>, request.text.body) ELSE Failure
    BY <1>2, <1>3, <1>6 DEF WholeText
  <2>2. Agrees(e, x, request, stack, ctl)
    BY <1>6, <2>1, FirstDocument
  <2> QED
    BY <1>1, <1>2, <1>3, <2>2 DEF Inv
<1> QED
  BY <1>4, <1>5, <1>6

LEMMA InvStep ==
  ASSUME FilesAreTrees, ResolveGivesObjects, BasenamesAreAtHome, StrictOnesAskForJson, Inv, [Next]_vars
  PROVE  Inv'
<1>1. PICK e : e = Texts(files)
  OBVIOUS
<1>2. PICK x : x = WholeText
  OBVIOUS
<1>3. /\ parse_stack = <<>> /\ files \in FileSystems /\ request \in Requests
      /\ Agrees(e, x, request, stack, ctl)
  BY <1>1, <1>2 DEF Inv
<1>4. Solves(e, files)
  BY <1>1, <1>3, TextsExist DEF FilesAreTrees
<1>5. files' = files /\ request' = request
  BY DEF Next, vars, NamedFile, AnySyntax, TryConf, ConfParsed, TryJson, JsonParsed, Caught, BasenameReturns,
         Parse, Field, Include, Included, EndOfDocument, Unwind
<1>6. Agrees(e, x, request, stack', ctl') /\ parse_stack' = <<>>
  <2>1. CASE NamedFile
    <3>1. Strict(request) => ~HasExtension(request.name)
      BY <1>3 DEF StrictOnesAskForJson, Strict, HasExtension
    <3> QED
      BY <1>3, <2>1, <3>1, NamedFileAgrees DEF NamedFile
  <2>2. CASE AnySyntax
    BY <1>3, <2>2, AnySyntaxAgrees DEF AnySyntax
  <2>3. CASE TryConf
    BY <1>3, <2>3, TryConfAgrees DEF TryConf
  <2>4. CASE ConfParsed
    BY <1>3, <2>4, ConfParsedAgrees DEF ConfParsed
  <2>5. CASE TryJson
    BY <1>3, <2>5, TryJsonAgrees DEF TryJson
  <2>6. CASE JsonParsed
    BY <1>3, <2>6, JsonParsedAgrees DEF JsonParsed
  <2>7. CASE Caught
    BY <1>3, <2>7, CaughtAgrees DEF Caught
  <2>8. CASE BasenameReturns
    BY <1>3, <2>8, BasenameReturnsAgrees DEF BasenameReturns
  <2>9. CASE Parse
    BY <1>3, <1>4, <2>9, ParseAgrees
  <2>10. CASE Field
    BY <1>3, <2>10, FieldAgrees DEF Field
  <2>11. CASE Include
    BY <1>3, <2>11, IncludeAgrees DEF Include
  <2>12. CASE Included
    BY <1>3, <2>12, IncludedAgrees DEF Included
  <2>13. CASE EndOfDocument
    BY <1>3, <2>13, EndOfDocumentAgrees DEF EndOfDocument
  <2>14. CASE Unwind
    BY <1>3, <2>14, UnwindAgrees DEF Unwind
  <2>15. CASE UNCHANGED vars
    BY <1>3, <2>15 DEF vars
  <2> QED
    BY <2>1, <2>2, <2>3, <2>4, <2>5, <2>6, <2>7, <2>8, <2>9, <2>10, <2>11, <2>12, <2>13, <2>14, <2>15 DEF Next
<1>7. Texts(files)' = e /\ WholeText' = x
  BY <1>1, <1>2, <1>5 DEF WholeText
<1> QED
  BY <1>3, <1>5, <1>6, <1>7 DEF Inv

LEMMA Correct ==
  ASSUME FilesAreTrees, ResolveGivesObjects, BasenamesAreAtHome, StrictOnesAskForJson
  PROVE  Spec => []Inv
<1>1. Init => Inv
  BY InvAtFirst
<1>2. Inv /\ [Next]_vars => Inv'
  BY InvStep
<1> QED
  BY <1>1, <1>2, PTL DEF Spec

\* What got_something notices is whether the file that has to exist is missing.
LEMMA Missing ==
  ASSUME FilesAreTrees, StrictOnesAskForJson, files \in FileSystems, request \in Requests
  PROVE  IsMissing <=> Excuse(Texts(files), request)
<1> DEFINE e == Texts(files)
           json == [file |-> JsonName(request.name), syntax |-> "JSON"]
<1>1. e = [a \in Asked(files) |-> TextIn(files, e, a)]
  BY TextsExist DEF FilesAreTrees, Solves
<1>2. json.file = JsonName(request.name) /\ json.syntax = "JSON"
  OBVIOUS
<1> HIDE DEF e
<1>3. CASE Strict(request)
  <2>1. request.name.ext = "" /\ request.options.syntax = "JSON"
    BY <1>3 DEF StrictOnesAskForJson, Strict
  <2>2. Candidates(request.name, request.options.syntax) = {json}
    <3> DEFINE conf == [file |-> [request.name EXCEPT !.ext = "conf"], syntax |-> "CONF"]
    <3>1. conf.syntax = "CONF"
      OBVIOUS
    <3> HIDE DEF conf, json
    <3>2. {a \in {conf, json} : "JSON" \in {"UNSPECIFIED", a.syntax}} = {json}
      BY <1>2, <3>1
    <3>3. Candidates(request.name, "JSON") = {a \in {conf, json} : "JSON" \in {"UNSPECIFIED", a.syntax}}
      BY <2>1, Zenon DEF Candidates, conf, json, JsonName
    <3> QED
      BY <2>1, <3>2, <3>3
  <2>3. IsMissing <=> ~(json.file \in DOMAIN files /\ ~e[json].fails)
    BY <1>3, <2>2 DEF IsMissing, IsFound, Strict, e
  <2>4. json \in DOMAIN e <=> json.file \in DOMAIN files
    BY <1>1 DEF Asked
  <2>5. InlinedFile(e, JsonName(request.name), "JSON") = IF json \in DOMAIN e THEN e[json] ELSE Failure
    BY DEF InlinedFile
  <2>6. Excuse(e, request) <=> InlinedFile(e, JsonName(request.name), "JSON").fails
    BY <1>3, <2>1 DEF Excuse, NotGot, HasExtension
  <2> HIDE DEF json
  <2> QED
    BY <2>3, <2>4, <2>5, <2>6 DEF Failure, e
<1>4. CASE ~Strict(request)
  BY <1>4 DEF Strict, IsMissing, Excuse
<1> QED
  BY <1>3, <1>4

LEMMA ExpansionIs ==
  ASSUME FilesAreTrees, StrictOnesAskForJson, files \in FileSystems, request \in Requests
  PROVE  Expansion = IF Excuse(Texts(files), request) THEN Failure ELSE WholeText
<1> DEFINE excused == Excuse(Texts(files), request)
<1>1. IsMissing <=> excused
  BY Missing
<1>2. request.op = "parse_string" => ~excused
  BY DEF Excuse, Strict
<1> HIDE DEF excused
<1>3. Expansion = IF excused THEN Failure ELSE WholeText
  BY <1>1, <1>2 DEF Expansion, WholeText
<1> QED
  BY <1>3 DEF excused

-----------------------------------------------------------------------------
(***************************************************************************)
(* What the application is given, where the names that documents include   *)
(* without extension are relative to the directory of the application, and *)
(* files that have to exist are JSON looked for without extension.         *)
(***************************************************************************)
\* A document that could be parsed means what it would mean with the text of
\* the files in place of the includes, for any number of files that include
\* each other however deep, as long as none includes itself; and the file that
\* had to exist was found.
THEOREM IncludesStandForTheirText ==
  ASSUME FilesAreTrees, ResolveGivesObjects, BasenamesAreAtHome, StrictOnesAskForJson
  PROVE  Spec => []IncludesAreInline
<1>1. Inv => IncludesAreInline
  <2> SUFFICES ASSUME Inv, Succeeded
               PROVE  ~Expansion.fails /\ ctl.v = Meaning(Expansion.parts)
    BY DEF IncludesAreInline
  <2> DEFINE e == Texts(files)
             x == WholeText
  <2>1. stack = <<>> /\ ctl.op = "return" /\ Goes(e, x, request, stack, ctl)
    BY DEF Inv, Agrees, Succeeded
  <2>2. Expansion = IF Excuse(e, request) THEN Failure ELSE x
    BY ExpansionIs DEF Inv
  <2> HIDE DEF e, x
  <2>3. Wanted(e, x, stack) = x
    BY <2>1, EmptyChain
  <2>4. ~Excuse(e, request) /\ ~x.fails /\ ctl.v = Meaning(x.parts)
    BY <2>1, <2>3, Outcome
  <2> QED
    BY <2>2, <2>4
<1> QED
  BY <1>1, Correct, PTL

\* One that could not has a cause: its text, or that of a file named with its
\* extension, fails, or the file that had to exist was not found.
THEOREM FailuresAreExplained ==
  ASSUME FilesAreTrees, ResolveGivesObjects, BasenamesAreAtHome, StrictOnesAskForJson
  PROVE  Spec => []FailuresHaveACause
<1>1. Inv => FailuresHaveACause
  <2> SUFFICES ASSUME Inv, Failed
               PROVE  Expansion.fails
    BY DEF FailuresHaveACause
  <2> DEFINE e == Texts(files)
             x == WholeText
  <2>1. stack = <<>> /\ ctl.op = "throw" /\ Goes(e, x, request, stack, ctl)
    BY DEF Inv, Agrees, Failed
  <2>2. Expansion = IF Excuse(e, request) THEN Failure ELSE x
    BY ExpansionIs DEF Inv
  <2> HIDE DEF e, x
  <2>3. x.fails \/ Excuse(e, request)
    BY <2>1, Outcome DEF Breaks
  <2> QED
    BY <2>2, <2>3 DEF Failure
<1> QED
  BY <1>1, Correct, PTL
=============================================================================
