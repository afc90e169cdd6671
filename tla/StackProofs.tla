----------------------------- MODULE StackProofs -----------------------------
(***************************************************************************)
(* What pushing, popping, joining and changing the top do to a stack, how  *)
(* many of its first frames are of some kind, and what the sequences in a  *)
(* sequence are, joined.                                                   *)
(***************************************************************************)
EXTENDS Stacks, FiniteSets, SequencesExt, SequenceTheorems, FiniteSetTheorems,
        NaturalsInduction, WellFoundedInduction, TLAPS

\* A sequence is a sequence over its elements, so the library's facts apply.
LEMMA SequenceOverElements ==
  ASSUME NEW s, IsSequence(s), NEW S, \A i \in 1 .. Len(s) : s[i] \in S
  PROVE  s \in Seq(S)
BY DEF IsSequence

\* A function on 1 .. n is a sequence of length n.
LEMMA FunctionIsSequence ==
  ASSUME NEW n \in Nat, NEW f, f = [i \in 1 .. n |-> f[i]]
  PROVE  IsSequence(f) /\ Len(f) = n /\ DOMAIN f = 1 .. n
<1> DEFINE S == {f[i] : i \in 1 .. n}
<1>1. f \in [1 .. n -> S]
  OBVIOUS
<1>2. f \in Seq(S)
  BY <1>1
<1>3. Len(f) = n
  BY <1>1, <1>2
<1> QED
  BY <1>3 DEF IsSequence

\* The empty stack.
LEMMA EmptyIsSequence == IsSequence(<<>>) /\ Len(<<>>) = 0 /\ DOMAIN <<>> = {}
BY DEF IsSequence

\* Pushing keeps what is below and puts e on top.
LEMMA Pushing ==
  ASSUME NEW s, IsSequence(s), NEW e
  PROVE  /\ IsSequence(Append(s, e))
         /\ Len(Append(s, e)) = Len(s) + 1
         /\ DOMAIN Append(s, e) = 1 .. Len(s) + 1
         /\ \A i \in 1 .. Len(s) : Append(s, e)[i] = s[i]
         /\ Append(s, e)[Len(s) + 1] = e
<1> DEFINE S == {s[i] : i \in 1 .. Len(s)} \cup {e}
<1>1. s \in Seq(S)
  BY SequenceOverElements
<1>2. Append(s, e) \in Seq(S) /\ Len(Append(s, e)) = Len(s) + 1
  BY <1>1
<1>3. \A i \in 1 .. Len(s) + 1 : Append(s, e)[i] = IF i <= Len(s) THEN s[i] ELSE e
  BY <1>1
<1> HIDE DEF S
<1>4. Append(s, e) \in [1 .. Len(Append(s, e)) -> S]
  BY <1>2, LenProperties
<1>5. Append(s, e) \in [1 .. Len(s) + 1 -> S]
  BY <1>2, <1>4
<1>6. Append(s, e) = [i \in 1 .. Len(s) + 1 |-> Append(s, e)[i]]
  BY <1>5
<1>7. Len(s) \in Nat /\ Len(s) + 1 \in Nat
  BY DEF IsSequence
<1>8. IsSequence(Append(s, e)) /\ DOMAIN Append(s, e) = 1 .. Len(s) + 1
  BY <1>6, <1>7, FunctionIsSequence
<1>9. /\ \A i \in 1 .. Len(s) : Append(s, e)[i] = s[i]
      /\ Append(s, e)[Len(s) + 1] = e
  BY <1>3, <1>7
<1> QED
  BY <1>2, <1>8, <1>9

\* A stack that is not empty has a top, and popping removes it alone.
LEMMA Popping ==
  ASSUME NEW s, IsSequence(s), s # <<>>
  PROVE  /\ Len(s) \in Nat \ {0}
         /\ DOMAIN s = 1 .. Len(s)
         /\ IsSequence(Popped(s))
         /\ Len(Popped(s)) = Len(s) - 1
         /\ DOMAIN Popped(s) = 1 .. Len(s) - 1
         /\ \A i \in 1 .. Len(s) - 1 : Popped(s)[i] = s[i]
<1> DEFINE S == {s[i] : i \in 1 .. Len(s)}
<1>1. s \in Seq(S)
  BY SequenceOverElements
<1>2. Len(s) \in Nat \ {0}
  BY <1>1, EmptySeq
<1>3. Len(s) - 1 \in Nat /\ Popped(s) = [i \in 1 .. Len(s) - 1 |-> Popped(s)[i]]
  BY <1>2 DEF Popped
<1>4. IsSequence(Popped(s)) /\ Len(Popped(s)) = Len(s) - 1 /\ DOMAIN Popped(s) = 1 .. Len(s) - 1
  BY <1>3, FunctionIsSequence
<1> QED
  BY <1>2, <1>4 DEF Popped, IsSequence

\* Changing the top changes nothing else.
LEMMA ChangingTop ==
  ASSUME NEW s, IsSequence(s), s # <<>>, NEW e
  PROVE  /\ IsSequence(Retopped(s, e))
         /\ Len(Retopped(s, e)) = Len(s)
         /\ DOMAIN Retopped(s, e) = DOMAIN s
         /\ \A i \in 1 .. Len(s) - 1 : Retopped(s, e)[i] = s[i]
         /\ Retopped(s, e)[Len(s)] = e
<1>1. Len(s) \in Nat \ {0} /\ DOMAIN s = 1 .. Len(s)
  BY Popping
<1>2. Retopped(s, e) = [i \in 1 .. Len(s) |-> Retopped(s, e)[i]]
  BY <1>1 DEF Retopped
<1>3. /\ IsSequence(Retopped(s, e))
      /\ Len(Retopped(s, e)) = Len(s)
      /\ DOMAIN Retopped(s, e) = 1 .. Len(s)
  BY <1>1, <1>2, FunctionIsSequence
<1> QED
  BY <1>1, <1>3 DEF Retopped

\* Joining two sequences keeps both.
LEMMA Joining ==
  ASSUME NEW s, NEW t, IsSequence(s), IsSequence(t)
  PROVE  /\ IsSequence(s \o t)
         /\ Len(s \o t) = Len(s) + Len(t)
         /\ \A i \in 1 .. Len(s) : (s \o t)[i] = s[i]
         /\ \A i \in 1 .. Len(t) : (s \o t)[Len(s) + i] = t[i]
<1> DEFINE S == {s[i] : i \in 1 .. Len(s)} \cup {t[i] : i \in 1 .. Len(t)}
<1>1. s \in Seq(S) /\ t \in Seq(S)
  BY SequenceOverElements
<1> HIDE DEF S
<1>2. /\ s \o t \in Seq(S) /\ Len(s \o t) = Len(s) + Len(t)
      /\ \A i \in 1 .. Len(s) : (s \o t)[i] = s[i]
      /\ \A i \in 1 .. Len(t) : (s \o t)[Len(s) + i] = t[i]
  BY <1>1
<1>3. s \o t \in [1 .. Len(s \o t) -> S] /\ Len(s \o t) \in Nat
  BY <1>2, LenProperties
<1> QED
  BY <1>2, <1>3 DEF IsSequence

-----------------------------------------------------------------------------
\* How many of the first k are in S.
Number(S, k) == Cardinality(S \cap 1 .. k)

LEMMA NumberFacts ==
  ASSUME NEW S, NEW k \in Nat
  PROVE  /\ Number(S, k) \in Nat
         /\ Number(S, 0) = 0
         /\ Number(S, k + 1) = Number(S, k) + IF k + 1 \in S THEN 1 ELSE 0
<1>1. IsFiniteSet(1 .. k)
  BY FS_Interval
<1>2. IsFiniteSet(S \cap 1 .. k)
  BY <1>1, FS_Subset
<1>3. Number(S, k) \in Nat
  BY <1>2, FS_CardinalityType DEF Number
<1>0. Number(S, 0) = 0
  <2>1. S \cap 1 .. 0 = {}
    OBVIOUS
  <2> QED
    BY <2>1, FS_EmptySet DEF Number
<1>4. CASE k + 1 \in S
  <2>1. S \cap 1 .. k + 1 = (S \cap 1 .. k) \cup {k + 1} /\ k + 1 \notin S \cap 1 .. k
    BY <1>4
  <2>2. Cardinality((S \cap 1 .. k) \cup {k + 1}) = Cardinality(S \cap 1 .. k) + 1
    BY <1>2, <2>1, FS_AddElement
  <2> QED
    BY <1>0, <1>3, <1>4, <2>1, <2>2 DEF Number
<1>5. CASE k + 1 \notin S
  <2>1. S \cap 1 .. k + 1 = S \cap 1 .. k
    BY <1>5
  <2> QED
    BY <1>0, <1>3, <1>5, <2>1 DEF Number
<1> QED
  BY <1>4, <1>5

\* The number grows with k, and counts what is there.
LEMMA NumberGrows ==
  ASSUME NEW S, NEW k \in Nat, NEW j \in 1 .. k
  PROVE  /\ Number(S, j) <= Number(S, k)
         /\ j \in S => Number(S, j) >= 1
<1>0. IsFiniteSet(1 .. k)
  BY FS_Interval
<1>1. IsFiniteSet(S \cap 1 .. k)
  BY <1>0, FS_Subset
<1>2. S \cap 1 .. j \in SUBSET (S \cap 1 .. k)
  OBVIOUS
<1>3. Number(S, j) <= Number(S, k)
  BY <1>1, <1>2, FS_Subset DEF Number
<1>4. j - 1 \in Nat /\ (j - 1) + 1 = j
  OBVIOUS
<1>5. Number(S, j - 1) \in Nat /\ Number(S, (j - 1) + 1) = Number(S, j - 1) + IF j \in S THEN 1 ELSE 0
  BY <1>4, NumberFacts
<1> QED
  BY <1>3, <1>4, <1>5

-----------------------------------------------------------------------------
(***************************************************************************)
(* What joining all sequences of a sequence does: the laws of \o and of    *)
(* FlattenSeq for sequences of anything.                                   *)
(***************************************************************************)
\* A set that has 0, and n + 1 with n, has every natural number.
LEMMA Induction ==
  ASSUME NEW T, 0 \in T, \A n \in Nat : n \in T => n + 1 \in T
  PROVE  \A n \in Nat : n \in T
<1> DEFINE R == OpToRel(<, Nat)
           C == {n \in Nat : n \notin T}
<1> SUFFICES ASSUME C # {}
             PROVE  FALSE
  OBVIOUS
<1>1. C \subseteq Nat /\ C # {}
  OBVIOUS
<1>2. \E x \in C : \A y \in C : ~ (<<y, x>> \in R)
  BY <1>1, NatLessThanWellFounded, WFMin
<1>3. PICK x \in C : \A y \in C : ~ (<<y, x>> \in R)
  BY <1>2
<1>4. \A y \in C : ~ (y < x)
  BY <1>1, <1>3 DEF OpToRel
<1>5. x \in Nat /\ x \notin T /\ x # 0
  BY <1>3
<1>6. x - 1 \in Nat /\ x - 1 < x /\ (x - 1) + 1 = x
  BY <1>5
<1>7. x - 1 \notin C
  BY <1>4, <1>6
<1>8. x - 1 \in T
  BY <1>6, <1>7
<1> QED
  BY <1>5, <1>6, <1>8

-----------------------------------------------------------------------------
(* Sequences *)

\* Two sequences with the same elements are the same.
LEMMA SameElements ==
  ASSUME NEW s, NEW t, IsSequence(s), IsSequence(t), Len(s) = Len(t),
         \A i \in 1 .. Len(s) : s[i] = t[i]
  PROVE  s = t
<1>1. s = [i \in 1 .. Len(s) |-> s[i]] /\ t = [i \in 1 .. Len(s) |-> t[i]]
  BY DEF IsSequence
<1> QED
  BY <1>1

\* A sequence over any set is one.
LEMMA SequenceIsSequence ==
  ASSUME NEW S, NEW s \in Seq(S)
  PROVE  IsSequence(s)
<1>1. s \in [1 .. Len(s) -> S] /\ Len(s) \in Nat
  BY LenProperties
<1> QED
  BY <1>1 DEF IsSequence

\* A sequence without elements is the empty one.
LEMMA NoElements ==
  ASSUME NEW s, IsSequence(s), Len(s) = 0
  PROVE  s = <<>>
BY SameElements, EmptyIsSequence

\* The empty sequence adds nothing.
LEMMA JoiningNothing ==
  ASSUME NEW s, IsSequence(s)
  PROVE  s \o <<>> = s /\ <<>> \o s = s
<1>1. s \in Seq({s[i] : i \in 1 .. Len(s)})
  BY SequenceOverElements
<1> QED
  BY <1>1, ConcatEmptySeq

\* It does not matter which two are joined first.
LEMMA JoiningThree ==
  ASSUME NEW a, NEW b, NEW c, IsSequence(a), IsSequence(b), IsSequence(c)
  PROVE  (a \o b) \o c = a \o (b \o c)
<1> DEFINE S == {a[i] : i \in 1 .. Len(a)} \cup {b[i] : i \in 1 .. Len(b)} \cup {c[i] : i \in 1 .. Len(c)}
<1>1. a \in Seq(S) /\ b \in Seq(S) /\ c \in Seq(S)
  BY SequenceOverElements
<1> HIDE DEF S
<1> QED
  BY <1>1, ConcatAssociative

\* One element is joined by appending it, after a prefix too.
LEMMA JoiningOne ==
  ASSUME NEW s, IsSequence(s), NEW e
  PROVE  s \o <<e>> = Append(s, e) /\ IsSequence(<<e>>) /\ Len(<<e>>) = 1 /\ <<e>>[1] = e
<1> DEFINE S == {s[i] : i \in 1 .. Len(s)} \cup {e}
<1>1. s \in Seq(S) /\ e \in S
  BY SequenceOverElements
<1>2. IsSequence(<<e>>) /\ Len(<<e>>) = 1 /\ <<e>>[1] = e
  BY DEF IsSequence
<1> HIDE DEF S
<1>3. s \o <<e>> = Append(s, e)
  BY <1>1, AppendIsConcat
<1> QED
  BY <1>2, <1>3

\* What is pushed is last.
LEMMA PushedIsLast ==
  ASSUME NEW s, IsSequence(s), NEW e, NEW u, u = Append(s, e)
  PROVE  u # <<>> /\ u[Len(u)] = e /\ Len(u) = Len(s) + 1 /\ IsSequence(u)
<1>1. IsSequence(u) /\ Len(u) = Len(s) + 1 /\ u[Len(s) + 1] = e /\ Len(s) \in Nat
  BY Pushing DEF IsSequence
<1>2. Len(u) # 0
  BY <1>1
<1> QED
  BY <1>1, <1>2, EmptyIsSequence

\* A sequence that is not empty is its last element after the ones before.
LEMMA LastApart ==
  ASSUME NEW s, IsSequence(s), NEW n \in Nat, Len(s) = n + 1
  PROVE  /\ IsSequence([i \in 1 .. n |-> s[i]])
         /\ Len([i \in 1 .. n |-> s[i]]) = n
         /\ s = Append([i \in 1 .. n |-> s[i]], s[n + 1])
<1> DEFINE p == [i \in 1 .. n |-> s[i]]
<1>1. p = [i \in 1 .. n |-> p[i]]
  OBVIOUS
<1>2. IsSequence(p) /\ Len(p) = n
  BY <1>1, FunctionIsSequence
<1>3. \A i \in 1 .. n : p[i] = s[i]
  OBVIOUS
<1> HIDE DEF p
<1>4. /\ IsSequence(Append(p, s[n + 1])) /\ Len(Append(p, s[n + 1])) = n + 1
      /\ \A i \in 1 .. n : Append(p, s[n + 1])[i] = s[i]
      /\ Append(p, s[n + 1])[n + 1] = s[n + 1]
  BY <1>2, <1>3, Pushing
<1>5. \A i \in 1 .. n + 1 : Append(p, s[n + 1])[i] = s[i]
  BY <1>4
<1>6. s = Append(p, s[n + 1])
  BY <1>4, <1>5, SameElements
<1> QED
  BY <1>2, <1>6 DEF p

-----------------------------------------------------------------------------
(* FlattenSeq                                                              *)

AreSequences(ss) == IsSequence(ss) /\ \A i \in 1 .. Len(ss) : IsSequence(ss[i])

\* What the library's definition says of the function it chooses.
JoinsTo(f, ss, n) == f = [i \in 1 .. n |-> IF i = 1 THEN ss[i] ELSE f[i - 1] \o ss[i]]

LEMMA JoinsUpTo ==
  ASSUME NEW ss, NEW n \in Nat
  PROVE  \E f : JoinsTo(f, ss, n)
<1> DEFINE T == {k \in Nat : \E f : JoinsTo(f, ss, k)}
<1>1. 0 \in T
  <2>1. JoinsTo(<<>>, ss, 0)
    BY DEF JoinsTo
  <2> QED
    BY <2>1
<1>2. ASSUME NEW k \in Nat, k \in T
      PROVE  k + 1 \in T
  <2>1. PICK f : JoinsTo(f, ss, k)
    BY <1>2
  <2> DEFINE last == IF k + 1 = 1 THEN ss[k + 1] ELSE f[k] \o ss[k + 1]
             g == [i \in 1 .. k + 1 |-> IF i = k + 1 THEN last ELSE f[i]]
  <2>2. \A i \in 1 .. k : f[i] = IF i = 1 THEN ss[i] ELSE f[i - 1] \o ss[i]
    BY <2>1 DEF JoinsTo
  <2>3. \A i \in 1 .. k : g[i] = f[i]
    OBVIOUS
  <2>4. g[k + 1] = last
    OBVIOUS
  <2>5. ASSUME NEW i \in 1 .. k + 1
        PROVE  g[i] = IF i = 1 THEN ss[i] ELSE g[i - 1] \o ss[i]
    <3>1. CASE i \in 1 .. k
      <4>1. i # 1 => i - 1 \in 1 .. k
        BY <3>1
      <4> HIDE DEF g
      <4> QED
        BY <2>2, <2>3, <3>1, <4>1
    <3>2. CASE i = k + 1
      <4>1. i # 1 => k \in 1 .. k /\ i - 1 = k
        BY <3>2
      <4> HIDE DEF g
      <4> QED
        BY <2>3, <2>4, <3>2, <4>1
    <3> QED
      BY <3>1, <3>2
  <2>6. g = [i \in 1 .. k + 1 |-> g[i]]
    OBVIOUS
  <2> HIDE DEF g
  <2>7. JoinsTo(g, ss, k + 1)
    BY <2>5, <2>6 DEF JoinsTo
  <2> QED
    BY <2>7
<1>3. \A k \in Nat : k \in T
  <2> HIDE DEF T
  <2> QED
    BY <1>1, <1>2, Induction
<1> QED
  BY <1>3

LEMMA JoinsAt ==
  ASSUME NEW ss, NEW f, NEW n, JoinsTo(f, ss, n), NEW i \in 1 .. n
  PROVE  f[i] = IF i = 1 THEN ss[i] ELSE f[i - 1] \o ss[i]
<1> DEFINE h == [j \in 1 .. n |-> IF j = 1 THEN ss[j] ELSE f[j - 1] \o ss[j]]
<1>1. h[i] = IF i = 1 THEN ss[i] ELSE f[i - 1] \o ss[i]
  OBVIOUS
<1>2. f = h
  BY DEF JoinsTo
<1> HIDE DEF h
<1> QED
  BY <1>1, <1>2

\* Sequences that begin alike are joined alike.
LEMMA JoinsAlike ==
  ASSUME NEW ss, NEW tt, NEW f, NEW g, NEW m \in Nat, NEW n \in Nat, m <= n,
         JoinsTo(f, ss, m), JoinsTo(g, tt, n), \A i \in 1 .. m : tt[i] = ss[i]
  PROVE  \A i \in 1 .. m : f[i] = g[i]
<1> DEFINE T == {k \in Nat : k \in 1 .. m => f[k] = g[k]}
<1>1. 0 \in T
  OBVIOUS
<1>2. ASSUME NEW i \in 1 .. m
      PROVE  /\ f[i] = IF i = 1 THEN ss[i] ELSE f[i - 1] \o ss[i]
             /\ g[i] = IF i = 1 THEN ss[i] ELSE g[i - 1] \o ss[i]
  <2>1. i \in 1 .. n /\ tt[i] = ss[i]
    OBVIOUS
  <2>2. f[i] = IF i = 1 THEN ss[i] ELSE f[i - 1] \o ss[i]
    BY JoinsAt
  <2>3. g[i] = IF i = 1 THEN tt[i] ELSE g[i - 1] \o tt[i]
    BY <2>1, JoinsAt
  <2> QED
    BY <2>1, <2>2, <2>3
<1>3. ASSUME NEW k \in Nat, k \in T
      PROVE  k + 1 \in T
  <2> SUFFICES ASSUME k + 1 \in 1 .. m
               PROVE  f[k + 1] = g[k + 1]
    OBVIOUS
  <2>1. k + 1 # 1 => k \in 1 .. m /\ (k + 1) - 1 = k
    OBVIOUS
  <2>2. k + 1 # 1 => f[k] = g[k]
    BY <1>3, <2>1
  <2> QED
    BY <1>2, <2>1, <2>2
<1>4. \A k \in Nat : k \in T
  <2> HIDE DEF T
  <2> QED
    BY <1>1, <1>3, Induction
<1> QED
  BY <1>4

LEMMA FlattenedNothing == FlattenSeq(<<>>) = <<>>
BY EmptyIsSequence DEF FlattenSeq

\* The function of the library's definition, for a sequence that is not empty.
LEMMA FlattenedIsJoined ==
  ASSUME NEW ss, IsSequence(ss), Len(ss) # 0
  PROVE  \E f : JoinsTo(f, ss, Len(ss)) /\ FlattenSeq(ss) = f[Len(ss)]
<1>1. Len(ss) \in Nat
  BY DEF IsSequence
<1>2. \E f : JoinsTo(f, ss, Len(ss))
  BY <1>1, JoinsUpTo
<1> DEFINE f == CHOOSE f : JoinsTo(f, ss, Len(ss))
<1>3. JoinsTo(f, ss, Len(ss))
  BY <1>2
<1>4. FlattenSeq(ss) = f[Len(ss)]
  BY DEF FlattenSeq, JoinsTo
<1> QED
  BY <1>3, <1>4

\* One more sequence is joined at the end.
LEMMA FlattenedLonger ==
  ASSUME NEW ss, NEW tt, NEW s, NEW n \in Nat, IsSequence(ss), IsSequence(tt), IsSequence(s),
         Len(ss) = n, Len(tt) = n + 1, \A i \in 1 .. n : tt[i] = ss[i], tt[n + 1] = s
  PROVE  FlattenSeq(tt) = FlattenSeq(ss) \o s
<1>1. n + 1 # 0 /\ n + 1 \in Nat /\ n <= n + 1 /\ n + 1 \in 1 .. n + 1 /\ (n + 1) - 1 = n
  OBVIOUS
<1>2. PICK g : JoinsTo(g, tt, n + 1) /\ FlattenSeq(tt) = g[n + 1]
  BY <1>1, FlattenedIsJoined
<1>3. JoinsTo(g, tt, n + 1)
  BY <1>2
<1>4. g[n + 1] = IF n + 1 = 1 THEN tt[n + 1] ELSE g[(n + 1) - 1] \o tt[n + 1]
  <2>1. \A i \in 1 .. n + 1 : g[i] = IF i = 1 THEN tt[i] ELSE g[i - 1] \o tt[i]
    BY <1>3, JoinsAt
  <2> QED
    BY <1>1, <2>1, Zenon
<1>5. CASE n = 0
  <2>1. ss = <<>>
    BY <1>5, NoElements
  <2>2. FlattenSeq(ss) \o s = s
    BY <2>1, FlattenedNothing, JoiningNothing
  <2>3. g[n + 1] = tt[n + 1]
    BY <1>4, <1>5
  <2> QED
    BY <1>2, <2>2, <2>3, Zenon
<1>6. CASE n # 0
  <2>1. PICK f : JoinsTo(f, ss, n) /\ FlattenSeq(ss) = f[n]
    BY <1>6, FlattenedIsJoined
  <2>2. \A i \in 1 .. n : f[i] = g[i]
    <3>1. JoinsTo(f, ss, n)
      BY <2>1
    <3> QED
      BY <1>1, <1>3, <3>1, JoinsAlike
  <2>3. n + 1 # 1 /\ n \in 1 .. n
    BY <1>6
  <2>4. f[n] = g[n]
    BY <2>2, <2>3
  <2>5. g[n + 1] = g[n] \o s
    BY <1>1, <1>4, <2>3, Zenon
  <2> QED
    BY <1>2, <2>1, <2>4, <2>5, Zenon
<1> QED
  BY <1>5, <1>6

LEMMA FlattenedAppend ==
  ASSUME NEW ss, IsSequence(ss), NEW s, IsSequence(s)
  PROVE  FlattenSeq(Append(ss, s)) = FlattenSeq(ss) \o s
<1>1. Len(ss) \in Nat
  BY DEF IsSequence
<1>2. /\ IsSequence(Append(ss, s)) /\ Len(Append(ss, s)) = Len(ss) + 1
      /\ \A i \in 1 .. Len(ss) : Append(ss, s)[i] = ss[i]
      /\ Append(ss, s)[Len(ss) + 1] = s
  BY Pushing
<1> QED
  BY <1>1, <1>2, FlattenedLonger, Zenon

\* What is joined is a sequence, of the elements' elements.
LEMMA FlattenedIsSequence ==
  ASSUME NEW ss, AreSequences(ss)
  PROVE  IsSequence(FlattenSeq(ss))
<1> DEFINE T == {k \in Nat : \A tt : AreSequences(tt) /\ Len(tt) = k => IsSequence(FlattenSeq(tt))}
<1>1. 0 \in T
  <2> SUFFICES ASSUME NEW tt, AreSequences(tt), Len(tt) = 0
               PROVE  IsSequence(FlattenSeq(tt))
    OBVIOUS
  <2>1. tt = <<>>
    BY NoElements DEF AreSequences
  <2> QED
    BY <2>1, FlattenedNothing, EmptyIsSequence
<1>2. ASSUME NEW k \in Nat, k \in T
      PROVE  k + 1 \in T
  <2> SUFFICES ASSUME NEW tt, AreSequences(tt), Len(tt) = k + 1
               PROVE  IsSequence(FlattenSeq(tt))
    OBVIOUS
  <2> DEFINE p == [i \in 1 .. k |-> tt[i]]
  <2>1. IsSequence(p) /\ Len(p) = k /\ tt = Append(p, tt[k + 1])
    BY LastApart DEF AreSequences
  <2>2. IsSequence(tt[k + 1]) /\ \A i \in 1 .. k : IsSequence(p[i])
    BY DEF AreSequences
  <2> HIDE DEF p
  <2>3. AreSequences(p)
    BY <2>1, <2>2 DEF AreSequences
  <2>4. IsSequence(FlattenSeq(p))
    BY <1>2, <2>1, <2>3
  <2>5. FlattenSeq(tt) = FlattenSeq(p) \o tt[k + 1]
    BY <2>1, <2>2, FlattenedAppend
  <2> QED
    BY <2>2, <2>4, <2>5, Joining
<1>3. \A k \in Nat : k \in T
  <2> HIDE DEF T
  <2> QED
    BY <1>1, <1>2, Induction
<1> QED
  BY <1>3 DEF AreSequences, IsSequence

\* Joining both and then flattening is flattening both and then joining.
LEMMA FlattenedJoin ==
  ASSUME NEW ss, NEW tt, AreSequences(ss), AreSequences(tt)
  PROVE  FlattenSeq(ss \o tt) = FlattenSeq(ss) \o FlattenSeq(tt)
<1> DEFINE Joins(uu) == FlattenSeq(ss \o uu) = FlattenSeq(ss) \o FlattenSeq(uu)
           T == {k \in Nat : \A uu : AreSequences(uu) /\ Len(uu) = k => Joins(uu)}
<1>0. IsSequence(ss) /\ IsSequence(FlattenSeq(ss))
  BY FlattenedIsSequence DEF AreSequences
<1>1. 0 \in T
  <2> SUFFICES ASSUME NEW uu, AreSequences(uu), Len(uu) = 0
               PROVE  Joins(uu)
    OBVIOUS
  <2>1. uu = <<>>
    BY NoElements DEF AreSequences
  <2>2. ss \o uu = ss /\ FlattenSeq(ss) \o <<>> = FlattenSeq(ss)
    BY <1>0, <2>1, JoiningNothing
  <2> QED
    BY <2>1, <2>2, FlattenedNothing
<1>2. ASSUME NEW k \in Nat, k \in T
      PROVE  k + 1 \in T
  <2> SUFFICES ASSUME NEW uu, AreSequences(uu), Len(uu) = k + 1
               PROVE  Joins(uu)
    OBVIOUS
  <2> DEFINE p == [i \in 1 .. k |-> uu[i]]
  <2>1. IsSequence(p) /\ Len(p) = k /\ uu = Append(p, uu[k + 1])
    BY LastApart DEF AreSequences
  <2>2. IsSequence(uu[k + 1]) /\ \A i \in 1 .. k : IsSequence(p[i])
    BY DEF AreSequences
  <2> HIDE DEF p
  <2>0. PICK last : last = uu[k + 1]
    OBVIOUS
  <2>3. AreSequences(p)
    BY <2>1, <2>2 DEF AreSequences
  <2>4. FlattenSeq(ss \o p) = FlattenSeq(ss) \o FlattenSeq(p) /\ IsSequence(FlattenSeq(p))
    BY <1>2, <2>1, <2>3, FlattenedIsSequence
  <2>5. FlattenSeq(uu) = FlattenSeq(p) \o last
    BY <2>0, <2>1, <2>2, FlattenedAppend
  <2>6. IsSequence(ss \o p)
    BY <1>0, <2>1, Joining
  <2>7. ss \o uu = Append(ss \o p, last)
    <3> DEFINE e == <<last>>
    <3>1. IsSequence(e) /\ p \o e = uu /\ (ss \o p) \o e = Append(ss \o p, last)
      BY <2>0, <2>1, <2>6, JoiningOne
    <3> HIDE DEF e
    <3>2. (ss \o p) \o e = ss \o (p \o e)
      <4>1. IsSequence(ss) /\ IsSequence(p) /\ IsSequence(e)
        BY <1>0, <2>1, <3>1
      <4> QED
        BY <4>1, JoiningThree
    <3> QED
      BY <3>1, <3>2
  <2>8. FlattenSeq(ss \o uu) = FlattenSeq(ss \o p) \o last
    BY <2>0, <2>2, <2>6, <2>7, FlattenedAppend
  <2>9. (FlattenSeq(ss) \o FlattenSeq(p)) \o last = FlattenSeq(ss) \o (FlattenSeq(p) \o last)
    <3>1. IsSequence(FlattenSeq(ss)) /\ IsSequence(FlattenSeq(p)) /\ IsSequence(last)
      BY <1>0, <2>0, <2>2, <2>4
    <3> QED
      BY <3>1, JoiningThree
  <2> QED
    BY <2>4, <2>5, <2>8, <2>9, Zenon
<1>3. \A k \in Nat : k \in T
  <2> HIDE DEF T
  <2> QED
    BY <1>1, <1>2, Induction
<1>4. Len(tt) \in T /\ AreSequences(tt)
  BY <1>3 DEF AreSequences, IsSequence
<1> QED
  BY <1>4

\* A sequence of the elements of f and then those of g is the two joined.
LEMMA SameParts ==
  ASSUME NEW f, NEW g, NEW h, IsSequence(f), IsSequence(g), IsSequence(h), Len(h) = Len(f) + Len(g),
         \A i \in 1 .. Len(f) : h[i] = f[i], \A i \in 1 .. Len(g) : h[Len(f) + i] = g[i]
  PROVE  h = f \o g
<1>0. PICK m, n : m = Len(f) /\ n = Len(g)
  OBVIOUS
<1>1. /\ m \in Nat /\ n \in Nat /\ IsSequence(f \o g) /\ Len(f \o g) = m + n
      /\ \A i \in 1 .. m : (f \o g)[i] = f[i]
      /\ \A i \in 1 .. n : (f \o g)[m + i] = g[i]
  BY <1>0, Joining DEF IsSequence
<1>2. ASSUME NEW i \in 1 .. m + n
      PROVE  h[i] = (f \o g)[i]
  <2>1. CASE i \in 1 .. m
    BY <1>0, <1>1, <2>1
  <2>2. CASE i \notin 1 .. m
    <3>1. i - m \in 1 .. n /\ m + (i - m) = i
      BY <1>1, <2>2
    <3> QED
      BY <1>0, <1>1, <3>1
  <2> QED
    BY <2>1, <2>2
<1> QED
  BY <1>0, <1>1, <1>2, SameElements

\* Nothing comes of empty sequences, however many there are.
LEMMA FlattenedEmptyOnes ==
  ASSUME NEW ss, IsSequence(ss), \A i \in 1 .. Len(ss) : ss[i] = <<>>
  PROVE  FlattenSeq(ss) = <<>>
<1> DEFINE AllEmpty(tt) == IsSequence(tt) /\ \A i \in 1 .. Len(tt) : tt[i] = <<>>
           T == {k \in Nat : \A tt : AllEmpty(tt) /\ Len(tt) = k => FlattenSeq(tt) = <<>>}
<1>1. 0 \in T
  <2> SUFFICES ASSUME NEW tt, AllEmpty(tt), Len(tt) = 0
               PROVE  FlattenSeq(tt) = <<>>
    OBVIOUS
  <2>1. tt = <<>>
    BY NoElements
  <2> QED
    BY <2>1, FlattenedNothing
<1>2. ASSUME NEW k \in Nat, k \in T
      PROVE  k + 1 \in T
  <2> SUFFICES ASSUME NEW tt, AllEmpty(tt), Len(tt) = k + 1
               PROVE  FlattenSeq(tt) = <<>>
    OBVIOUS
  <2> DEFINE p == [i \in 1 .. k |-> tt[i]]
  <2>1. IsSequence(p) /\ Len(p) = k /\ tt = Append(p, tt[k + 1])
    BY LastApart
  <2>2. tt[k + 1] = <<>> /\ \A i \in 1 .. k : p[i] = <<>>
    OBVIOUS
  <2> HIDE DEF p
  <2>3. FlattenSeq(p) = <<>>
    BY <1>2, <2>1, <2>2
  <2>4. FlattenSeq(tt) = FlattenSeq(p) \o tt[k + 1]
    BY <2>1, <2>2, FlattenedAppend, EmptyIsSequence
  <2> QED
    BY <2>2, <2>3, <2>4, JoiningNothing, EmptyIsSequence
<1>3. \A k \in Nat : k \in T
  <2> HIDE DEF T
  <2> QED
    BY <1>1, <1>2, Induction
<1>4. Len(ss) \in T /\ AllEmpty(ss)
  BY <1>3 DEF IsSequence
<1> QED
  BY <1>4

\* Of the first m + n, those among the first m and those among the next n.
LEMMA NumberOfParts ==
  ASSUME NEW F, NEW G, NEW H, NEW m \in Nat, NEW n \in Nat,
         \A i \in 1 .. m : i \in H <=> i \in F, \A i \in 1 .. n : m + i \in H <=> i \in G
  PROVE  Number(H, m + n) = Number(F, m) + Number(G, n)
<1> DEFINE T == {k \in Nat : k <= n => Number(H, m + k) = Number(F, m) + Number(G, k)}
<1>1. 0 \in T
  <2>1. H \cap 1 .. m = F \cap 1 .. m
    OBVIOUS
  <2>2. Number(H, m) = Number(F, m) /\ Number(F, m) \in Nat /\ Number(G, 0) = 0 /\ m + 0 = m
    BY <2>1, NumberFacts DEF Number
  <2> QED
    BY <2>2
<1>2. ASSUME NEW k \in Nat, k \in T
      PROVE  k + 1 \in T
  <2> SUFFICES ASSUME k + 1 <= n
               PROVE  Number(H, m + (k + 1)) = Number(F, m) + Number(G, k + 1)
    OBVIOUS
  <2>1. k <= n /\ k + 1 \in 1 .. n /\ m + k \in Nat /\ (m + k) + 1 = m + (k + 1)
    OBVIOUS
  <2>2. Number(H, m + k) = Number(F, m) + Number(G, k)
    BY <1>2, <2>1
  <2>3. Number(G, k) \in Nat /\ Number(G, k + 1) = Number(G, k) + IF k + 1 \in G THEN 1 ELSE 0
    BY NumberFacts
  <2>4. Number(H, (m + k) + 1) = Number(H, m + k) + IF (m + k) + 1 \in H THEN 1 ELSE 0
    BY <2>1, NumberFacts
  <2>5. m + (k + 1) \in H <=> k + 1 \in G
    BY <2>1
  <2>6. Number(F, m) \in Nat
    BY NumberFacts
  <2> QED
    BY <2>1, <2>2, <2>3, <2>4, <2>5, <2>6
<1>3. \A k \in Nat : k \in T
  <2> HIDE DEF T
  <2> QED
    BY <1>1, <1>2, Induction
<1> QED
  BY <1>3
=============================================================================
