-------------------------- MODULE ConfigParserProofs --------------------------
(***************************************************************************)
(* What is proved of the config parser for every document, include and     *)
(* merge algebra: type correctness, that array_count and path_stack follow *)
(* the nesting, so that += is refused exactly inside lists and +=, and     *)
(* that fields and elements get the comments that belong to them.          *)
(***************************************************************************)
EXTENDS ConfigParser, StackProofs

-----------------------------------------------------------------------------
(***************************************************************************)
(* Nesting, for any stack: what array_count and path_stack are, and the    *)
(* array_count every frame has noted.                                      *)
(***************************************************************************)
ListFrames(s)  == {i \in 1 .. Len(s) : Counts(s[i])}
FieldFrames(s) == {i \in 1 .. Len(s) : AtField(s[i])}
AppendsTo(f)   == f.field.stage = "value" /\ f.field.append

Nesting(s, lists, paths) ==
  /\ \A i \in 1 .. Len(s) : s[i].start = Number(ListFrames(s), i - 1)
  /\ lists = Number(ListFrames(s), Len(s))
  /\ Len(paths) = Number(FieldFrames(s), Len(s))
  /\ \A i \in 1 .. Len(s) :
       AtField(s[i]) => paths[Number(FieldFrames(s), i)] = s[i].field.path
  /\ \A i, j \in 1 .. Len(s) : i < j /\ Counts(s[i]) => ~AppendsTo(s[j])

\* Where two stacks agree, so do the numbers.
LEMMA Agreeing ==
  ASSUME NEW s, NEW t, NEW k \in Nat, k <= Len(s), k <= Len(t), Len(s) \in Nat, Len(t) \in Nat,
         \A i \in 1 .. k : t[i] = s[i]
  PROVE  \A i \in 0 .. k : /\ Number(ListFrames(t), i) = Number(ListFrames(s), i)
                           /\ Number(FieldFrames(t), i) = Number(FieldFrames(s), i)
<1> SUFFICES ASSUME NEW i \in 0 .. k
             PROVE  /\ Number(ListFrames(t), i) = Number(ListFrames(s), i)
                    /\ Number(FieldFrames(t), i) = Number(FieldFrames(s), i)
  OBVIOUS
<1>1. ListFrames(t) \cap 1 .. i = ListFrames(s) \cap 1 .. i
  BY DEF ListFrames
<1>2. FieldFrames(t) \cap 1 .. i = FieldFrames(s) \cap 1 .. i
  BY DEF FieldFrames
<1> QED
  BY <1>1, <1>2 DEF Number

\* The numbers at the top, from those below it.
LEMMA AtTop ==
  ASSUME NEW s, Len(s) \in Nat \ {0}
  PROVE  /\ Number(ListFrames(s), Len(s) - 1) \in Nat
         /\ Number(FieldFrames(s), Len(s) - 1) \in Nat
         /\ Number(ListFrames(s), Len(s))
              = Number(ListFrames(s), Len(s) - 1) + IF Counts(s[Len(s)]) THEN 1 ELSE 0
         /\ Number(FieldFrames(s), Len(s))
              = Number(FieldFrames(s), Len(s) - 1) + IF AtField(s[Len(s)]) THEN 1 ELSE 0
<1>1. Len(s) - 1 \in Nat /\ (Len(s) - 1) + 1 = Len(s)
  OBVIOUS
<1>2. Len(s) \in ListFrames(s) <=> Counts(s[Len(s)])
  BY DEF ListFrames
<1>3. Len(s) \in FieldFrames(s) <=> AtField(s[Len(s)])
  BY DEF FieldFrames
<1>4. /\ Number(ListFrames(s), Len(s) - 1) \in Nat
      /\ Number(ListFrames(s), (Len(s) - 1) + 1)
           = Number(ListFrames(s), Len(s) - 1) + IF (Len(s) - 1) + 1 \in ListFrames(s) THEN 1 ELSE 0
  BY <1>1, NumberFacts
<1>5. /\ Number(FieldFrames(s), Len(s) - 1) \in Nat
      /\ Number(FieldFrames(s), (Len(s) - 1) + 1)
           = Number(FieldFrames(s), Len(s) - 1) + IF (Len(s) - 1) + 1 \in FieldFrames(s) THEN 1 ELSE 0
  BY <1>1, NumberFacts
<1> QED
  BY <1>1, <1>2, <1>3, <1>4, <1>5

One(P) == IF P THEN 1 ELSE 0

\* Changing the top: the numbers below it stay.
LEMMA TopNumbers ==
  ASSUME NEW s, IsSequence(s), s # <<>>, NEW f, NEW t, t = Retopped(s, f)
  PROVE  /\ IsSequence(t) /\ Len(t) = Len(s) /\ Len(s) \in Nat \ {0}
         /\ t[Len(s)] = f /\ \A i \in 1 .. Len(s) - 1 : t[i] = s[i]
         /\ \A i \in 0 .. Len(s) - 1 : /\ Number(ListFrames(t), i) = Number(ListFrames(s), i)
                                      /\ Number(FieldFrames(t), i) = Number(FieldFrames(s), i)
         /\ Number(ListFrames(t), Len(s)) = Number(ListFrames(s), Len(s) - 1) + One(Counts(f))
         /\ Number(FieldFrames(t), Len(s)) = Number(FieldFrames(s), Len(s) - 1) + One(AtField(f))
<1>1. /\ IsSequence(t) /\ Len(t) = Len(s)
      /\ t[Len(s)] = f /\ \A i \in 1 .. Len(s) - 1 : t[i] = s[i]
  BY ChangingTop
<1>2. Len(s) \in Nat \ {0}
  BY Popping
<1>3. \A i \in 0 .. Len(s) - 1 : /\ Number(ListFrames(t), i) = Number(ListFrames(s), i)
                                /\ Number(FieldFrames(t), i) = Number(FieldFrames(s), i)
  BY <1>1, <1>2, Agreeing
<1>4. Len(s) - 1 \in 0 .. Len(s) - 1
  BY <1>2
<1>5. /\ Number(ListFrames(t), Len(t))
           = Number(ListFrames(t), Len(t) - 1) + IF Counts(t[Len(t)]) THEN 1 ELSE 0
      /\ Number(FieldFrames(t), Len(t))
           = Number(FieldFrames(t), Len(t) - 1) + IF AtField(t[Len(t)]) THEN 1 ELSE 0
  BY <1>1, <1>2, AtTop
<1> QED
  BY <1>1, <1>2, <1>3, <1>4, <1>5 DEF One

\* A frame that counts is counted by the number of every frame above it.
LEMMA NothingCounts ==
  ASSUME NEW s, NEW k \in Nat, k <= Len(s), Len(s) \in Nat, Number(ListFrames(s), k) = 0
  PROVE  \A i \in 1 .. k : ~Counts(s[i])
<1> SUFFICES ASSUME NEW i \in 1 .. k, Counts(s[i])
             PROVE  FALSE
  OBVIOUS
<1>1. i \in ListFrames(s)
  BY DEF ListFrames
<1>2. Number(ListFrames(s), i) <= Number(ListFrames(s), k) /\ Number(ListFrames(s), i) >= 1
  BY <1>1, NumberGrows
<1>3. i \in Nat
  OBVIOUS
<1>4. Number(ListFrames(s), i) \in Nat
  BY <1>3, NumberFacts
<1> QED
  BY <1>2, <1>4

\* The top changes, and array_count and path_stack with it.
LEMMA NestingRetopped ==
  ASSUME NEW s, IsSequence(s), s # <<>>, NEW l, NEW p, Nesting(s, l, p), NEW f, NEW l2, NEW p2,
         f.start = s[Len(s)].start,
         l2 = Number(ListFrames(s), Len(s) - 1) + One(Counts(f)),
         Len(p2) = Number(FieldFrames(s), Len(s) - 1) + One(AtField(f)),
         \A i \in 1 .. Number(FieldFrames(s), Len(s) - 1) : p2[i] = p[i],
         AtField(f) => p2[Number(FieldFrames(s), Len(s) - 1) + 1] = f.field.path,
         AppendsTo(f) => AppendsTo(s[Len(s)]) \/ Number(ListFrames(s), Len(s) - 1) = 0
  PROVE  Nesting(Retopped(s, f), l2, p2)
<1> DEFINE n == Len(s)
           t == Retopped(s, f)
<1>1. /\ IsSequence(t) /\ Len(t) = n /\ n \in Nat \ {0}
      /\ t[n] = f /\ \A i \in 1 .. n - 1 : t[i] = s[i]
      /\ \A i \in 0 .. n - 1 : /\ Number(ListFrames(t), i) = Number(ListFrames(s), i)
                              /\ Number(FieldFrames(t), i) = Number(FieldFrames(s), i)
      /\ Number(ListFrames(t), n) = Number(ListFrames(s), n - 1) + One(Counts(f))
      /\ Number(FieldFrames(t), n) = Number(FieldFrames(s), n - 1) + One(AtField(f))
  BY TopNumbers
<1> HIDE DEF t
<1>2. ASSUME NEW i \in 1 .. n
      PROVE  t[i].start = Number(ListFrames(t), i - 1)
  <2>1. s[i].start = Number(ListFrames(s), i - 1)
    BY DEF Nesting
  <2>2. i - 1 \in 0 .. n - 1 /\ (i = n \/ i \in 1 .. n - 1)
    BY <1>1
  <2> QED
    BY <1>1, <2>1, <2>2
<1>3. ASSUME NEW i \in 1 .. n, AtField(t[i])
      PROVE  p2[Number(FieldFrames(t), i)] = t[i].field.path
  <2>1. CASE i = n
    BY <1>1, <1>3, <2>1 DEF One
  <2>2. CASE i \in 1 .. n - 1
    <3>1. t[i] = s[i] /\ Number(FieldFrames(t), i) = Number(FieldFrames(s), i)
      BY <1>1, <2>2
    <3>2. p[Number(FieldFrames(s), i)] = s[i].field.path
      BY <1>3, <3>1 DEF Nesting
    <3>3. i \in FieldFrames(s) /\ n - 1 \in Nat /\ i \in Nat
      BY <1>1, <1>3, <2>2, <3>1 DEF FieldFrames
    <3>4. /\ Number(FieldFrames(s), i) <= Number(FieldFrames(s), n - 1)
          /\ Number(FieldFrames(s), i) >= 1
      BY <2>2, <3>3, NumberGrows
    <3>5. Number(FieldFrames(s), i) \in Nat /\ Number(FieldFrames(s), n - 1) \in Nat
      <4>1. \A k \in Nat : Number(FieldFrames(s), k) \in Nat
        BY NumberFacts
      <4> QED
        BY <3>3, <4>1
    <3>6. Number(FieldFrames(s), i) \in 1 .. Number(FieldFrames(s), n - 1)
      BY <3>4, <3>5
    <3>7. p2[Number(FieldFrames(s), i)] = p[Number(FieldFrames(s), i)]
      BY <3>6
    <3>8. p2[Number(FieldFrames(t), i)] = s[i].field.path
      BY <3>1, <3>2, <3>7
    <3> QED
      BY <3>1, <3>8
  <2> QED
    BY <1>1, <2>1, <2>2
<1>4. ASSUME NEW i \in 1 .. n, NEW j \in 1 .. n, i < j, Counts(t[i]), AppendsTo(t[j])
      PROVE  FALSE
  <2>1. i \in 1 .. n - 1 /\ t[i] = s[i] /\ (j = n \/ j \in 1 .. n - 1)
    BY <1>1, <1>4
  <2>2. CASE AppendsTo(s[j])
    BY <1>4, <2>1, <2>2 DEF Nesting
  <2>3. CASE ~AppendsTo(s[j])
    <3>1. j = n /\ Number(ListFrames(s), n - 1) = 0
      BY <1>1, <1>4, <2>1, <2>3
    <3>2. n - 1 \in Nat /\ n - 1 <= Len(s) /\ Len(s) \in Nat
      BY <1>1
    <3>3. ~Counts(s[i])
      BY <2>1, <3>1, <3>2, NothingCounts
    <3> QED
      BY <1>4, <2>1, <3>3
  <2> QED
    BY <2>2, <2>3
<1> QED
  BY <1>1, <1>2, <1>3, <1>4 DEF Nesting, t

\* A frame that changes without leaving or entering a field.
Alike(f, g) == IsFrame(g) /\ g.fn = f.fn /\ g.start = f.start /\ g.field = f.field

LEMMA NestingAlike ==
  ASSUME NEW s, IsSequence(s), s # <<>>, NEW l, NEW p, Nesting(s, l, p), NEW f,
         Alike(s[Len(s)], f)
  PROVE  Nesting(Retopped(s, f), l, p)
<1>1. Len(s) \in Nat \ {0}
  BY Popping
<1>2. /\ Number(ListFrames(s), Len(s))
           = Number(ListFrames(s), Len(s) - 1) + One(Counts(s[Len(s)]))
      /\ Number(FieldFrames(s), Len(s))
           = Number(FieldFrames(s), Len(s) - 1) + One(AtField(s[Len(s)]))
  BY <1>1, AtTop DEF One
<1>3. /\ Counts(f) <=> Counts(s[Len(s)])
      /\ AtField(f) <=> AtField(s[Len(s)])
      /\ AppendsTo(f) <=> AppendsTo(s[Len(s)])
      /\ f.field.path = s[Len(s)].field.path /\ f.start = s[Len(s)].start
  BY DEF Alike, Counts, AtField, AppendsTo
<1>4. One(Counts(f)) = One(Counts(s[Len(s)])) /\ One(AtField(f)) = One(AtField(s[Len(s)]))
  BY <1>3 DEF One
<1>5. Len(s) \in 1 .. Len(s) /\ Number(FieldFrames(s), Len(s) - 1) \in Nat
  BY <1>1, AtTop
<1>6. l = Number(ListFrames(s), Len(s)) /\ Len(p) = Number(FieldFrames(s), Len(s))
  BY DEF Nesting
<1>7. AtField(s[Len(s)]) => p[Number(FieldFrames(s), Len(s))] = s[Len(s)].field.path
  BY <1>5 DEF Nesting
<1>8. AtField(f) => p[Number(FieldFrames(s), Len(s) - 1) + 1] = f.field.path
  BY <1>2, <1>3, <1>7 DEF One
<1> QED
  BY <1>2, <1>3, <1>4, <1>6, <1>8, NestingRetopped

\* The field begins: its path is pushed, and += is counted where nothing else is.
LEMMA NestingField ==
  ASSUME NEW s, IsSequence(s), s # <<>>, NEW l, NEW p, IsSequence(p), Nesting(s, l, p), NEW f,
         IsFrame(s[Len(s)]), s[Len(s)].fn = "object", ~AtField(s[Len(s)]),
         f.fn = "object", f.start = s[Len(s)].start, f.field.stage = "value",
         f.field.append => l = 0
  PROVE  Nesting(Retopped(s, f), l + One(f.field.append), Append(p, f.field.path))
<1>1. Len(s) \in Nat \ {0}
  BY Popping
<1>2. ~Counts(s[Len(s)])
  BY DEF Counts, AtField
<1>3. /\ Number(ListFrames(s), Len(s)) = Number(ListFrames(s), Len(s) - 1)
      /\ Number(FieldFrames(s), Len(s)) = Number(FieldFrames(s), Len(s) - 1)
      /\ Number(ListFrames(s), Len(s) - 1) \in Nat
      /\ Number(FieldFrames(s), Len(s) - 1) \in Nat
  BY <1>1, <1>2, AtTop
<1>4. l = Number(ListFrames(s), Len(s) - 1) /\ Len(p) = Number(FieldFrames(s), Len(s) - 1)
  BY <1>3 DEF Nesting
<1>5. /\ Counts(f) <=> f.field.append
      /\ AtField(f)
      /\ AppendsTo(f) <=> f.field.append
  BY DEF Counts, AtField, AppendsTo
<1>6. One(Counts(f)) = One(f.field.append) /\ One(AtField(f)) = 1
  BY <1>5 DEF One
<1>7. /\ Len(Append(p, f.field.path)) = Len(p) + 1
      /\ \A i \in 1 .. Len(p) : Append(p, f.field.path)[i] = p[i]
      /\ Append(p, f.field.path)[Len(p) + 1] = f.field.path
  BY Pushing
<1> QED
  BY <1>4, <1>5, <1>6, <1>7, NestingRetopped

\* The value of the field is there: += is not counted any more.
LEMMA NestingValue ==
  ASSUME NEW s, IsSequence(s), s # <<>>, NEW l, NEW p, Nesting(s, l, p), NEW f,
         s[Len(s)].fn = "object", s[Len(s)].field.stage = "value",
         f.fn = "object", f.start = s[Len(s)].start, f.field.stage = "trailing",
         f.field.path = s[Len(s)].field.path
  PROVE  Nesting(Retopped(s, f), l - One(s[Len(s)].field.append), p)
<1>1. Len(s) \in Nat \ {0}
  BY Popping
<1>2. /\ Counts(s[Len(s)]) <=> s[Len(s)].field.append
      /\ AtField(s[Len(s)]) /\ AtField(f) /\ ~Counts(f) /\ ~AppendsTo(f)
  BY DEF Counts, AtField, AppendsTo
<1>3. /\ Number(ListFrames(s), Len(s))
           = Number(ListFrames(s), Len(s) - 1) + One(s[Len(s)].field.append)
      /\ Number(FieldFrames(s), Len(s)) = Number(FieldFrames(s), Len(s) - 1) + 1
      /\ Number(ListFrames(s), Len(s) - 1) \in Nat
      /\ Number(FieldFrames(s), Len(s) - 1) \in Nat
  BY <1>1, <1>2, AtTop DEF One
<1>4. l = Number(ListFrames(s), Len(s)) /\ Len(p) = Number(FieldFrames(s), Len(s))
  BY DEF Nesting
<1>5. p[Number(FieldFrames(s), Len(s))] = f.field.path
  BY <1>1, <1>2 DEF Nesting
<1>6. One(Counts(f)) = 0 /\ One(AtField(f)) = 1
  BY <1>2 DEF One
<1>7. l - One(s[Len(s)].field.append) = Number(ListFrames(s), Len(s) - 1) + One(Counts(f))
  BY <1>3, <1>4, <1>6 DEF One
<1>8. /\ Len(p) = Number(FieldFrames(s), Len(s) - 1) + One(AtField(f))
      /\ p[Number(FieldFrames(s), Len(s) - 1) + 1] = f.field.path
  BY <1>3, <1>4, <1>5, <1>6
<1> QED
  BY <1>2, <1>7, <1>8, NestingRetopped

\* The field is done: its path is popped.
LEMMA NestingLeft ==
  ASSUME NEW s, IsSequence(s), s # <<>>, NEW l, NEW p, IsSequence(p), Nesting(s, l, p), NEW f,
         s[Len(s)].fn = "object", s[Len(s)].field.stage = "trailing",
         f.fn = "object", f.start = s[Len(s)].start, f.field.stage = "none"
  PROVE  p # <<>> /\ Nesting(Retopped(s, f), l, Popped(p))
<1>1. Len(s) \in Nat \ {0}
  BY Popping
<1>2. /\ ~Counts(s[Len(s)]) /\ AtField(s[Len(s)])
      /\ ~AtField(f) /\ ~Counts(f) /\ ~AppendsTo(f)
  BY DEF Counts, AtField, AppendsTo
<1>3. /\ Number(ListFrames(s), Len(s)) = Number(ListFrames(s), Len(s) - 1)
      /\ Number(FieldFrames(s), Len(s)) = Number(FieldFrames(s), Len(s) - 1) + 1
      /\ Number(ListFrames(s), Len(s) - 1) \in Nat
      /\ Number(FieldFrames(s), Len(s) - 1) \in Nat
  BY <1>1, <1>2, AtTop
<1>4. l = Number(ListFrames(s), Len(s)) /\ Len(p) = Number(FieldFrames(s), Len(s))
  BY DEF Nesting
<1>5. One(Counts(f)) = 0 /\ One(AtField(f)) = 0
  BY <1>2 DEF One
<1>6. p # <<>>
  BY <1>3, <1>4, EmptyIsSequence
<1>7. Len(Popped(p)) = Len(p) - 1 /\ \A i \in 1 .. Len(p) - 1 : Popped(p)[i] = p[i]
  BY <1>6, Popping
<1>8. /\ Len(Popped(p)) = Number(FieldFrames(s), Len(s) - 1) + One(AtField(f))
      /\ \A i \in 1 .. Number(FieldFrames(s), Len(s) - 1) : Popped(p)[i] = p[i]
      /\ l = Number(ListFrames(s), Len(s) - 1) + One(Counts(f))
  BY <1>3, <1>4, <1>5, <1>7
<1> QED
  BY <1>2, <1>6, <1>8, NestingRetopped

\* A function is called: it notes array_count, which a list then raises.
LEMMA NestingPushed ==
  ASSUME NEW s, IsSequence(s), NEW l, NEW p, Nesting(s, l, p), NEW f,
         f.start = l, f.field.stage = "none"
  PROVE  Nesting(Append(s, f), l + One(f.fn = "array"), p)
<1> DEFINE n == Len(s)
           t == Append(s, f)
<1>1. /\ IsSequence(t) /\ Len(t) = n + 1 /\ n \in Nat
      /\ t[n + 1] = f /\ \A i \in 1 .. n : t[i] = s[i]
  BY Pushing DEF IsSequence
<1> HIDE DEF t
<1>2. \A i \in 0 .. n : /\ Number(ListFrames(t), i) = Number(ListFrames(s), i)
                       /\ Number(FieldFrames(t), i) = Number(FieldFrames(s), i)
  BY <1>1, Agreeing
<1>3. (Counts(f) <=> f.fn = "array") /\ ~AtField(f) /\ ~AppendsTo(f)
  BY DEF Counts, AtField, AppendsTo
<1>4. /\ Number(ListFrames(t), Len(t))
           = Number(ListFrames(t), Len(t) - 1) + IF Counts(t[Len(t)]) THEN 1 ELSE 0
      /\ Number(FieldFrames(t), Len(t))
           = Number(FieldFrames(t), Len(t) - 1) + IF AtField(t[Len(t)]) THEN 1 ELSE 0
      /\ Number(FieldFrames(t), Len(t) - 1) \in Nat
  <2>1. Len(t) \in Nat \ {0}
    BY <1>1
  <2> QED
    BY <2>1, AtTop
<1>5. n \in 0 .. n /\ Len(t) - 1 = n
  BY <1>1
<1>6. l = Number(ListFrames(s), n) /\ Len(p) = Number(FieldFrames(s), n)
  BY DEF Nesting
<1>7. /\ l + One(f.fn = "array") = Number(ListFrames(t), Len(t))
      /\ Len(p) = Number(FieldFrames(t), Len(t))
  BY <1>1, <1>2, <1>3, <1>4, <1>5, <1>6 DEF One
<1>8. ASSUME NEW i \in 1 .. Len(t)
      PROVE  i = n + 1 \/ (i \in 1 .. n /\ i \in 0 .. n /\ i - 1 \in 0 .. n /\ t[i] = s[i])
  BY <1>1
<1>9. ASSUME NEW i \in 1 .. Len(t)
      PROVE  t[i].start = Number(ListFrames(t), i - 1)
  <2>1. CASE i = n + 1
    BY <1>1, <1>2, <1>5, <1>6, <2>1
  <2>2. CASE i \in 1 .. n
    <3>1. s[i].start = Number(ListFrames(s), i - 1)
      BY <2>2 DEF Nesting
    <3> QED
      BY <1>1, <1>2, <1>8, <2>2, <3>1
  <2> QED
    BY <1>8, <2>1, <2>2
<1>10. ASSUME NEW i \in 1 .. Len(t), AtField(t[i])
       PROVE  p[Number(FieldFrames(t), i)] = t[i].field.path
  <2>1. i \in 1 .. n /\ t[i] = s[i] /\ i \in 0 .. n
    BY <1>1, <1>3, <1>8, <1>10
  <2>2. p[Number(FieldFrames(s), i)] = s[i].field.path
    BY <1>10, <2>1 DEF Nesting
  <2> QED
    BY <1>2, <2>1, <2>2
<1>11. ASSUME NEW i \in 1 .. Len(t), NEW j \in 1 .. Len(t), i < j, Counts(t[i]), AppendsTo(t[j])
       PROVE  FALSE
  <2>1. j # n + 1
    BY <1>1, <1>3, <1>11
  <2>2. i # n + 1
    BY <1>1, <1>11
  <2>3. i \in 1 .. n /\ j \in 1 .. n /\ t[i] = s[i] /\ t[j] = s[j]
    BY <1>8, <2>1, <2>2
  <2> QED
    BY <1>11, <2>3 DEF Nesting
<1> QED
  BY <1>7, <1>9, <1>10, <1>11 DEF Nesting, t

\* A function returns: array_count, less one for a list, is what it noted.
LEMMA NestingPopped ==
  ASSUME NEW s, IsSequence(s), s # <<>>, NEW l, NEW p, Nesting(s, l, p),
         s[Len(s)].field.stage = "none"
  PROVE  /\ Nesting(Popped(s), l - One(s[Len(s)].fn = "array"), p)
         /\ s[Len(s)].start = l - One(s[Len(s)].fn = "array")
<1> DEFINE n == Len(s)
           t == Popped(s)
<1>1. /\ IsSequence(t) /\ Len(t) = n - 1 /\ n \in Nat \ {0}
      /\ \A i \in 1 .. n - 1 : t[i] = s[i]
  BY Popping
<1> HIDE DEF t
<1>2. \A i \in 0 .. n - 1 : /\ Number(ListFrames(t), i) = Number(ListFrames(s), i)
                           /\ Number(FieldFrames(t), i) = Number(FieldFrames(s), i)
  <2>1. n - 1 \in Nat /\ n - 1 <= Len(s) /\ n - 1 <= Len(t) /\ Len(s) \in Nat /\ Len(t) \in Nat
    BY <1>1
  <2>2. \A i \in 1 .. n - 1 : t[i] = s[i]
    BY <1>1
  <2> HIDE DEF n
  <2> QED
    BY <2>1, <2>2, Agreeing
<1>3. (Counts(s[n]) <=> s[n].fn = "array") /\ ~AtField(s[n])
  BY DEF Counts, AtField
<1>4. /\ Number(ListFrames(s), n) = Number(ListFrames(s), n - 1) + One(s[n].fn = "array")
      /\ Number(FieldFrames(s), n) = Number(FieldFrames(s), n - 1)
      /\ Number(FieldFrames(s), n - 1) \in Nat /\ Number(ListFrames(s), n - 1) \in Nat
  BY <1>1, <1>3, AtTop DEF One
<1>5. n - 1 \in 0 .. n - 1 /\ n \in 1 .. n
  BY <1>1
<1>6. /\ l = Number(ListFrames(s), n) /\ Len(p) = Number(FieldFrames(s), n)
      /\ s[n].start = Number(ListFrames(s), n - 1)
  BY <1>5 DEF Nesting
<1>7. l - One(s[n].fn = "array") = Number(ListFrames(s), n - 1)
  BY <1>4, <1>6 DEF One
<1>8. /\ l - One(s[n].fn = "array") = Number(ListFrames(t), Len(t))
      /\ Len(p) = Number(FieldFrames(t), Len(t))
  BY <1>1, <1>2, <1>4, <1>5, <1>6, <1>7
<1>9. ASSUME NEW i \in 1 .. Len(t)
      PROVE  i \in 1 .. n /\ i \in 0 .. n - 1 /\ i - 1 \in 0 .. n - 1 /\ t[i] = s[i]
  BY <1>1
<1>10. \A i \in 1 .. Len(t) : t[i].start = Number(ListFrames(t), i - 1)
  BY <1>2, <1>9 DEF Nesting
<1>11. \A i \in 1 .. Len(t) : AtField(t[i]) => p[Number(FieldFrames(t), i)] = t[i].field.path
  BY <1>2, <1>9 DEF Nesting
<1>12. \A i, j \in 1 .. Len(t) : i < j /\ Counts(t[i]) => ~AppendsTo(t[j])
  BY <1>9 DEF Nesting
<1> QED
  BY <1>6, <1>7, <1>8, <1>10, <1>11, <1>12 DEF Nesting, t

-----------------------------------------------------------------------------
(***************************************************************************)
(* The inductive invariant.  Nesting needs to know of every frame that it  *)
(* is not left at a field by whatever is called from it: only the object   *)
(* at the top can be between fields or at the end of one.                  *)
(***************************************************************************)
Fits(op, f) ==
  f.fn = "object" => /\ op \in {"value", "parse"} => f.field.stage = "value"
                     /\ op \in {"next", "node"} => f.field.stage # "value"

Control ==
  /\ stack[1].fn = "document"
  /\ \A i \in 1 .. Len(stack) : i > 1 => stack[i].fn # "document"
  /\ \A i \in 1 .. Len(stack) : i < Len(stack) => Fits("parse", stack[i])
  /\ Fits(ctl.op, Top)

NestingInv == ctl.op # "throw" => Nesting(stack, array_count, path_stack)

Inv == TypeOK /\ Control /\ NestingInv /\ Balanced

Ops == {"next", "node", "parse", "value", "throw", "done"}

LEMMA TopFacts ==
  ASSUME TypeOK
  PROVE  /\ Len(stack) \in Nat \ {0} /\ DOMAIN stack = 1 .. Len(stack)
         /\ IsFrame(Top) /\ Top = stack[Len(stack)]
<1>1. Len(stack) \in Nat \ {0} /\ DOMAIN stack = 1 .. Len(stack)
  BY Popping DEF TypeOK
<1>2. Len(stack) \in DOMAIN stack
  BY <1>1
<1> QED
  BY <1>1, <1>2 DEF TypeOK, Top

\* A step that leaves the frames alone.
LEMMA SameFrames ==
  ASSUME Inv, UNCHANGED <<stack, array_count, path_stack>>, ctl.op # "throw", ctl'.op \in Ops,
         ctl'.op = "throw" => ctl'.kind # "bug", Fits(ctl'.op, Top)
  PROVE  Inv'
<1>1. TypeOK'
  BY DEF Inv, TypeOK, Ops
<1>2. Control'
  BY DEF Inv, Control, Top
<1>3. NestingInv' /\ Balanced'
  BY DEF Inv, NestingInv, Balanced
<1> QED
  BY <1>1, <1>2, <1>3 DEF Inv

\* A step that changes the top.
LEMMA FrameChanges ==
  ASSUME Inv, NEW f, SetTop(f), IsFrame(f), f.fn = Top.fn,
         array_count' \in Int, IsSequence(path_stack'), ctl'.op \in Ops,
         ctl'.op = "throw" => ctl'.kind # "bug", Fits(ctl'.op, f),
         ctl'.op # "throw" => Nesting(Retopped(stack, f), array_count', path_stack')
  PROVE  Inv'
<1>1. /\ IsSequence(stack') /\ Len(stack') = Len(stack) /\ stack'[Len(stack)] = f
      /\ \A i \in 1 .. Len(stack) - 1 : stack'[i] = stack[i]
      /\ DOMAIN stack' = DOMAIN stack /\ stack' = Retopped(stack, f)
  <2>1. IsSequence(stack) /\ stack # <<>> /\ stack' = Retopped(stack, f)
    BY DEF SetTop, Inv, TypeOK
  <2> QED
    BY <2>1, ChangingTop
<1>2. Len(stack) \in Nat \ {0} /\ DOMAIN stack = 1 .. Len(stack) /\ Top = stack[Len(stack)]
  BY TopFacts DEF Inv
<1>3. ASSUME NEW i \in 1 .. Len(stack)
      PROVE  (i = Len(stack) /\ ~(i < Len(stack))) \/ (i \in 1 .. Len(stack) - 1 /\ i < Len(stack))
  <2>1. Len(stack) \in Nat
    BY <1>2
  <2> QED
    BY <2>1
<1>4. TypeOK'
  <2>1. stack' # <<>>
    BY <1>1, <1>2, EmptyIsSequence
  <2>2. \A i \in DOMAIN stack' : IsFrame(stack'[i])
    BY <1>1, <1>2, <1>3 DEF Inv, TypeOK
  <2> QED
    BY <1>1, <2>1, <2>2 DEF TypeOK, Ops
<1>5. Control'
  <2>1. stack'[1].fn = "document"
    <3>1. 1 \in 1 .. Len(stack)
      BY <1>2
    <3> QED
      BY <1>1, <1>2, <1>3, <3>1 DEF Inv, Control
  <2>2. \A i \in 1 .. Len(stack) : i > 1 => stack'[i].fn # "document"
    BY <1>1, <1>2, <1>3 DEF Inv, Control
  <2>3. \A i \in 1 .. Len(stack) : i < Len(stack) => Fits("parse", stack'[i])
    BY <1>1, <1>3 DEF Inv, Control
  <2>4. Top' = f
    BY <1>1 DEF Top
  <2> QED
    BY <1>1, <2>1, <2>2, <2>3, <2>4 DEF Control
<1>6. NestingInv' /\ Balanced'
  BY <1>1 DEF NestingInv, Balanced
<1> QED
  BY <1>4, <1>5, <1>6 DEF Inv

\* The same where the frame keeps its field, and so nothing else changes.
LEMMA FrameAlike ==
  ASSUME Inv, NEW f, SetTop(f), Alike(Top, f), UNCHANGED <<array_count, path_stack>>,
         ctl.op # "throw", ctl'.op \in Ops, ctl'.op = "throw" => ctl'.kind # "bug",
         Fits(ctl'.op, Top)
  PROVE  Inv'
<1>1. /\ IsSequence(stack) /\ stack # <<>> /\ Top = stack[Len(stack)]
      /\ Nesting(stack, array_count, path_stack)
      /\ array_count \in Int /\ IsSequence(path_stack)
  BY TopFacts DEF Inv, TypeOK, NestingInv
<1>2. Nesting(Retopped(stack, f), array_count, path_stack)
  BY <1>1, NestingAlike
<1>3. IsFrame(f) /\ f.fn = Top.fn /\ Fits(ctl'.op, f)
  BY DEF Alike, Fits
<1> QED
  BY <1>1, <1>2, <1>3, FrameChanges

\* The value is an object, a list or a concatenation: its function is called.
LEMMA FramePushed ==
  ASSUME Inv, ctl.op = "parse", NEW fn \in Functions \ {"document"}, NEW values,
         stack' = Append(stack, Frame(fn, values, array_count)), ctl' = NextChild,
         array_count' = array_count + One(fn = "array"), UNCHANGED path_stack
  PROVE  Inv'
<1> DEFINE f == Frame(fn, values, array_count)
<1>1. IsFrame(f) /\ f.fn = fn /\ f.start = array_count /\ f.field.stage = "none"
  BY DEF IsFrame, Frame, NoField, Inv, TypeOK, Functions
<1> HIDE DEF f
<1>2. /\ IsSequence(stack) /\ array_count \in Int /\ IsSequence(path_stack)
      /\ stack' = Append(stack, f)
      /\ Nesting(stack, array_count, path_stack)
  BY DEF f, Inv, TypeOK, NestingInv
<1>3. /\ IsSequence(stack') /\ Len(stack') = Len(stack) + 1 /\ stack'[Len(stack) + 1] = f
      /\ \A i \in 1 .. Len(stack) : stack'[i] = stack[i]
      /\ DOMAIN stack' = 1 .. Len(stack) + 1
  BY <1>2, Pushing
<1>4. Len(stack) \in Nat \ {0} /\ DOMAIN stack = 1 .. Len(stack) /\ Top = stack[Len(stack)]
  BY TopFacts DEF Inv
<1>5. ASSUME NEW i \in 1 .. Len(stack) + 1
      PROVE  i = Len(stack) + 1 \/ (i \in 1 .. Len(stack) /\ (i < Len(stack) \/ i = Len(stack)))
  <2>1. Len(stack) \in Nat
    BY <1>4
  <2> QED
    BY <2>1
<1>6. Nesting(stack', array_count', path_stack')
  BY <1>1, <1>2, NestingPushed
<1>7. ctl'.op = "next"
  BY DEF NextChild
<1>8. TypeOK'
  <2>1. stack' # <<>>
    BY <1>3, <1>4, EmptyIsSequence
  <2>2. \A i \in DOMAIN stack' : IsFrame(stack'[i])
    BY <1>1, <1>3, <1>4, <1>5 DEF Inv, TypeOK
  <2>3. array_count' \in Int
    BY <1>2 DEF One
  <2> QED
    BY <1>2, <1>3, <1>7, <2>1, <2>2, <2>3 DEF TypeOK
<1>9. Control'
  <2>1. stack'[1].fn = "document"
    <3>1. 1 \in 1 .. Len(stack)
      BY <1>4
    <3> QED
      BY <1>3, <3>1 DEF Inv, Control
  <2>2. ASSUME NEW i \in 1 .. Len(stack) + 1, i > 1
        PROVE  stack'[i].fn # "document"
    BY <1>1, <1>3, <1>5, <2>2 DEF Inv, Control
  <2>3. ASSUME NEW i \in 1 .. Len(stack) + 1, i < Len(stack) + 1
        PROVE  Fits("parse", stack'[i])
    <3>1. i \in 1 .. Len(stack) /\ (i < Len(stack) \/ i = Len(stack))
      BY <1>5, <2>3
    <3> QED
      BY <1>3, <1>4, <3>1 DEF Inv, Control
  <2>4. Top' = f
    BY <1>3 DEF Top
  <2>5. Fits("next", f)
    BY <1>1 DEF Fits
  <2> QED
    BY <1>3, <1>7, <2>1, <2>2, <2>3, <2>4, <2>5 DEF Control
<1> QED
  BY <1>6, <1>7, <1>8, <1>9 DEF Inv, NestingInv, Balanced

\* The function returns to parse_value, which finds array_count as it was.
LEMMA FramePopped ==
  ASSUME Inv, ctl.op # "throw", Top.fn # "document", Top.field.stage = "none", NEW v,
         ParseReturns(v, array_count'), array_count' = array_count - One(Top.fn = "array"),
         UNCHANGED path_stack
  PROVE  Inv'
<1>1. /\ IsSequence(stack) /\ stack # <<>> /\ array_count \in Int /\ IsSequence(path_stack)
      /\ Nesting(stack, array_count, path_stack) /\ stack' = Popped(stack)
  BY DEF Inv, TypeOK, NestingInv, ParseReturns
<1>2. Len(stack) \in Nat \ {0} /\ DOMAIN stack = 1 .. Len(stack) /\ Top = stack[Len(stack)]
  BY TopFacts DEF Inv
<1>3. Len(stack) > 1
  BY <1>2 DEF Inv, Control
<1>4. /\ IsSequence(stack') /\ Len(stack') = Len(stack) - 1
      /\ \A i \in 1 .. Len(stack) - 1 : stack'[i] = stack[i]
      /\ DOMAIN stack' = 1 .. Len(stack) - 1
  BY <1>1, Popping
<1>5. /\ Nesting(stack', array_count', path_stack') /\ Top.start = array_count'
  BY <1>1, <1>2, NestingPopped
<1>6. /\ ctl'.op \in {"throw", "value"}
      /\ ctl'.op = "throw" => ctl'.kind # "bug"
  BY <1>5 DEF ParseReturns, Throw, Parsed
<1>7. ASSUME NEW i \in 1 .. Len(stack) - 1
      PROVE  i \in 1 .. Len(stack) /\ i < Len(stack) /\ stack'[i] = stack[i]
  <2>1. Len(stack) \in Nat
    BY <1>2
  <2> QED
    BY <1>4, <2>1
<1>8. TypeOK'
  <2>1. stack' # <<>>
    BY <1>2, <1>3, <1>4, EmptyIsSequence
  <2>2. \A i \in DOMAIN stack' : IsFrame(stack'[i])
    BY <1>2, <1>4, <1>7 DEF Inv, TypeOK
  <2>3. array_count' \in Int
    BY <1>1 DEF One
  <2> QED
    BY <1>1, <1>4, <1>6, <2>1, <2>2, <2>3 DEF TypeOK
<1>9. Control'
  <2>1. Len(stack) - 1 \in 1 .. Len(stack) - 1 /\ 1 \in 1 .. Len(stack) - 1
    BY <1>2, <1>3
  <2>2. stack'[1].fn = "document"
    BY <1>7, <2>1 DEF Inv, Control
  <2>3. \A i \in 1 .. Len(stack) - 1 : i > 1 => stack'[i].fn # "document"
    BY <1>7 DEF Inv, Control
  <2>4. \A i \in 1 .. Len(stack) - 1 : Fits("parse", stack'[i])
    BY <1>7 DEF Inv, Control
  <2>5. Fits("parse", Top')
    BY <1>4, <2>1, <2>4 DEF Top
  <2>6. Fits(ctl'.op, Top')
    BY <1>6, <2>5 DEF Fits
  <2> QED
    BY <1>4, <2>2, <2>3, <2>4, <2>6 DEF Control
<1> QED
  BY <1>5, <1>6, <1>8, <1>9 DEF Inv, NestingInv, Balanced

-----------------------------------------------------------------------------
(***************************************************************************)
(* Every action preserves the invariant.                                   *)
(***************************************************************************)
LEMMA InvInit == Init => Inv
<1> SUFFICES ASSUME Init
             PROVE  Inv
  OBVIOUS
<1> DEFINE f == Frame("document", <<>>, 0)
<1>1. /\ stack = <<f>> /\ array_count = 0 /\ path_stack = <<>> /\ ctl.op = "next"
  BY DEF Init, NextChild
<1>2. IsFrame(f) /\ f.fn = "document" /\ f.start = 0 /\ f.field.stage = "none"
  BY DEF IsFrame, Frame, NoField, Functions
<1> HIDE DEF f
<1>3. /\ IsSequence(stack) /\ Len(stack) = 1 /\ DOMAIN stack = 1 .. 1 /\ stack[1] = f
  BY <1>1 DEF IsSequence
<1>4. TypeOK
  BY <1>1, <1>2, <1>3, EmptyIsSequence DEF TypeOK
<1>5. Control
  BY <1>1, <1>2, <1>3 DEF Control, Fits, Top
<1>6. Nesting(stack, array_count, path_stack)
  <2>1. ~Counts(f) /\ ~AtField(f) /\ ~AppendsTo(f)
    BY <1>2 DEF Counts, AtField, AppendsTo
  <2>2. \A i \in 1 .. Len(stack) : i = 1 /\ i - 1 = 0 /\ stack[i] = f
    BY <1>3
  <2>3. ListFrames(stack) = {} /\ FieldFrames(stack) = {}
    BY <2>1, <2>2 DEF ListFrames, FieldFrames
  <2>4. \A k : Number({}, k) = 0
    BY FS_EmptySet DEF Number
  <2>5. Len(<<>>) = 0
    OBVIOUS
  <2> QED
    BY <1>1, <1>2, <2>1, <2>2, <2>3, <2>4, <2>5 DEF Nesting
<1> QED
  BY <1>1, <1>4, <1>5, <1>6 DEF Inv, NestingInv, Balanced

LEMMA KeepsNextNode ==
  ASSUME Inv, NextNode
  PROVE  Inv'
<1>1. IsFrame(Top)
  BY TopFacts DEF Inv
<1>2. \A n : Alike(Top, [Top EXCEPT !.seen = Append(@, n)])
  BY <1>1 DEF Alike, IsFrame
<1>3. Fits("node", Top) /\ ctl'.op = "node"
  <2>1. ctl.op = "next" /\ Fits(ctl.op, Top)
    BY DEF NextNode, Inv, Control
  <2>2. \E n : ctl' = Node(n)
    BY DEF NextNode
  <2> QED
    BY <2>1, <2>2 DEF Fits, Node
<1>4. CASE \E n : SetTop([Top EXCEPT !.seen = Append(@, n)])
  <2>1. PICK n : SetTop([Top EXCEPT !.seen = Append(@, n)])
    BY <1>4
  <2> QED
    BY <1>2, <1>3, <2>1, FrameAlike DEF NextNode, Ops
<1>5. CASE UNCHANGED stack
  BY <1>3, <1>5, SameFrames DEF NextNode, Ops
<1> QED
  BY <1>4, <1>5 DEF NextNode

LEMMA KeepsParse ==
  ASSUME Inv, ParseSimple \/ ParseObject \/ ParseArray \/ ParseConcatenation
  PROVE  Inv'
<1>1. CASE ParseSimple
  <2>1. ctl'.op = "value" /\ ctl.op = "parse"
    BY <1>1 DEF ParseSimple, Parsed, Parse
  <2>2. Fits("value", Top)
    BY <2>1 DEF Inv, Control, Fits
  <2> QED
    BY <1>1, <2>1, <2>2, SameFrames DEF ParseSimple, Ops
<1>2. array_count \in Int
  BY DEF Inv, TypeOK
<1>3. CASE ParseObject
  <2>1. ctl.op = "parse" /\ array_count' = array_count + One("object" = "array")
    BY <1>2, <1>3 DEF ParseObject, Parse, One
  <2> QED
    BY <1>3, <2>1, FramePushed DEF ParseObject, Functions
<1>4. CASE ParseArray
  <2>1. ctl.op = "parse" /\ array_count' = array_count + One("array" = "array")
    BY <1>4 DEF ParseArray, ListOpened, Parse, One
  <2> QED
    BY <1>4, <2>1, FramePushed DEF ParseArray, Functions
<1>5. CASE ParseConcatenation
  <2>1. ctl.op = "parse" /\ array_count' = array_count + One("concatenation" = "array")
    BY <1>2, <1>5 DEF ParseConcatenation, Parse, One
  <2> QED
    BY <1>5, <2>1, FramePushed DEF ParseConcatenation, Functions
<1> QED
  BY <1>1, <1>3, <1>4, <1>5

LEMMA KeepsComment ==
  ASSUME Inv, Comment
  PROVE  Inv'
<1> DEFINE f == [Top EXCEPT !.comments = Append(@, ctl.n.id), !.newline = FALSE]
<1>1. IsFrame(Top)
  BY TopFacts DEF Inv
<1>2. Alike(Top, f)
  BY <1>1 DEF Alike, IsFrame
<1>3. /\ SetTop(f) /\ UNCHANGED <<array_count, path_stack>> /\ ctl.op # "throw"
      /\ ctl'.op = "next"
  BY DEF Comment, Child, Awaits, NextChild
<1>4. Fits("next", Top)
  BY DEF Comment, Child, Fits, Between
<1> QED
  BY <1>2, <1>3, <1>4, FrameAlike DEF Ops

LEMMA KeepsComma ==
  ASSUME Inv, Comma \/ TrailingComma
  PROVE  Inv'
<1>1. ctl.op # "throw" /\ ctl'.op = "next" /\ UNCHANGED <<stack, array_count, path_stack>>
  BY DEF Comma, TrailingComma, Child, NextChild
<1>2. Fits("next", Top)
  BY DEF Comma, TrailingComma, Between, Trailing, Fits
<1> QED
  BY <1>1, <1>2, SameFrames DEF Ops

LEMMA KeepsNewline ==
  ASSUME Inv, Newline
  PROVE  Inv'
<1> DEFINE f == [Top EXCEPT !.comments = CommentsAfterNewline(Top), !.newline = TRUE]
<1>1. IsFrame(Top)
  BY TopFacts DEF Inv
<1>2. Alike(Top, f)
  BY <1>1 DEF Alike, IsFrame
<1>3. /\ SetTop(f) /\ UNCHANGED <<array_count, path_stack>> /\ ctl.op # "throw"
      /\ ctl'.op = "next"
  BY DEF Newline, Child, Awaits, NextChild
<1>4. Fits("next", Top)
  BY DEF Newline, Child, Fits, Between
<1> QED
  BY <1>2, <1>3, <1>4, FrameAlike DEF Ops

LEMMA KeepsField ==
  ASSUME Inv, Field
  PROVE  Inv'
<1> DEFINE h == ctl.n.shape
           f == [Top EXCEPT !.newline = FALSE, !.item = ctl.n.id,
                            !.comments = IF h.inner THEN Append(@, ctl.n.id) ELSE @,
                            !.field = [stage |-> "value", path |-> h.path,
                                       append |-> h.append, v |-> NoValue]]
<1>1. /\ IsFrame(Top) /\ Top = stack[Len(stack)]
      /\ IsSequence(stack) /\ stack # <<>> /\ array_count \in Int /\ IsSequence(path_stack)
  BY TopFacts DEF Inv, TypeOK
<1>2. ctl.op # "throw" /\ Nesting(stack, array_count, path_stack)
  BY DEF Inv, NestingInv, Field, Child
<1>3. /\ IsFrame(f) /\ f.fn = Top.fn /\ f.start = Top.start /\ f.fn = "object"
      /\ f.field.stage = "value" /\ f.field.append = h.append /\ f.field.path = h.path
  BY <1>1 DEF IsFrame, Field, Child
<1>4. SetTop(f) /\ path_stack' = Append(path_stack, h.path)
  BY DEF Field
<1>5. \/ ctl'.op = "throw" /\ ctl'.kind = "parse" /\ array_count' = array_count
      \/ /\ ctl'.op = "parse" /\ array_count' = array_count + One(h.append)
         /\ h.append => array_count = 0
  <2>1. array_count > 0 \/ array_count = 0
    <3>1. array_count = Number(ListFrames(stack), Len(stack)) /\ Len(stack) \in Nat
      BY <1>2, TopFacts DEF Nesting, Inv
    <3>2. array_count \in Nat
      BY <3>1, NumberFacts
    <3> QED
      BY <3>2
  <2> QED
    BY <1>1, <2>1 DEF Field, AppendRefused, Throw, Parse, One
<1> HIDE DEF f
<1>6. /\ IsSequence(path_stack') /\ array_count' \in Int
  BY <1>1, <1>4, <1>5, Pushing DEF One
<1>7. Fits(ctl'.op, f)
  BY <1>3, <1>5 DEF Fits
<1>8. ASSUME ctl'.op # "throw"
      PROVE  Nesting(Retopped(stack, f), array_count', path_stack')
  <2>1. array_count' = array_count + One(f.field.append) /\ (f.field.append => array_count = 0)
    BY <1>3, <1>5, <1>8
  <2>2. path_stack' = Append(path_stack, f.field.path)
    BY <1>3, <1>4
  <2>3. ~AtField(Top) /\ Top.fn = "object"
    BY DEF Field, Between, AtField, Child
  <2> QED
    BY <1>1, <1>2, <1>3, <2>1, <2>2, <2>3, NestingField
<1> QED
  BY <1>3, <1>4, <1>5, <1>6, <1>7, <1>8, FrameChanges DEF Ops

LEMMA KeepsFieldValue ==
  ASSUME Inv, FieldValue
  PROVE  Inv'
<1> DEFINE v == PrependComments(ctl.v, Top.comments)
           f == [Top EXCEPT !.comments = <<>>,
                            !.field.stage = "trailing",
                            !.field.v = IF Top.field.append THEN Appended(path_stack[1], v)
                                        ELSE v]
<1>1. /\ IsFrame(Top) /\ Top = stack[Len(stack)]
      /\ IsSequence(stack) /\ stack # <<>> /\ array_count \in Int /\ IsSequence(path_stack)
  BY TopFacts DEF Inv, TypeOK
<1>2. ctl.op # "throw" /\ Nesting(stack, array_count, path_stack)
  BY DEF Inv, NestingInv, FieldValue, Awaits
<1>3. /\ IsFrame(f) /\ f.fn = Top.fn /\ f.start = Top.start /\ f.fn = "object"
      /\ f.field.stage = "trailing" /\ f.field.path = Top.field.path
  BY <1>1 DEF IsFrame, FieldValue, Awaits
<1>4. /\ SetTop(f) /\ UNCHANGED path_stack /\ ctl'.op = "next"
      /\ array_count' = array_count - One(Top.field.append)
  BY <1>1 DEF FieldValue, AppendClosed, NextChild, One
<1>5. Top.field.stage = "value" /\ Top.fn = "object"
  BY DEF FieldValue, Awaits, Inv, Control, Fits
<1> HIDE DEF f
<1>6. Nesting(Retopped(stack, f), array_count', path_stack')
  BY <1>1, <1>2, <1>3, <1>4, <1>5, NestingValue
<1>7. array_count' \in Int /\ Fits("next", f)
  BY <1>1, <1>3, <1>4 DEF One, Fits
<1> QED
  BY <1>1, <1>3, <1>4, <1>6, <1>7, FrameChanges DEF Ops

LEMMA KeepsFieldDone ==
  ASSUME Inv, TrailingComment \/ TrailingOver
  PROVE  Inv'
<1>1. PICK v, next : FieldDone(v, next) /\ next.op \in {"next", "node"}
  BY DEF TrailingComment, TrailingOver, NextChild
<1>2. ctl.op = "node" /\ Top.field.stage = "trailing"
  BY DEF TrailingComment, TrailingOver, Child, Trailing
<1>3. /\ IsFrame(Top) /\ Top = stack[Len(stack)]
      /\ IsSequence(stack) /\ stack # <<>> /\ array_count \in Int /\ IsSequence(path_stack)
  BY TopFacts DEF Inv, TypeOK
<1>4. Nesting(stack, array_count, path_stack)
  BY <1>2 DEF Inv, NestingInv
<1>5. PICK values, given :
        SetTop([Top EXCEPT !.values = values, !.field = NoField, !.given = given])
  BY <1>1 DEF FieldDone
<1> DEFINE f == [Top EXCEPT !.values = values, !.field = NoField, !.given = given]
<1>6. /\ IsFrame(f) /\ f.fn = Top.fn /\ f.start = Top.start /\ f.fn = "object"
      /\ f.field.stage = "none"
  BY <1>2, <1>3 DEF IsFrame, NoField
<1>7. /\ UNCHANGED array_count /\ path_stack' = Popped(path_stack)
      /\ \/ ctl'.op = "throw" /\ ctl'.kind \in {"parse", "merge"}
         \/ ctl'.op \in {"next", "node"}
  BY <1>1 DEF FieldDone, PathLeft, Throw
<1>8. SetTop(f)
  BY <1>5
<1> HIDE DEF f
<1>9. path_stack # <<>> /\ Nesting(Retopped(stack, f), array_count, Popped(path_stack))
  BY <1>2, <1>3, <1>4, <1>6, NestingLeft
<1>10. IsSequence(path_stack') /\ Fits(ctl'.op, f)
  BY <1>3, <1>6, <1>7, <1>9, Popping DEF Fits
<1> QED
  BY <1>3, <1>6, <1>7, <1>8, <1>9, <1>10, FrameChanges DEF Ops

LEMMA KeepsInclude ==
  ASSUME Inv, Include
  PROVE  Inv'
<1>1. IsFrame(Top)
  BY TopFacts DEF Inv
<1>2. \A values : Alike(Top, [Top EXCEPT !.values = values, !.newline = FALSE])
  BY <1>1 DEF Alike, IsFrame
<1>3. /\ UNCHANGED <<array_count, path_stack>> /\ ctl.op = "node"
      /\ ctl'.op = "next" \/ (ctl'.op = "throw" /\ ctl'.kind \in {"config", "merge"})
  BY DEF Include, Child, NextChild, Throw
<1>4. Fits(ctl'.op, Top)
  BY <1>3 DEF Include, Between, Fits
<1>5. CASE UNCHANGED stack
  BY <1>3, <1>4, <1>5, SameFrames DEF Ops
<1>6. CASE \E values : SetTop([Top EXCEPT !.values = values, !.newline = FALSE])
  <2>1. PICK values : SetTop([Top EXCEPT !.values = values, !.newline = FALSE])
    BY <1>6
  <2> QED
    BY <1>2, <1>3, <1>4, <2>1, FrameAlike DEF Ops
<1> QED
  BY <1>5, <1>6 DEF Include

LEMMA KeepsElementLineEnds ==
  ASSUME Inv, ElementLineEnds
  PROVE  Inv'
<1> DEFINE f == [WithElement(Top) EXCEPT !.newline = TRUE]
<1>1. IsFrame(Top)
  BY TopFacts DEF Inv
<1>2. Alike(Top, f)
  BY <1>1 DEF Alike, IsFrame, WithElement
<1>3. /\ SetTop(f) /\ UNCHANGED <<array_count, path_stack>> /\ ctl.op # "throw"
      /\ ctl'.op = "next"
  BY DEF ElementLineEnds, Child, Awaits, NextChild
<1>4. Fits("next", Top)
  BY DEF ElementLineEnds, Child, Awaits, Fits
<1> QED
  BY <1>2, <1>3, <1>4, FrameAlike DEF Ops

LEMMA KeepsElement ==
  ASSUME Inv, Element
  PROVE  Inv'
<1> DEFINE f == [(IF HasValue(Top.v) THEN WithElement(Top) ELSE Top)
                  EXCEPT !.newline = FALSE, !.item = ctl.n.id]
<1>1. IsFrame(Top)
  BY TopFacts DEF Inv
<1>2. Alike(Top, f)
  BY <1>1 DEF Alike, IsFrame, WithElement
<1>3. /\ SetTop(f) /\ UNCHANGED <<array_count, path_stack>> /\ ctl.op # "throw"
      /\ ctl'.op = "parse"
  BY DEF Element, Child, Awaits, Parse
<1>4. Fits("parse", Top)
  BY DEF Element, Child, Awaits, Fits
<1> QED
  BY <1>2, <1>3, <1>4, FrameAlike DEF Ops

LEMMA KeepsElementValue ==
  ASSUME Inv, ElementValue
  PROVE  Inv'
<1> DEFINE f == [Top EXCEPT !.v = PrependComments(ctl.v, Top.comments), !.comments = <<>>]
<1>1. IsFrame(Top)
  BY TopFacts DEF Inv
<1>2. Alike(Top, f)
  BY <1>1 DEF Alike, IsFrame
<1>3. /\ SetTop(f) /\ UNCHANGED <<array_count, path_stack>> /\ ctl.op # "throw"
      /\ ctl'.op = "next"
  BY DEF ElementValue, Child, Awaits, NextChild
<1>4. Fits("next", Top)
  BY DEF ElementValue, Child, Awaits, Fits
<1> QED
  BY <1>2, <1>3, <1>4, FrameAlike DEF Ops

LEMMA KeepsPieceValue ==
  ASSUME Inv, PieceValue
  PROVE  Inv'
<1> DEFINE f == [Top EXCEPT !.values = Append(@, ctl.v)]
<1>1. IsFrame(Top)
  BY TopFacts DEF Inv
<1>2. Alike(Top, f)
  BY <1>1 DEF Alike, IsFrame
<1>3. /\ SetTop(f) /\ UNCHANGED <<array_count, path_stack>> /\ ctl.op # "throw"
      /\ ctl'.op = "next"
  BY DEF PieceValue, Child, Awaits, NextChild
<1>4. Fits("next", Top)
  BY DEF PieceValue, Child, Awaits, Fits
<1> QED
  BY <1>2, <1>3, <1>4, FrameAlike DEF Ops

LEMMA KeepsRootValue ==
  ASSUME Inv, RootValue
  PROVE  Inv'
<1> DEFINE f == [Top EXCEPT !.v = PrependComments(ctl.v, Top.comments), !.comments = <<>>,
                        !.newline = FALSE]
<1>1. IsFrame(Top)
  BY TopFacts DEF Inv
<1>2. Alike(Top, f)
  BY <1>1 DEF Alike, IsFrame
<1>3. /\ SetTop(f) /\ UNCHANGED <<array_count, path_stack>> /\ ctl.op # "throw"
      /\ ctl'.op = "next"
  BY DEF RootValue, Child, Awaits, NextChild
<1>4. Fits("next", Top)
  BY DEF RootValue, Child, Awaits, Fits
<1> QED
  BY <1>2, <1>3, <1>4, FrameAlike DEF Ops

LEMMA KeepsFrames ==
  ASSUME Inv, Piece \/ Root \/ RootLineEnds \/ EndDocument
  PROVE  Inv'
<1>1. /\ UNCHANGED <<stack, array_count, path_stack>> /\ ctl.op # "throw"
      /\ ctl'.op \in {"parse", "done"} /\ Top.fn # "object"
  BY DEF Piece, Root, RootLineEnds, EndDocument, Child, Parse, Done
<1> QED
  BY <1>1, SameFrames DEF Ops, Fits

LEMMA KeepsEnds ==
  ASSUME Inv, EndObject \/ EndArray \/ EndConcatenation
  PROVE  Inv'
<1>1. array_count \in Int /\ IsFrame(Top)
  BY TopFacts DEF Inv, TypeOK
<1>2. /\ ctl.op # "throw" /\ Top.fn # "document" /\ UNCHANGED path_stack
      /\ Top.field.stage = "none"
  BY <1>1 DEF EndObject, EndArray, EndConcatenation, Child, Between, IsFrame
<1>3. array_count' = array_count - One(Top.fn = "array")
  BY <1>1 DEF EndObject, EndArray, EndConcatenation, Child, One
<1>4. \E v : ParseReturns(v, array_count')
  BY DEF EndObject, EndArray, EndConcatenation
<1> QED
  BY <1>2, <1>3, <1>4, FramePopped

LEMMA InvNext == Inv /\ [Next]_vars => Inv'
<1> SUFFICES ASSUME Inv, [Next]_vars
             PROVE  Inv'
  OBVIOUS
<1>1. CASE UNCHANGED vars
  BY <1>1 DEF vars, Inv, TypeOK, Control, NestingInv, Balanced, Top
<1>2. CASE Next
  BY <1>2, KeepsNextNode, KeepsParse, KeepsComment, KeepsComma, KeepsNewline, KeepsField,
     KeepsFieldValue, KeepsFieldDone, KeepsInclude, KeepsElementLineEnds, KeepsElement,
     KeepsElementValue, KeepsPieceValue, KeepsRootValue, KeepsFrames, KeepsEnds DEF Next
<1> QED
  BY <1>1, <1>2

\* The inductive invariant, from which the theorems below follow.
THEOREM Invariance == Spec => []Inv
BY InvInit, InvNext, PTL DEF Spec

\* Every frame runs a function, and only objects are at a field.
THEOREM TypeCorrect == Spec => []TypeOK
<1>1. Inv => TypeOK
  BY DEF Inv
<1> QED
  BY <1>1, Invariance, PTL

\* array_count is the number of lists and += in progress.
THEOREM ArrayCountFollows == Spec => []ArrayCountIsNesting
<1>1. Inv => ArrayCountIsNesting
  <2> SUFFICES ASSUME Inv, ctl.op # "throw"
               PROVE  array_count = Cardinality({i \in DOMAIN stack : Counts(stack[i])})
    BY DEF ArrayCountIsNesting
  <2>1. DOMAIN stack = 1 .. Len(stack)
    BY TopFacts DEF Inv
  <2>2. ListFrames(stack) \cap 1 .. Len(stack) = {i \in DOMAIN stack : Counts(stack[i])}
    BY <2>1 DEF ListFrames
  <2> QED
    BY <2>2 DEF Inv, NestingInv, Nesting, Number
<1> QED
  BY <1>1, Invariance, PTL

\* path_stack holds the paths of the fields in progress, outermost first.
THEOREM PathStackFollows == Spec => []PathStackIsNesting
<1>1. Inv => PathStackIsNesting
  <2> SUFFICES ASSUME Inv, ctl.op # "throw"
               PROVE  LET fields(n) == {i \in 1 .. n : AtField(stack[i])}
                      IN  /\ Len(path_stack) = Cardinality(fields(Len(stack)))
                          /\ \A i \in fields(Len(stack)) :
                               path_stack[Cardinality(fields(i))] = stack[i].field.path
    BY DEF PathStackIsNesting
  <2> DEFINE fields(n) == {i \in 1 .. n : AtField(stack[i])}
  <2>1. Len(stack) \in Nat
    BY TopFacts DEF Inv
  <2>2. \A n \in 1 .. Len(stack) : fields(n) = FieldFrames(stack) \cap 1 .. n
    BY <2>1 DEF FieldFrames
  <2>3. fields(Len(stack)) = FieldFrames(stack) \cap 1 .. Len(stack)
    BY DEF FieldFrames
  <2>4. /\ Len(path_stack) = Cardinality(FieldFrames(stack) \cap 1 .. Len(stack))
        /\ \A i \in 1 .. Len(stack) : AtField(stack[i]) =>
             path_stack[Cardinality(FieldFrames(stack) \cap 1 .. i)] = stack[i].field.path
    BY DEF Inv, NestingInv, Nesting, Number
  <2> QED
    BY <2>2, <2>3, <2>4
<1> QED
  BY <1>1, Invariance, PTL

\* The parser never reports itself broken.
THEOREM AlwaysBalanced == Spec => []Balanced
<1>1. Inv => Balanced
  BY DEF Inv
<1> QED
  BY <1>1, Invariance, PTL

\* No += is parsed inside a list or another +=.
THEOREM NoAppendInLists == Spec => []AppendsAreOutsideLists
<1>1. Inv => AppendsAreOutsideLists
  <2>1. ASSUME Inv
        PROVE  DOMAIN stack = 1 .. Len(stack)
    BY <2>1, TopFacts DEF Inv
  <2> QED
    BY <2>1 DEF Inv, NestingInv, Nesting, AppendsAreOutsideLists, AppendsTo
<1> QED
  BY <1>1, Invariance, PTL

-----------------------------------------------------------------------------
(***************************************************************************)
(* The comments of a field or element: those above it, the one inside it   *)
(* and the one on its line.  s is what a frame has seen, or a part of it.  *)
(***************************************************************************)
ItemTypes          == {"field", "value"}
NextTo(s, m)       == \E k \in 1 .. m : s[k].t \in ItemTypes /\ OnlyCommas(s, k, m + 1)
AfterNewline(s, m) == \E k \in 1 .. m : s[k].t = "newline" /\ OnlyCommas(s, k, m + 1)

Above(s, p)  == {c \in 1 .. p - 1 : Owns(s, p, c)}
Inside(s, p) == {c \in {p} : s[c].t = "field" /\ s[c].shape.inner}

\* t goes on after s.
GoesOn(s, t) ==
  /\ Len(s) \in Nat /\ Len(t) = Len(s) + 1 /\ DOMAIN s = 1 .. Len(s) /\ DOMAIN t = 1 .. Len(t)
  /\ \A i \in 1 .. Len(s) : t[i] = s[i]

\* What follows a node does not change what is above it.
LEMMA AboveStays ==
  ASSUME NEW s, NEW t, GoesOn(s, t), NEW p \in 1 .. Len(s) + 1
  PROVE  Above(t, p) = Above(s, p)
<1>1. \A i, j \in 1 .. Len(s) + 1 : OnlyCommas(t, i, j) <=> OnlyCommas(s, i, j)
  <2> SUFFICES ASSUME NEW i \in 1 .. Len(s) + 1, NEW j \in 1 .. Len(s) + 1
               PROVE  OnlyCommas(t, i, j) <=> OnlyCommas(s, i, j)
    OBVIOUS
  <2>1. \A k \in i + 1 .. j - 1 : t[k] = s[k]
    BY DEF GoesOn
  <2> QED
    BY <2>1 DEF OnlyCommas
<1>2. \A k \in 1 .. Len(s) : BlankLine(t, k) <=> BlankLine(s, k)
  <2> SUFFICES ASSUME NEW k \in 1 .. Len(s)
               PROVE  BlankLine(t, k) <=> BlankLine(s, k)
    OBVIOUS
  <2>1. \A i \in 1 .. k - 1 : t[i] = s[i] /\ i \in 1 .. Len(s) + 1 /\ k \in 1 .. Len(s) + 1
    BY DEF GoesOn
  <2>2. t[k] = s[k]
    BY DEF GoesOn
  <2> QED
    BY <1>1, <2>1, <2>2 DEF BlankLine
<1> SUFFICES ASSUME NEW c \in 1 .. p - 1
             PROVE  Owns(t, p, c) <=> Owns(s, p, c)
  BY DEF Above
<1>3. t[c] = s[c] /\ c < p /\ ~(p < c) /\ c \in 1 .. Len(s) + 1
  BY DEF GoesOn
<1>4. \A k \in c + 1 .. p - 1 : t[k] = s[k] /\ k \in 1 .. Len(s)
  BY DEF GoesOn
<1>5. \A k \in 1 .. c - 1 : t[k] = s[k] /\ k \in 1 .. Len(s) + 1
  BY DEF GoesOn
<1> QED
  BY <1>1, <1>2, <1>3, <1>4, <1>5 DEF Owns

\* The same for the commas between two nodes.
LEMMA CommasStay ==
  ASSUME NEW s, NEW t, GoesOn(s, t), NEW i \in 1 .. Len(s) + 1, NEW j \in 1 .. Len(s) + 1
  PROVE  OnlyCommas(t, i, j) <=> OnlyCommas(s, i, j)
<1>1. \A k \in i + 1 .. j - 1 : t[k] = s[k]
  BY DEF GoesOn
<1> QED
  BY <1>1 DEF OnlyCommas

\* One more node at the end of the line.
LEMMA CommasGoOn ==
  ASSUME NEW s, NEW m \in Nat, NEW k \in 0 .. m
  PROVE  /\ k <= m /\ k < m + 1 => (OnlyCommas(s, k, m + 2) <=> OnlyCommas(s, k, m + 1) /\ s[m + 1].t = "comma")
         /\ OnlyCommas(s, m + 1, m + 2)
<1>1. \A i : i \in k + 1 .. (m + 2) - 1 <=> i \in k + 1 .. (m + 1) - 1 \/ i = m + 1
  OBVIOUS
<1>2. (m + 1) + 1 .. (m + 2) - 1 = {}
  OBVIOUS
<1> QED
  BY <1>1, <1>2 DEF OnlyCommas

\* After a newline, next to an item: what the node at m + 1 makes of it.
LEMMA LineGoesOn ==
  ASSUME NEW s, NEW m \in Nat
  PROVE  /\ AfterNewline(s, m + 1)
              <=> s[m + 1].t = "newline" \/ (s[m + 1].t = "comma" /\ AfterNewline(s, m))
         /\ NextTo(s, m + 1)
              <=> s[m + 1].t \in ItemTypes \/ (s[m + 1].t = "comma" /\ NextTo(s, m))
<1>1. \A k \in 1 .. m : OnlyCommas(s, k, m + 2) <=> OnlyCommas(s, k, m + 1) /\ s[m + 1].t = "comma"
  <2> SUFFICES ASSUME NEW k \in 1 .. m
               PROVE  OnlyCommas(s, k, m + 2) <=> OnlyCommas(s, k, m + 1) /\ s[m + 1].t = "comma"
    OBVIOUS
  <2>1. k \in 0 .. m /\ k <= m /\ k < m + 1
    OBVIOUS
  <2> QED
    BY <2>1, CommasGoOn
<1>2. OnlyCommas(s, m + 1, m + 2)
  BY CommasGoOn
<1>3. \A k : k \in 1 .. m + 1 <=> k \in 1 .. m \/ k = m + 1
  OBVIOUS
<1>4. (m + 1) + 1 = m + 2
  OBVIOUS
<1> QED
  BY <1>1, <1>2, <1>3, <1>4 DEF AfterNewline, NextTo

\* What the node at p makes of the comments above.
LEMMA AboveGoesOn ==
  ASSUME NEW s, NEW p \in Nat \ {0}
  PROVE  /\ s[p].t = "comment" /\ ~NextTo(s, p - 1) => Above(s, p + 1) = Above(s, p) \cup {p}
         /\ s[p].t \notin {"comment", "newline", "field", "value"} => Above(s, p + 1) = Above(s, p)
         /\ s[p].t = "newline" => Above(s, p + 1) = IF AfterNewline(s, p - 1) THEN {} ELSE Above(s, p)
         /\ s[p].t \in ItemTypes => Above(s, p + 1) = {}
<1>1. BlankLine(s, p) <=> s[p].t = "newline" /\ AfterNewline(s, p - 1)
  <2>1. (p - 1) + 1 = p
    OBVIOUS
  <2> QED
    BY <2>1 DEF BlankLine, AfterNewline
<1>2. ASSUME NEW c \in 1 .. p - 1
      PROVE  Owns(s, p + 1, c) <=> Owns(s, p, c) /\ s[p].t \notin ItemTypes /\ ~BlankLine(s, p)
  <2>1. \A k : k \in c + 1 .. (p + 1) - 1 <=> k \in c + 1 .. p - 1 \/ k = p
    OBVIOUS
  <2>2. c < p /\ c < p + 1 /\ ~(p < c) /\ ~(p + 1 < c)
    OBVIOUS
  <2> QED
    BY <2>1, <2>2 DEF Owns, ItemTypes
<1>3. Owns(s, p + 1, p) <=> s[p].t = "comment" /\ ~NextTo(s, p - 1)
  <2>1. p + 1 .. (p + 1) - 1 = {} /\ p < p + 1 /\ ~(p + 1 < p) /\ (p - 1) + 1 = p
    OBVIOUS
  <2> QED
    BY <2>1 DEF Owns, NextTo, ItemTypes
<1>4. \A c : c \in 1 .. (p + 1) - 1 <=> c \in 1 .. p - 1 \/ c = p
  OBVIOUS
<1>5. \A c : c \in Above(s, p + 1) <=>
        \/ c \in 1 .. p - 1 /\ Owns(s, p, c) /\ s[p].t \notin ItemTypes /\ ~BlankLine(s, p)
        \/ c = p /\ s[p].t = "comment" /\ ~NextTo(s, p - 1)
  BY <1>2, <1>3, <1>4 DEF Above
<1>6. \A c : c \in Above(s, p) <=> c \in 1 .. p - 1 /\ Owns(s, p, c)
  BY DEF Above
<1>7. CASE s[p].t = "comment"
  BY <1>1, <1>5, <1>6, <1>7 DEF ItemTypes
<1>8. CASE s[p].t = "newline"
  BY <1>1, <1>5, <1>6, <1>8 DEF ItemTypes
<1>9. CASE s[p].t \in ItemTypes
  BY <1>5, <1>9 DEF ItemTypes
<1>10. CASE s[p].t \notin {"comment", "newline", "field", "value"}
  BY <1>1, <1>5, <1>6, <1>10 DEF ItemTypes
<1> QED
  BY <1>7, <1>8, <1>9, <1>10 DEF ItemTypes

\* Nothing is above what follows an item on its line, its comment included.
LEMMA NothingAbove ==
  ASSUME NEW s, NEW m \in Nat, NextTo(s, m)
  PROVE  /\ Above(s, m + 1) = {}
         /\ s[m + 1].t = "comment" => Above(s, m + 2) = {}
<1>1. PICK k \in 1 .. m : s[k].t \in ItemTypes /\ OnlyCommas(s, k, m + 1)
  BY DEF NextTo
<1>2. ASSUME NEW c \in 1 .. m, Owns(s, m + 1, c) \/ Owns(s, m + 2, c)
      PROVE  FALSE
  <2>1. s[c].t = "comment" /\ ~(m + 1 < c) /\ ~(m + 2 < c)
    BY <1>2 DEF Owns
  <2>2. CASE c < k
    <3>1. k \in c + 1 .. (m + 1) - 1 /\ k \in c + 1 .. (m + 2) - 1
      BY <2>2
    <3> QED
      BY <1>1, <1>2, <2>1, <3>1 DEF Owns, ItemTypes
  <2>3. CASE c = k
    BY <1>1, <2>1, <2>3 DEF ItemTypes
  <2>4. CASE c > k
    <3>1. c \in k + 1 .. (m + 1) - 1
      BY <2>4
    <3> QED
      BY <1>1, <2>1, <3>1 DEF OnlyCommas
  <2> QED
    BY <2>2, <2>3, <2>4
<1>3. ~Owns(s, m + 2, m + 1)
  <2>1. k \in 1 .. (m + 1) - 1 /\ ~(m + 2 < m + 1)
    OBVIOUS
  <2> QED
    BY <1>1, <2>1 DEF Owns, ItemTypes
<1>4. \A c : c \in 1 .. (m + 2) - 1 <=> c \in 1 .. m \/ c = m + 1
  OBVIOUS
<1>5. (m + 1) - 1 = m
  OBVIOUS
<1> QED
  BY <1>2, <1>3, <1>4, <1>5 DEF Above

\* What an item owns when its line is over, or when the text is.
LEMMA OwnedIs ==
  ASSUME NEW s, DOMAIN s = 1 .. Len(s), Len(s) \in Nat, NEW m \in 0 .. Len(s), NEW p \in 1 .. m,
         OnlyCommas(s, p, m + 1), m < Len(s) => s[m + 1].t # "comma"
  PROVE  Owned(s, p) = Above(s, p) \cup Inside(s, p)
                         \cup {c \in {m + 1} : m < Len(s) /\ s[c].t = "comment"}
<1>1. \A c : c \in Above(s, p) <=> c \in 1 .. p - 1 /\ Owns(s, p, c)
  BY DEF Above
<1>2. \A c : c \in Inside(s, p) <=> c = p /\ s[c].t = "field" /\ s[c].shape.inner
  BY DEF Inside
<1>3. ~Owns(s, p, p)
  <2>1. ~(p < p)
    OBVIOUS
  <2> QED
    BY <2>1 DEF Owns
<1>4. \A c \in p + 1 .. m : ~Owns(s, p, c)
  <2> SUFFICES ASSUME NEW c \in p + 1 .. m
               PROVE  s[c].t # "comment"
    BY DEF Owns
  <2>1. c \in p + 1 .. (m + 1) - 1
    OBVIOUS
  <2> QED
    BY <2>1 DEF OnlyCommas
<1>5. m < Len(s) => (Owns(s, p, m + 1) <=> s[m + 1].t = "comment")
  <2>1. p < m + 1 /\ ~(m + 1 < p)
    OBVIOUS
  <2> QED
    BY <2>1 DEF Owns
<1>6. \A c \in m + 2 .. Len(s) : ~Owns(s, p, c)
  <2> SUFFICES ASSUME NEW c \in m + 2 .. Len(s)
               PROVE  ~OnlyCommas(s, p, c)  /\ ~(c < p)
    BY DEF Owns
  <2>1. m + 1 \in p + 1 .. c - 1 /\ m < Len(s)
    OBVIOUS
  <2> QED
    BY <2>1 DEF OnlyCommas
<1>7. \A c : c \in 1 .. Len(s) <=> \/ c \in 1 .. p - 1 \/ c = p \/ c \in p + 1 .. m
                                  \/ (c = m + 1 /\ m < Len(s)) \/ c \in m + 2 .. Len(s)
  OBVIOUS
<1>8. \A c : c \in Owned(s, p) <=>
              /\ c \in 1 .. Len(s)
              /\ Owns(s, p, c) \/ (c = p /\ s[c].t = "field" /\ s[c].shape.inner)
  BY DEF Owned
<1>9. \A c : c \in Owned(s, p) <=>
              \/ c \in 1 .. p - 1 /\ Owns(s, p, c)
              \/ c = p /\ s[c].t = "field" /\ s[c].shape.inner
              \/ c = m + 1 /\ m < Len(s) /\ s[c].t = "comment"
  <2>1. \A c \in p + 1 .. m : c # p
    OBVIOUS
  <2>2. \A c \in m + 2 .. Len(s) : c # p
    OBVIOUS
  <2>3. m + 1 # p
    OBVIOUS
  <2> QED
    BY <1>3, <1>4, <1>5, <1>6, <1>7, <1>8, <2>1, <2>2, <2>3
<1> QED
  BY <1>1, <1>2, <1>9

\* Once something else has followed on its line, an item owns what it owns.
LEMMA OwnedStays ==
  ASSUME NEW s, NEW t, GoesOn(s, t), NEW p \in 1 .. Len(s), ~OnlyCommas(s, p, Len(s) + 1)
  PROVE  Owned(t, p) = Owned(s, p) /\ ~OnlyCommas(t, p, Len(t) + 1)
<1>1. PICK k \in p + 1 .. (Len(s) + 1) - 1 : s[k].t # "comma"
  BY DEF OnlyCommas
<1>2. /\ Len(s) \in Nat /\ Len(t) = Len(s) + 1 /\ t[k].t # "comma" /\ DOMAIN s = 1 .. Len(s)
      /\ DOMAIN t = 1 .. Len(s) + 1
  BY <1>1 DEF GoesOn
<1>3. k \in p + 1 .. (Len(t) + 1) - 1 /\ k \in p + 1 .. (Len(s) + 1) - 1
  BY <1>2
<1>4. ~OnlyCommas(t, p, Len(t) + 1) /\ ~OnlyCommas(t, p, Len(s) + 1)
  BY <1>2, <1>3 DEF OnlyCommas
<1>5. ~Owns(t, p, Len(s) + 1) /\ Len(s) + 1 # p
  <2>1. ~(Len(s) + 1 < p) /\ Len(s) + 1 # p
    BY <1>2
  <2> QED
    BY <1>4, <2>1 DEF Owns
<1>6. Above(t, p) = Above(s, p)
  <2>1. p \in 1 .. Len(s) + 1
    BY <1>2
  <2> QED
    BY <2>1, AboveStays
<1>7. ASSUME NEW c \in 1 .. Len(s)
      PROVE  (Owns(t, p, c) <=> Owns(s, p, c)) /\ t[c] = s[c]
  <2>1. t[c] = s[c]
    BY DEF GoesOn
  <2>2. CASE c < p
    <3>1. c \in 1 .. p - 1
      BY <2>2
    <3> QED
      BY <1>6, <2>1, <3>1 DEF Above
  <2>3. CASE ~(c < p)
    <3>1. c \in 1 .. Len(s) + 1 /\ p \in 1 .. Len(s) + 1
      BY <1>2
    <3>2. OnlyCommas(t, p, c) <=> OnlyCommas(s, p, c)
      BY <3>1, CommasStay
    <3> QED
      BY <2>1, <2>3, <3>2 DEF Owns
  <2> QED
    BY <2>2, <2>3
<1>8. \A c : c \in 1 .. Len(s) + 1 <=> c \in 1 .. Len(s) \/ c = Len(s) + 1
  BY <1>2
<1>9. \A c : c \in Owned(t, p) <=> c \in Owned(s, p)
  BY <1>2, <1>5, <1>7, <1>8 DEF Owned
<1> QED
  BY <1>4, <1>9

\* The comments listed stay listed.
LEMMA ListsStays ==
  ASSUME NEW s, NEW t, GoesOn(s, t), NEW C, \A c \in C : c \in 1 .. Len(s), NEW q, Lists(q, s, C)
  PROVE  Lists(q, t, C)
<1>1. \A c \in C : t[c] = s[c]
  BY DEF GoesOn
<1>2. {t[c].id : c \in C} = {s[c].id : c \in C}
  BY <1>1
<1> QED
  BY <1>2 DEF Lists

LEMMA ListsNothing == \A s : Lists(<<>>, s, {})
<1>1. Range(<<>>) = {}
  BY DEF Range
<1> QED
  BY <1>1 DEF Lists

\* One more comment, below those there are.
LEMMA ListsOneMore ==
  ASSUME NEW s, NEW C, NEW q, Lists(q, s, C), NEW c, s[c].id \in Nat,
         \A d \in C : s[d].id < s[c].id
  PROVE  /\ Lists(Append(q, s[c].id), s, C \cup {c})
         /\ Lists(q \o <<s[c].id>>, s, C \cup {c})
         /\ <<s[c].id>> # q
<1> DEFINE x == s[c].id
           r == Append(q, x)
<1>1. q \in Seq(Nat) /\ x \in Nat
  BY DEF Lists
<1>2. /\ r \in Seq(Nat) /\ Len(r) = Len(q) + 1 /\ r[Len(q) + 1] = x
      /\ \A i \in 1 .. Len(q) : r[i] = q[i]
      /\ DOMAIN r = 1 .. Len(q) + 1 /\ DOMAIN q = 1 .. Len(q) /\ Len(q) \in Nat
  BY <1>1
<1>3. q \o <<x>> = r
  BY <1>1
<1> HIDE DEF r, x
<1>4. \A i \in 1 .. Len(q) : q[i] < x
  <2> SUFFICES ASSUME NEW i \in 1 .. Len(q)
               PROVE  q[i] < x
    OBVIOUS
  <2>1. q[i] \in Range(q)
    BY <1>2 DEF Range
  <2> QED
    BY <2>1 DEF Lists, x
<1>5. Range(r) = {s[d].id : d \in C \cup {c}}
  <2>1. \A i : i \in 1 .. Len(q) + 1 <=> i \in 1 .. Len(q) \/ i = Len(q) + 1
    BY <1>2
  <2>2. \A y : y \in Range(r) <=> y \in Range(q) \/ y = x
    BY <1>2, <2>1 DEF Range
  <2>3. Range(q) = {s[d].id : d \in C}
    BY DEF Lists
  <2> QED
    BY <2>2, <2>3 DEF x
<1>6. ASSUME NEW i \in DOMAIN r, NEW j \in DOMAIN r, i < j
      PROVE  r[i] < r[j]
  <2>1. i \in 1 .. Len(q) /\ (j \in 1 .. Len(q) \/ j = Len(q) + 1)
    BY <1>2, <1>6
  <2>2. CASE j \in 1 .. Len(q)
    BY <1>2, <1>6, <2>1, <2>2 DEF Lists
  <2>3. CASE j = Len(q) + 1
    BY <1>2, <1>4, <2>1, <2>3
  <2> QED
    BY <2>1, <2>2, <2>3
<1>7. <<x>> # q
  <2>1. ASSUME <<x>> = q
        PROVE  FALSE
    <3>1. Len(q) = 1 /\ q[1] = x
      BY <2>1
    <3>2. q[1] < x
      BY <1>4, <3>1
    <3> QED
      BY <1>1, <3>1, <3>2
  <2> QED
    BY <2>1
<1> QED
  BY <1>2, <1>3, <1>5, <1>6, <1>7 DEF Lists, r, x

\* On the line of an item there was no newline since.
LEMMA ItemIsNoNewline ==
  ASSUME NEW s, NEW m \in Nat, NextTo(s, m)
  PROVE  ~AfterNewline(s, m)
<1> SUFFICES ASSUME AfterNewline(s, m)
             PROVE  FALSE
  OBVIOUS
<1>1. PICK k \in 1 .. m : s[k].t \in ItemTypes /\ OnlyCommas(s, k, m + 1)
  BY DEF NextTo
<1>2. PICK j \in 1 .. m : s[j].t = "newline" /\ OnlyCommas(s, j, m + 1)
  BY DEF AfterNewline
<1>3. k \in j + 1 .. (m + 1) - 1 \/ j \in k + 1 .. (m + 1) - 1 \/ j = k
  OBVIOUS
<1> QED
  BY <1>1, <1>2, <1>3 DEF OnlyCommas, ItemTypes

-----------------------------------------------------------------------------
(***************************************************************************)
(* The comments in a frame, when the first m nodes have been dealt with:   *)
(* loose ones for the next item, or those that an item already has.        *)
(***************************************************************************)
IsPlain(v) == v.comments = <<>> /\ "comments" \in DOMAIN v /\ HasValue(v)

\* The nodes of a frame, whose ids are at most k.
Text(s, k) ==
  /\ IsSequence(s)
  /\ \A i \in 1 .. Len(s) : s[i].id \in Nat /\ s[i].id <= k
  /\ \A i, j \in 1 .. Len(s) : i < j => s[i].id < s[j].id
  /\ \A i \in 1 .. Len(s) : i < Len(s) /\ s[i].t = "comment" => s[i + 1].t = "newline"

AtItem(f, p) ==
  /\ f.seen[p].id = f.item
  /\ f.seen[p].t = IF f.fn = "object" THEN "field" ELSE "value"
  /\ f.newline = FALSE

Loose(f, m) ==
  /\ Lists(f.comments, f.seen, Above(f.seen, m + 1))
  /\ f.newline \in BOOLEAN
  /\ f.newline = TRUE <=> AfterNewline(f.seen, m)

Trails(f, m) ==
  /\ f.comments = <<>>
  /\ "comments" \in DOMAIN f.field.v
  /\ \E p \in 1 .. m : /\ AtItem(f, p) /\ OnlyCommas(f.seen, p, m + 1)
                       /\ Lists(f.field.v.comments, f.seen, Above(f.seen, p) \cup Inside(f.seen, p))

HasComment(f, p, m) ==
  /\ p < m /\ f.seen[m].t = "comment" /\ OnlyCommas(f.seen, p, m)
  /\ f.comments = <<f.seen[m].id>>

Pends(f, m) ==
  /\ "comments" \in DOMAIN f.v
  /\ \E p \in 1 .. m : /\ AtItem(f, p)
                       /\ Lists(f.v.comments, f.seen, Above(f.seen, p))
                       /\ \/ f.comments = <<>> /\ OnlyCommas(f.seen, p, m + 1)
                          \/ HasComment(f, p, m)

\* The value of the last node is being parsed.
Awaiting(f) ==
  /\ f.seen # <<>>
  /\ AtItem(f, Len(f.seen))
  /\ Lists(f.comments, f.seen, Above(f.seen, Len(f.seen)) \cup Inside(f.seen, Len(f.seen)))

HasElement(f) == f.fn = "array" /\ HasValue(f.v)
IsTrailing(f) == f.field.stage = "trailing"

\* An item may only be next to what is no comment and no comma.
Settled(f, m, over) ==
  /\ IsTrailing(f) => Trails(f, m)
  /\ HasElement(f) => Pends(f, m)
  /\ ~IsTrailing(f) /\ ~HasElement(f) => Loose(f, m) /\ (over \/ ~NextTo(f.seen, m))

IsOver(f, n) == f.fn = "object" /\ n.t \notin {"comment", "comma"}
IsEnd(c)     == c.op = "node" /\ c.n.t = "end"
IsLast(f, n) == f.seen # <<>> /\ f.seen[Len(f.seen)] = n

Ready(f, c) ==
  /\ c.op \in {"parse", "value"} => Awaiting(f)
  /\ c.op = "next" => Settled(f, Len(f.seen), FALSE)
  /\ IsEnd(c) => Settled(f, Len(f.seen), TRUE)
  /\ c.op = "node" /\ ~IsEnd(c) => IsLast(f, c.n) /\ Settled(f, Len(f.seen) - 1, IsOver(f, c.n))

\* What was given is right, and stays right unless the text is at its end.
GivenIn(f, g, ending) ==
  \E p \in 1 .. Len(f.seen) : /\ f.seen[p].id = g.id
                              /\ Lists(g.comments, f.seen, Owned(f.seen, p))
                              /\ ending \/ ~OnlyCommas(f.seen, p, Len(f.seen) + 1)
Given(f, ending) == \A g \in f.given : GivenIn(f, g, ending)

ArePlain(s) == IsSequence(s) /\ \A i \in 1 .. Len(s) : IsPlain(s[i])

Fine(f, k, c) ==
  /\ Text(f.seen, k)
  /\ Given(f, c.op \in {"throw", "done"} \/ IsEnd(c))
  /\ f.fn \in {"object", "array"} => Ready(f, c)
  /\ f.fn = "concatenation" => ArePlain(f.values) /\ (IsEnd(c) => f.values # <<>>)

Below == Parse("any")

CommentsInv ==
  /\ count \in Nat
  /\ ctl.op = "value" => IsPlain(ctl.v)
  /\ \A i \in 1 .. Len(stack) : i < Len(stack) => Fine(stack[i], count, Below)
  /\ Fine(Top, count, ctl)

-----------------------------------------------------------------------------
(* A node is read.                                                         *)

LEMMA TextGoesOn ==
  ASSUME NEW s, NEW k \in Nat, Text(s, k), NEW n, n.id = k + 1,
         s # <<>> /\ s[Len(s)].t = "comment" => n.t = "newline"
  PROVE  /\ Text(Append(s, n), k + 1) /\ GoesOn(s, Append(s, n))
         /\ Append(s, n)[Len(s) + 1] = n /\ Append(s, n) # <<>>
<1> DEFINE t == Append(s, n)
<1>1. /\ IsSequence(t) /\ Len(t) = Len(s) + 1 /\ t[Len(s) + 1] = n
      /\ \A i \in 1 .. Len(s) : t[i] = s[i]
      /\ DOMAIN t = 1 .. Len(s) + 1
  BY Pushing DEF Text
<1>2. Len(s) \in Nat /\ DOMAIN s = 1 .. Len(s)
  BY DEF Text, IsSequence
<1> HIDE DEF t
<1>3. GoesOn(s, t) /\ t # <<>>
  BY <1>1, <1>2, EmptyIsSequence DEF GoesOn
<1>4. \A i : i \in 1 .. Len(s) + 1 <=> i \in 1 .. Len(s) \/ i = Len(s) + 1
  BY <1>2
<1>5. \A i \in 1 .. Len(t) : t[i].id \in Nat /\ t[i].id <= k + 1
  <2>1. \A i \in 1 .. Len(s) : s[i].id \in Nat /\ s[i].id <= k
    BY DEF Text
  <2> QED
    BY <1>1, <1>4, <2>1
<1>6. ASSUME NEW i \in 1 .. Len(t), NEW j \in 1 .. Len(t), i < j
      PROVE  t[i].id < t[j].id
  <2>1. i \in 1 .. Len(s) /\ t[i] = s[i] /\ s[i].id \in Nat /\ s[i].id <= k
    BY <1>1, <1>2, <1>6 DEF Text
  <2>2. CASE j \in 1 .. Len(s)
    BY <1>1, <1>6, <2>1, <2>2 DEF Text
  <2>3. CASE j = Len(s) + 1
    BY <1>1, <2>1, <2>3
  <2> QED
    BY <1>1, <1>4, <2>2, <2>3
<1>7. ASSUME NEW i \in 1 .. Len(t), i < Len(t), t[i].t = "comment"
      PROVE  t[i + 1].t = "newline"
  <2>0. Len(t) = Len(s) + 1 /\ Len(s) \in Nat /\ i < Len(t)
    BY <1>1, <1>2, <1>7
  <2>1. i \in 1 .. Len(s) /\ (i < Len(s) \/ i = Len(s))
    BY <2>0
  <2>2. CASE i < Len(s)
    <3>1. i + 1 \in 1 .. Len(s)
      BY <2>0, <2>1, <2>2
    <3> QED
      BY <1>1, <1>7, <2>1, <2>2, <3>1 DEF Text
  <2>3. CASE i = Len(s)
    BY <1>1, <1>2, <1>7, <2>1, <2>3, EmptyIsSequence
  <2> QED
    BY <2>1, <2>2, <2>3
<1> QED
  BY <1>1, <1>3, <1>5, <1>6, <1>7 DEF Text, t

\* The locals of a frame do not change when a node is read.
LEMMA SettledStays ==
  ASSUME NEW f, NEW n, NEW over, GoesOn(f.seen, Append(f.seen, n)), "seen" \in DOMAIN f,
         Settled(f, Len(f.seen), FALSE)
  PROVE  Settled([f EXCEPT !.seen = Append(@, n)], Len(f.seen), over)
<1> DEFINE t == Append(f.seen, n)
           g == [f EXCEPT !.seen = Append(@, n)]
           s == f.seen
           m == Len(s)
<1>1. /\ g.seen = t /\ g.fn = f.fn /\ g.comments = f.comments /\ g.newline = f.newline
      /\ g.field = f.field /\ g.v = f.v /\ g.item = f.item
  OBVIOUS
<1>2. GoesOn(s, t)
  OBVIOUS
<1>3. m \in Nat /\ \A i \in 1 .. m : t[i] = s[i]
  BY DEF GoesOn
<1> HIDE DEF t, g, m
<1>4. ASSUME NEW p \in 1 .. m
      PROVE  /\ Above(t, p) = Above(s, p) /\ Inside(t, p) = Inside(s, p)
             /\ \A c \in Above(s, p) \cup Inside(s, p) : c \in 1 .. m
             /\ \A j \in 1 .. m + 1 : OnlyCommas(t, p, j) <=> OnlyCommas(s, p, j)
             /\ AtItem(f, p) <=> AtItem(g, p)
  <2>1. p \in 1 .. m + 1
    BY <1>3
  <2>2. Above(t, p) = Above(s, p)
    BY <1>2, <2>1, AboveStays DEF m
  <2>3. Inside(t, p) = Inside(s, p)
    BY <1>3 DEF Inside
  <2>4. \A c \in Above(s, p) \cup Inside(s, p) : c \in 1 .. m
    BY <1>3 DEF Above, Inside
  <2>5. \A j \in 1 .. m + 1 : OnlyCommas(t, p, j) <=> OnlyCommas(s, p, j)
    BY <1>2, <2>1, CommasStay DEF m
  <2>6. AtItem(f, p) <=> AtItem(g, p)
    BY <1>1, <1>3 DEF AtItem
  <2> QED
    BY <2>2, <2>3, <2>4, <2>5, <2>6
<1>5. m + 1 \in 1 .. m + 1
  BY <1>3
<1>6. NextTo(t, m) <=> NextTo(s, m)
  BY <1>3, <1>4, <1>5 DEF NextTo
<1>7. AfterNewline(t, m) <=> AfterNewline(s, m)
  BY <1>3, <1>4, <1>5 DEF AfterNewline
<1>8. IsTrailing(f) => Trails(g, m)
  <2> SUFFICES ASSUME Trails(f, m)
               PROVE  Trails(g, m)
    BY DEF Settled, m
  <2>1. PICK p \in 1 .. m : /\ AtItem(f, p) /\ OnlyCommas(s, p, m + 1)
                            /\ Lists(f.field.v.comments, s, Above(s, p) \cup Inside(s, p))
    BY DEF Trails
  <2>2. Lists(f.field.v.comments, t, Above(s, p) \cup Inside(s, p))
    BY <1>2, <1>4, <2>1, ListsStays DEF m
  <2> QED
    BY <1>1, <1>4, <1>5, <2>1, <2>2 DEF Trails
<1>9. HasElement(f) => Pends(g, m)
  <2> SUFFICES ASSUME Pends(f, m)
               PROVE  Pends(g, m)
    BY DEF Settled, m
  <2>1. PICK p \in 1 .. m : /\ AtItem(f, p)
                            /\ Lists(f.v.comments, s, Above(s, p))
                            /\ \/ f.comments = <<>> /\ OnlyCommas(s, p, m + 1)
                               \/ HasComment(f, p, m)
    BY DEF Pends
  <2>2. Lists(f.v.comments, t, Above(s, p))
    BY <1>2, <1>4, <2>1, ListsStays DEF m
  <2>3. HasComment(f, p, m) => HasComment(g, p, m)
    <3>1. m \in 1 .. m + 1 /\ t[m] = s[m]
      BY <1>3
    <3> QED
      BY <1>1, <1>4, <3>1 DEF HasComment
  <2> QED
    BY <1>1, <1>4, <1>5, <2>1, <2>2, <2>3 DEF Pends
<1>10. Loose(f, m) => Loose(g, m)
  <2>1. Above(t, m + 1) = Above(s, m + 1) /\ \A c \in Above(s, m + 1) : c \in 1 .. m
    <3>1. Above(t, m + 1) = Above(s, m + 1)
      BY <1>2, <1>5, AboveStays DEF m
    <3> QED
      BY <1>3, <3>1 DEF Above
  <2>2. Lists(f.comments, s, Above(s, m + 1)) => Lists(f.comments, t, Above(s, m + 1))
    BY <1>2, <2>1, ListsStays DEF m
  <2> QED
    BY <1>1, <1>7, <2>1, <2>2 DEF Loose
<1>11. (IsTrailing(g) <=> IsTrailing(f)) /\ (HasElement(g) <=> HasElement(f))
  BY <1>1 DEF IsTrailing, HasElement
<1>12. Settled(g, m, over)
  BY <1>1, <1>6, <1>8, <1>9, <1>10, <1>11 DEF Settled, m
<1> QED
  BY <1>12 DEF g, m

\* Nor does it change what was given.
LEMMA GivenStays ==
  ASSUME NEW f, NEW n, GoesOn(f.seen, Append(f.seen, n)), "seen" \in DOMAIN f, Given(f, FALSE)
  PROVE  Given([f EXCEPT !.seen = Append(@, n)], FALSE)
<1> DEFINE t == Append(f.seen, n)
           g == [f EXCEPT !.seen = Append(@, n)]
<1>1. g.seen = t /\ g.given = f.given /\ GoesOn(f.seen, t)
  OBVIOUS
<1> HIDE DEF t, g
<1> SUFFICES ASSUME NEW x \in f.given
             PROVE  GivenIn(g, x, FALSE)
  BY <1>1 DEF Given, g
<1>2. PICK p \in 1 .. Len(f.seen) : /\ f.seen[p].id = x.id
                                    /\ Lists(x.comments, f.seen, Owned(f.seen, p))
                                    /\ ~OnlyCommas(f.seen, p, Len(f.seen) + 1)
  BY DEF Given, GivenIn
<1>3. Owned(t, p) = Owned(f.seen, p) /\ ~OnlyCommas(t, p, Len(t) + 1)
  BY <1>1, <1>2, OwnedStays
<1>4. \A c \in Owned(f.seen, p) : c \in 1 .. Len(f.seen)
  BY <1>1 DEF Owned, GoesOn
<1>5. Lists(x.comments, t, Owned(f.seen, p))
  BY <1>1, <1>2, <1>4, ListsStays
<1>6. p \in 1 .. Len(t) /\ t[p] = f.seen[p]
  BY <1>1 DEF GoesOn
<1> QED
  BY <1>1, <1>2, <1>3, <1>5, <1>6 DEF GivenIn

-----------------------------------------------------------------------------
(* The node at m + 1 is dealt with between items.                          *)

LEMMA LooseComment ==
  ASSUME NEW f, NEW g, NEW k, Text(f.seen, k), NEW m \in Nat, m + 1 <= Len(f.seen), Loose(f, m),
         f.seen[m + 1].t = "comment", ~NextTo(f.seen, m), g.seen = f.seen,
         g.comments = Append(f.comments, f.seen[m + 1].id), g.newline = FALSE
  PROVE  Loose(g, m + 1) /\ ~NextTo(g.seen, m + 1)
<1> DEFINE s == f.seen
           C == Above(s, m + 1)
<1>1. m + 1 \in Nat \ {0} /\ (m + 1) - 1 = m /\ (m + 1) + 1 = m + 2
  OBVIOUS
<1>2. Above(s, m + 2) = C \cup {m + 1}
  BY <1>1, AboveGoesOn
<1>3. \A d \in C : s[d].id < s[m + 1].id
  <2> SUFFICES ASSUME NEW d \in 1 .. m
               PROVE  s[d].id < s[m + 1].id
    BY <1>1 DEF Above
  <2>1. Len(s) \in Nat
    BY DEF Text, IsSequence
  <2>2. d \in 1 .. Len(s) /\ m + 1 \in 1 .. Len(s) /\ d < m + 1
    BY <2>1
  <2> QED
    BY <2>2 DEF Text
<1>4. s[m + 1].id \in Nat
  <2>1. m + 1 \in 1 .. Len(s)
    BY DEF Text, IsSequence
  <2> QED
    BY <2>1 DEF Text
<1>5. Lists(f.comments, s, C)
  BY DEF Loose
<1> HIDE DEF C, s
<1>6. Lists(g.comments, s, C \cup {m + 1})
  <2>1. PICK c : c = m + 1
    OBVIOUS
  <2>2. s[c].id \in Nat /\ \A d \in C : s[d].id < s[c].id
    BY <1>3, <1>4, <2>1
  <2>3. Lists(Append(f.comments, s[c].id), s, C \cup {c})
    BY <1>5, <2>2, ListsOneMore
  <2> QED
    BY <2>1, <2>3 DEF s
<1>7. ~AfterNewline(s, m + 1) /\ ~NextTo(s, m + 1)
  BY LineGoesOn DEF ItemTypes, s
<1> QED
  BY <1>1, <1>2, <1>6, <1>7 DEF Loose, C, s

LEMMA LooseNewline ==
  ASSUME NEW f, NEW g, NEW m \in Nat, Loose(f, m), f.seen[m + 1].t = "newline", g.seen = f.seen,
         g.comments = CommentsAfterNewline(f), g.newline = TRUE
  PROVE  Loose(g, m + 1) /\ ~NextTo(g.seen, m + 1)
<1>1. m + 1 \in Nat \ {0} /\ (m + 1) - 1 = m /\ (m + 1) + 1 = m + 2
  OBVIOUS
<1>2. Above(f.seen, m + 2) = IF AfterNewline(f.seen, m) THEN {} ELSE Above(f.seen, m + 1)
  BY <1>1, AboveGoesOn
<1>3. AfterNewline(f.seen, m + 1) /\ ~NextTo(f.seen, m + 1)
  BY LineGoesOn DEF ItemTypes
<1>4. Lists(g.comments, f.seen, Above(f.seen, m + 2))
  <2>1. CASE f.newline = TRUE
    BY <1>2, <2>1, ListsNothing DEF Loose, CommentsAfterNewline
  <2>2. CASE f.newline = FALSE
    BY <1>2, <2>2 DEF Loose, CommentsAfterNewline
  <2> QED
    BY <2>1, <2>2 DEF Loose
<1> QED
  BY <1>1, <1>3, <1>4 DEF Loose

LEMMA LooseInclude ==
  ASSUME NEW f, NEW g, NEW m \in Nat, Loose(f, m), f.seen[m + 1].t = "include", g.seen = f.seen,
         g.comments = f.comments, g.newline = FALSE
  PROVE  Loose(g, m + 1) /\ ~NextTo(g.seen, m + 1)
<1>1. m + 1 \in Nat \ {0} /\ (m + 1) - 1 = m /\ (m + 1) + 1 = m + 2
  OBVIOUS
<1>2. Above(f.seen, m + 2) = Above(f.seen, m + 1)
  BY <1>1, AboveGoesOn
<1>3. ~AfterNewline(f.seen, m + 1) /\ ~NextTo(f.seen, m + 1)
  BY LineGoesOn DEF ItemTypes
<1> QED
  BY <1>1, <1>2, <1>3 DEF Loose

LEMMA LooseComma ==
  ASSUME NEW f, NEW m \in Nat, Loose(f, m), f.seen[m + 1].t = "comma", ~NextTo(f.seen, m)
  PROVE  Loose(f, m + 1) /\ ~NextTo(f.seen, m + 1)
<1>1. m + 1 \in Nat \ {0} /\ (m + 1) - 1 = m /\ (m + 1) + 1 = m + 2
  OBVIOUS
<1>2. Above(f.seen, m + 2) = Above(f.seen, m + 1)
  BY <1>1, AboveGoesOn
<1>3. (AfterNewline(f.seen, m + 1) <=> AfterNewline(f.seen, m)) /\ ~NextTo(f.seen, m + 1)
  BY LineGoesOn DEF ItemTypes
<1> QED
  BY <1>1, <1>2, <1>3 DEF Loose

\* An item begins at m + 1.
LEMMA LooseItem ==
  ASSUME NEW f, NEW k, Text(f.seen, k), f.seen # <<>>, Loose(f, Len(f.seen) - 1),
         NEW q, q = IF f.seen[Len(f.seen)].t = "field" /\ f.seen[Len(f.seen)].shape.inner
                    THEN Append(f.comments, f.seen[Len(f.seen)].id) ELSE f.comments
  PROVE  Lists(q, f.seen, Above(f.seen, Len(f.seen)) \cup Inside(f.seen, Len(f.seen)))
<1> DEFINE s == f.seen
           n == Len(s)
           C == Above(s, n)
<1>1. n \in Nat \ {0} /\ (n - 1) + 1 = n
  BY Popping DEF Text
<1>2. Lists(f.comments, s, C)
  BY <1>1 DEF Loose
<1>3. \A d \in C : s[d].id < s[n].id
  <2> SUFFICES ASSUME NEW d \in 1 .. n - 1
               PROVE  s[d].id < s[n].id
    BY DEF Above
  <2>1. d \in 1 .. n /\ n \in 1 .. n /\ d < n
    BY <1>1
  <2> QED
    BY <2>1 DEF Text
<1>4. s[n].id \in Nat
  BY <1>1 DEF Text
<1> HIDE DEF C, n, s
<1>5. CASE s[n].t = "field" /\ s[n].shape.inner
  <2>1. Inside(s, n) = {n}
    BY <1>5 DEF Inside
  <2>2. q = Append(f.comments, s[n].id)
    BY <1>5 DEF n, s
  <2>3. Lists(Append(f.comments, s[n].id), s, C \cup {n})
    BY <1>2, <1>3, <1>4, ListsOneMore
  <2> QED
    BY <2>1, <2>2, <2>3 DEF C, n, s
<1>6. CASE ~(s[n].t = "field" /\ s[n].shape.inner)
  <2>1. Inside(s, n) = {} /\ q = f.comments
    BY <1>6 DEF Inside, n, s
  <2> QED
    BY <1>2, <2>1 DEF C, n, s
<1> QED
  BY <1>5, <1>6

-----------------------------------------------------------------------------
(* The line of an item is over.                                            *)

LEMMA ItemOwns ==
  ASSUME NEW s, NEW k, Text(s, k), NEW m \in 0 .. Len(s), NEW p \in 1 .. m,
         OnlyCommas(s, p, m + 1), m < Len(s) => s[m + 1].t # "comma",
         NEW q, Lists(q, s, Above(s, p) \cup Inside(s, p))
  PROVE  /\ ~(m < Len(s) /\ s[m + 1].t = "comment") => Lists(q, s, Owned(s, p))
         /\ m < Len(s) /\ s[m + 1].t = "comment" =>
              Lists(q \o <<s[m + 1].id>>, s, Owned(s, p)) /\ <<s[m + 1].id>> # q
         /\ m < Len(s) => ~OnlyCommas(s, p, Len(s) + 1)
<1> DEFINE C == Above(s, p) \cup Inside(s, p)
<1>1. Len(s) \in Nat /\ DOMAIN s = 1 .. Len(s)
  BY DEF Text, IsSequence
<1>2. Owned(s, p) = C \cup {c \in {m + 1} : m < Len(s) /\ s[c].t = "comment"}
  BY <1>1, OwnedIs
<1>3. ASSUME m < Len(s)
      PROVE  ~OnlyCommas(s, p, Len(s) + 1)
  <2>1. m + 1 \in p + 1 .. (Len(s) + 1) - 1
    BY <1>1, <1>3
  <2> QED
    BY <1>3, <2>1 DEF OnlyCommas
<1>4. ASSUME m < Len(s)
      PROVE  s[m + 1].id \in Nat /\ \A d \in C : s[d].id < s[m + 1].id
  <2>1. m + 1 \in 1 .. Len(s)
    BY <1>1, <1>4
  <2>2. \A d \in C : d \in 1 .. Len(s) /\ d < m + 1
    BY <1>1 DEF Above, Inside
  <2> QED
    BY <2>1, <2>2 DEF Text
<1> HIDE DEF C
<1>5. ASSUME m < Len(s), s[m + 1].t = "comment"
      PROVE  Lists(q \o <<s[m + 1].id>>, s, Owned(s, p)) /\ <<s[m + 1].id>> # q
  <2>1. PICK c : c = m + 1
    OBVIOUS
  <2>2. s[c].id \in Nat /\ (\A d \in C : s[d].id < s[c].id) /\ Lists(q, s, C)
    BY <1>4, <1>5, <2>1 DEF C
  <2>3. Lists(q \o <<s[c].id>>, s, C \cup {c}) /\ <<s[c].id>> # q
    BY <2>2, ListsOneMore
  <2>4. Owned(s, p) = C \cup {c}
    BY <1>2, <1>5, <2>1
  <2> QED
    BY <2>1, <2>3, <2>4
<1>6. ASSUME ~(m < Len(s) /\ s[m + 1].t = "comment")
      PROVE  Lists(q, s, Owned(s, p))
  <2>1. Owned(s, p) = C
    BY <1>2, <1>6
  <2> QED
    BY <2>1 DEF C
<1> QED
  BY <1>3, <1>5, <1>6

LEMMA ItemIsNext ==
  ASSUME NEW s, NEW m, NEW p \in 1 .. m, s[p].t \in ItemTypes, OnlyCommas(s, p, m + 1)
  PROVE  NextTo(s, m)
BY DEF NextTo

\* After an item and its line no comment is loose.
LEMMA LooseAfterItem ==
  ASSUME NEW g, NEW m \in Nat, NextTo(g.seen, m), g.comments = <<>>
  PROVE  /\ g.newline = FALSE => Loose(g, m)
         /\ g.seen[m + 1].t = "comment" /\ g.newline = FALSE =>
              Loose(g, m + 1) /\ ~NextTo(g.seen, m + 1)
         /\ g.seen[m + 1].t = "newline" /\ g.newline = TRUE =>
              Loose(g, m + 1) /\ ~NextTo(g.seen, m + 1)
         /\ g.seen[m + 1].t = "comment" /\ g.seen[m + 2].t = "newline" /\ g.newline = TRUE =>
              Loose(g, m + 2) /\ ~NextTo(g.seen, m + 2)
<1> DEFINE s == g.seen
<1>1. /\ m + 1 \in Nat \ {0} /\ (m + 1) - 1 = m /\ (m + 1) + 1 = m + 2
      /\ m + 2 \in Nat \ {0} /\ (m + 2) - 1 = m + 1 /\ (m + 2) + 1 = m + 3 /\ m + 1 \in Nat
  OBVIOUS
<1>2. Lists(<<>>, s, {}) /\ ~AfterNewline(s, m) /\ Above(s, m + 1) = {}
  BY ListsNothing, ItemIsNoNewline, NothingAbove
<1>3. g.newline = FALSE => Loose(g, m)
  BY <1>2 DEF Loose
<1>4. ASSUME s[m + 1].t = "comment"
      PROVE  Above(s, m + 2) = {} /\ ~AfterNewline(s, m + 1) /\ ~NextTo(s, m + 1)
  BY <1>4, NothingAbove, LineGoesOn DEF ItemTypes
<1>5. ASSUME s[m + 1].t = "newline"
      PROVE  Above(s, m + 2) = {} /\ AfterNewline(s, m + 1) /\ ~NextTo(s, m + 1)
  <2>1. AfterNewline(s, m + 1) /\ ~NextTo(s, m + 1)
    BY <1>5, LineGoesOn DEF ItemTypes
  <2>2. Above(s, (m + 1) + 1) = {}
    BY <1>1, <1>2, <1>5, AboveGoesOn
  <2> QED
    BY <1>1, <2>1, <2>2
<1>6. ASSUME s[m + 1].t = "comment", s[m + 2].t = "newline"
      PROVE  Above(s, m + 3) = {} /\ AfterNewline(s, m + 2) /\ ~NextTo(s, m + 2)
  <2>1. PICK j \in Nat : j = m + 1
    BY <1>1
  <2>2. AfterNewline(s, j + 1) /\ ~NextTo(s, j + 1)
    BY <1>1, <1>6, <2>1, LineGoesOn DEF ItemTypes
  <2>3. Above(s, m + 2) = {}
    BY <1>4, <1>6
  <2>4. Above(s, (m + 2) + 1) = {}
    BY <1>1, <1>6, <2>3, AboveGoesOn
  <2> QED
    BY <1>1, <2>1, <2>2, <2>4
<1> QED
  BY <1>1, <1>2, <1>3, <1>4, <1>5, <1>6 DEF Loose

\* A value gets comments behind or in front of those it has.
LEMMA CommentsAppended ==
  ASSUME NEW v, "comments" \in DOMAIN v, v.comments \in Seq(Nat), NEW q \in Seq(Nat)
  PROVE  /\ q = <<>> => AppendComments(v, q).comments = v.comments
         /\ q # v.comments => AppendComments(v, q).comments = v.comments \o q
<1>1. v.comments \o <<>> = v.comments
  OBVIOUS
<1>2. [v EXCEPT !.comments = @ \o q].comments = v.comments \o q
  OBVIOUS
<1> QED
  BY <1>1, <1>2 DEF AppendComments

LEMMA CommentsPrepended ==
  ASSUME NEW v, IsPlain(v), NEW q \in Seq(Nat)
  PROVE  /\ PrependComments(v, q).comments = q
         /\ "comments" \in DOMAIN PrependComments(v, q)
         /\ HasValue(PrependComments(v, q))
<1>1. q \o <<>> = q
  OBVIOUS
<1>2. [v EXCEPT !.comments = q \o @].comments = q \o v.comments
  BY DEF IsPlain
<1>3. [v EXCEPT !.comments = q \o @].t = v.t
  OBVIOUS
<1>4. DOMAIN [v EXCEPT !.comments = q \o @] = DOMAIN v
  OBVIOUS
<1> QED
  BY <1>1, <1>2, <1>3, <1>4 DEF PrependComments, IsPlain, HasValue

-----------------------------------------------------------------------------
(* From frames to the stack.                                               *)

LEMMA GivenEnds == \A f : Given(f, FALSE) => Given(f, TRUE)
BY DEF Given, GivenIn

\* The same frame when more nodes are known, under another or at the top.
LEMMA FineLater ==
  ASSUME NEW f, NEW k \in Nat, NEW k2 \in Nat, k <= k2, NEW c, Fine(f, k, c)
  PROVE  Fine(f, k2, c)
<1>1. \A i \in 1 .. Len(f.seen) : f.seen[i].id \in Nat /\ f.seen[i].id <= k2
  <2>1. \A i \in 1 .. Len(f.seen) : f.seen[i].id \in Nat /\ f.seen[i].id <= k
    BY DEF Fine, Text
  <2> QED
    BY <2>1
<1>2. Text(f.seen, k2)
  BY <1>1 DEF Fine, Text
<1> QED
  BY <1>2 DEF Fine

LEMMA FineBelow ==
  ASSUME NEW f, NEW k, NEW c, c.op \in {"parse", "value"}
  PROVE  Fine(f, k, c) <=> Fine(f, k, Below)
<1>1. /\ ~(c.op \in {"throw", "done"} \/ IsEnd(c)) /\ Below.op = "parse"
      /\ ~(Below.op \in {"throw", "done"} \/ IsEnd(Below))
  BY DEF IsEnd, Below, Parse
<1>2. Ready(f, c) <=> Ready(f, Below)
  BY <1>1 DEF Ready
<1> QED
  BY <1>1, <1>2 DEF Fine

LEMMA FineOver ==
  ASSUME NEW f, NEW g, NEW k, NEW c, Fine(f, k, c), NEW c2, c2.op \in {"throw", "done"},
         g.seen = f.seen, g.given = f.given, g.fn = f.fn, g.values = f.values
  PROVE  Fine(g, k, c2)
<1>1. Given(f, TRUE)
  BY GivenEnds DEF Fine
<1>2. Given(g, c2.op \in {"throw", "done"} \/ IsEnd(c2))
  BY <1>1 DEF Given, GivenIn
<1>3. Ready(g, c2)
  BY DEF Ready, IsEnd
<1>4. ~IsEnd(c2)
  BY DEF IsEnd
<1> QED
  BY <1>2, <1>3, <1>4 DEF Fine

LEMMA TopChanges ==
  ASSUME Inv, CommentsInv, NEW f, SetTop(f), count' \in Nat, count <= count',
         Fine(f, count', ctl'), ctl'.op # "value"
  PROVE  CommentsInv'
<1>1. Len(stack) \in Nat \ {0} /\ DOMAIN stack = 1 .. Len(stack) /\ Top = stack[Len(stack)]
  BY TopFacts DEF Inv
<1>2. /\ Len(stack') = Len(stack) /\ stack'[Len(stack)] = f
      /\ \A i \in 1 .. Len(stack) - 1 : stack'[i] = stack[i]
  <2>1. IsSequence(stack) /\ stack # <<>> /\ stack' = Retopped(stack, f)
    BY DEF SetTop, Inv, TypeOK
  <2> QED
    BY <2>1, ChangingTop
<1>3. ASSUME NEW i \in 1 .. Len(stack), i < Len(stack)
      PROVE  Fine(stack'[i], count', Below)
  <2>1. i \in 1 .. Len(stack) - 1
    BY <1>1, <1>3
  <2>2. Fine(stack[i], count, Below) /\ count \in Nat
    BY <1>3 DEF CommentsInv
  <2> QED
    BY <1>2, <2>1, <2>2, FineLater
<1>4. Top' = f
  BY <1>2 DEF Top
<1> QED
  BY <1>2, <1>3, <1>4 DEF CommentsInv

LEMMA TopStays ==
  ASSUME CommentsInv, UNCHANGED <<stack, count>>, Fine(Top, count, ctl'),
         ctl'.op = "value" => IsPlain(ctl'.v)
  PROVE  CommentsInv'
BY DEF CommentsInv, Top

\* At a node: what there is before it.
LEMMA AtNode ==
  ASSUME Inv, CommentsInv, ctl.op = "node", ctl.n.t # "end"
  PROVE  /\ IsFrame(Top) /\ Text(Top.seen, count) /\ Given(Top, FALSE) /\ count \in Nat
         /\ Top.fn = "concatenation" => ArePlain(Top.values)
         /\ Top.fn \in {"object", "array"} =>
              /\ Top.seen # <<>> /\ Len(Top.seen) \in Nat \ {0} /\ Top.seen[Len(Top.seen)] = ctl.n
              /\ Len(Top.seen) - 1 \in Nat /\ (Len(Top.seen) - 1) + 1 = Len(Top.seen)
              /\ Settled(Top, Len(Top.seen) - 1, IsOver(Top, ctl.n))
<1>1. ~IsEnd(ctl) /\ ~(ctl.op \in {"throw", "done"} \/ IsEnd(ctl))
  BY DEF IsEnd
<1>2. IsFrame(Top)
  BY TopFacts DEF Inv
<1>3. /\ Text(Top.seen, count) /\ Given(Top, FALSE) /\ count \in Nat
      /\ Top.fn = "concatenation" => ArePlain(Top.values)
  BY <1>1 DEF CommentsInv, Fine
<1>4. ASSUME Top.fn \in {"object", "array"}
      PROVE  /\ IsLast(Top, ctl.n) /\ Settled(Top, Len(Top.seen) - 1, IsOver(Top, ctl.n))
             /\ Len(Top.seen) \in Nat \ {0}
  <2>1. IsLast(Top, ctl.n) /\ Settled(Top, Len(Top.seen) - 1, IsOver(Top, ctl.n))
    BY <1>1, <1>4 DEF CommentsInv, Fine, Ready
  <2>2. Len(Top.seen) \in Nat \ {0}
    BY <1>3, <2>1, Popping DEF IsLast, Text
  <2> QED
    BY <2>1, <2>2
<1>5. \A n \in Nat \ {0} : n - 1 \in Nat /\ (n - 1) + 1 = n
  OBVIOUS
<1> QED
  BY <1>2, <1>3, <1>4, <1>5 DEF IsLast

\* A frame that goes on to the next node, with what was given as it was.
LEMMA FineNext ==
  ASSUME NEW f, NEW g, NEW k, NEW c, Text(f.seen, k), Given(f, FALSE), g.seen = f.seen,
         g.given = f.given, c.op = "next",
         g.fn \in {"object", "array"} => Settled(g, Len(f.seen), FALSE),
         g.fn = "concatenation" => ArePlain(g.values)
  PROVE  Fine(g, k, c)
<1>1. ~(c.op \in {"throw", "done"} \/ IsEnd(c))
  BY DEF IsEnd
<1>2. Given(g, FALSE)
  BY DEF Given, GivenIn
<1>3. g.fn \in {"object", "array"} => Ready(g, c)
  BY <1>1 DEF Ready
<1> QED
  BY <1>1, <1>2, <1>3 DEF Fine

-----------------------------------------------------------------------------
(* Every action preserves the invariant.                                   *)

LEMMA CommentsInit == Init => CommentsInv
<1> SUFFICES ASSUME Init
             PROVE  CommentsInv
  OBVIOUS
<1> DEFINE f == Frame("document", <<>>, 0)
<1>1. stack = <<f>> /\ ctl.op = "next" /\ count = 0
  BY DEF Init, NextChild
<1>2. f.fn = "document" /\ f.seen = <<>> /\ f.given = {}
  BY DEF Frame
<1> HIDE DEF f
<1>3. Len(stack) = 1 /\ Top = f
  BY <1>1 DEF Top
<1>4. Text(f.seen, 0)
  BY <1>2, EmptyIsSequence DEF Text
<1>5. Fine(f, 0, ctl)
  BY <1>2, <1>4 DEF Fine, Given
<1>6. \A i \in 1 .. Len(stack) : ~(i < Len(stack))
  BY <1>3
<1> QED
  BY <1>1, <1>3, <1>5, <1>6 DEF CommentsInv

LEMMA CommentsNextNode ==
  ASSUME Inv, CommentsInv, NextNode
  PROVE  CommentsInv'
<1>1. IsFrame(Top) /\ ctl.op = "next"
  BY TopFacts DEF Inv, NextNode
<1>2. /\ Text(Top.seen, count) /\ Given(Top, FALSE) /\ count \in Nat
      /\ Top.fn \in {"object", "array"} => Settled(Top, Len(Top.seen), FALSE)
      /\ Top.fn = "concatenation" => ArePlain(Top.values)
  <2>1. ~(ctl.op \in {"throw", "done"} \/ IsEnd(ctl))
    BY <1>1 DEF IsEnd
  <2> QED
    BY <1>1, <2>1 DEF CommentsInv, Fine, Ready
<1>3. CASE ctl' = Node([t |-> "end", id |-> 0]) /\ ~IsUnfinished /\ UNCHANGED <<stack, count>>
  <2>1. ctl'.op = "node" /\ IsEnd(ctl')
    BY <1>3 DEF Node, IsEnd
  <2>2. Settled(Top, Len(Top.seen), FALSE) => Settled(Top, Len(Top.seen), TRUE)
    BY DEF Settled
  <2>3. Top.fn \in {"object", "array"} => Ready(Top, ctl')
    BY <1>2, <2>1, <2>2 DEF Ready
  <2>4. Given(Top, TRUE)
    BY <1>2, GivenEnds
  <2>5. Top.fn = "concatenation" => Top.values # <<>>
    BY <1>3, EmptyIsSequence DEF IsUnfinished, ValueIsMissing
  <2>6. Fine(Top, count, ctl')
    BY <1>2, <2>1, <2>3, <2>4, <2>5 DEF Fine
  <2> QED
    BY <1>3, <2>1, <2>6, TopStays
<1>4. CASE /\ \E n \in Punctuation \cup Fields \cup IncludeNodes \cup ValueNodes :
                /\ ctl' = Node(n)
                /\ SetTop([Top EXCEPT !.seen = Append(@, n)])
           /\ count' = count + 1
  <2>1. PICK n \in Punctuation \cup Fields \cup IncludeNodes \cup ValueNodes :
               /\ ctl' = Node(n)
               /\ SetTop([Top EXCEPT !.seen = Append(@, n)])
    BY <1>4
  <2>2. n.id = count + 1 /\ n.t # "end" /\ (InComment => n.t = "newline")
    BY DEF Punctuation, Fields, IncludeNodes, ValueNodes
  <2> DEFINE t == Append(Top.seen, n)
             f == [Top EXCEPT !.seen = Append(@, n)]
  <2>3. Top.seen # <<>> /\ Top.seen[Len(Top.seen)].t = "comment" => n.t = "newline"
    BY <2>2 DEF InComment, Last
  <2>4. /\ Text(t, count + 1) /\ GoesOn(Top.seen, t)
        /\ t[Len(Top.seen) + 1] = n /\ t # <<>>
    BY <1>2, <2>2, <2>3, TextGoesOn
  <2>5. /\ f.seen = t /\ f.fn = Top.fn /\ f.values = Top.values /\ "seen" \in DOMAIN Top
    BY <1>1 DEF IsFrame
  <2>6. Given(f, FALSE)
    BY <1>2, <2>4, <2>5, GivenStays
  <2>7. Top.fn \in {"object", "array"} => Settled(f, Len(Top.seen), IsOver(f, n))
    BY <1>2, <2>4, <2>5, SettledStays
  <2> HIDE DEF f, t
  <2>8. ctl'.op = "node" /\ ctl'.n = n /\ ~IsEnd(ctl')
    BY <2>1, <2>2 DEF Node, IsEnd
  <2>9. Len(t) = Len(Top.seen) + 1 /\ Len(t) - 1 = Len(Top.seen)
    BY <2>4 DEF GoesOn
  <2>10. f.fn \in {"object", "array"} => Ready(f, ctl')
    BY <2>4, <2>5, <2>7, <2>8, <2>9 DEF Ready, IsLast
  <2>11. Fine(f, count + 1, ctl')
    BY <1>2, <2>4, <2>5, <2>6, <2>8, <2>10 DEF Fine
  <2>12. count' \in Nat /\ count <= count' /\ count' = count + 1
    BY <1>2, <1>4
  <2>13. SetTop(f)
    BY <2>1 DEF f
  <2> QED
    BY <2>8, <2>11, <2>12, <2>13, TopChanges
<1> QED
  BY <1>3, <1>4 DEF NextNode

\* A function is called, or a simple value read.
LEMMA CommentsParse ==
  ASSUME Inv, CommentsInv, ParseSimple \/ ParseObject \/ ParseArray \/ ParseConcatenation
  PROVE  CommentsInv'
<1>1. ctl.op = "parse" /\ count' = count
  BY DEF ParseSimple, ParseObject, ParseArray, ParseConcatenation, Parse
<1>2. Fine(Top, count, Below)
  BY <1>1, FineBelow DEF CommentsInv
<1>3. CASE ParseSimple
  <2>1. ctl' = Parsed(Simple) /\ UNCHANGED stack
    BY <1>3 DEF ParseSimple
  <2>2. ctl'.op = "value" /\ IsPlain(ctl'.v)
    BY <2>1 DEF Parsed, IsPlain, Simple, Value, HasValue
  <2>3. Fine(Top, count, ctl')
    BY <1>2, <2>2, FineBelow
  <2> QED
    BY <1>1, <2>1, <2>2, <2>3, TopStays
<1>4. CASE ParseObject \/ ParseArray \/ ParseConcatenation
  <2>1. PICK fn, values :
          /\ fn \in {"object", "array", "concatenation"}
          /\ stack' = Append(stack, Frame(fn, values, array_count)) /\ ctl' = NextChild
          /\ fn = "concatenation" => values = <<>>
    BY <1>4 DEF ParseObject, ParseArray, ParseConcatenation
  <2> DEFINE f == Frame(fn, values, array_count)
  <2>2. /\ f.fn = fn /\ f.seen = <<>> /\ f.given = {} /\ f.values = values /\ f.comments = <<>>
        /\ f.newline = FALSE /\ ~IsTrailing(f) /\ ~HasElement(f)
    BY DEF Frame, NoField, NoValue, Value, IsTrailing, HasElement, HasValue
  <2>3. stack' = Append(stack, f) /\ ctl'.op = "next"
    BY <2>1 DEF NextChild
  <2> HIDE DEF f
  <2>4. /\ Len(stack') = Len(stack) + 1 /\ stack'[Len(stack) + 1] = f
        /\ \A i \in 1 .. Len(stack) : stack'[i] = stack[i]
    BY <2>3, Pushing DEF Inv, TypeOK
  <2>5. Len(stack) \in Nat \ {0} /\ Top = stack[Len(stack)]
    BY TopFacts DEF Inv
  <2>6. Text(f.seen, count)
    BY <2>2, EmptyIsSequence DEF Text
  <2>7. Settled(f, 0, FALSE)
    <3>1. Above(<<>>, 0 + 1) = {} /\ ~AfterNewline(<<>>, 0) /\ ~NextTo(<<>>, 0)
      BY DEF Above, AfterNewline, NextTo
    <3>2. Loose(f, 0)
      BY <2>2, <3>1, ListsNothing DEF Loose
    <3> QED
      BY <2>2, <3>1, <3>2 DEF Settled
  <2>8. Fine(f, count, ctl')
    <3>1. Given(f, FALSE)
      BY <2>2 DEF Given
    <3>2. Len(f.seen) = 0
      BY <2>2
    <3>3. f.fn = "concatenation" => ArePlain(f.values)
      BY <2>1, <2>2, EmptyIsSequence DEF ArePlain
    <3> QED
      BY <2>3, <2>6, <2>7, <3>1, <3>2, <3>3, FineNext
  <2>9. ASSUME NEW i \in 1 .. Len(stack) + 1, i < Len(stack) + 1
        PROVE  Fine(stack'[i], count, Below)
    <3>1. i \in 1 .. Len(stack) /\ (i < Len(stack) \/ i = Len(stack))
      BY <2>5, <2>9
    <3> QED
      BY <1>2, <2>4, <2>5, <3>1 DEF CommentsInv
  <2>10. Top' = f
    BY <2>4 DEF Top
  <2> QED
    BY <1>1, <2>3, <2>4, <2>8, <2>9, <2>10 DEF CommentsInv
<1> QED
  BY <1>3, <1>4

\* Comments are given to fields and elements, so the pieces of a concatenation
\* have none; concatenate must not make any up.
ConcatenationIsPlain == \A s : ArePlain(s) /\ s # <<>> => IsPlain(Concatenate(s))

\* A function returns.
LEMMA CommentsEnds ==
  ASSUME ConcatenationIsPlain, Inv, CommentsInv, EndObject \/ EndArray \/ EndConcatenation
  PROVE  CommentsInv'
<1>1. /\ Top.fn # "document" /\ ctl.op = "node" /\ count' = count
      /\ \E v, lists : IsPlain(v) /\ ParseReturns(v, lists)
  <2>1. \A kv : IsPlain(Object(kv)) /\ IsPlain(List(kv))
    BY DEF IsPlain, Object, List, Value, HasValue
  <2>2. CASE EndObject
    BY <2>1, <2>2 DEF EndObject, Child
  <2>3. CASE EndArray
    BY <2>1, <2>3 DEF EndArray, Child
  <2>4. CASE EndConcatenation
    <3>1. ArePlain(Top.values) /\ Top.values # <<>>
      BY <2>4 DEF CommentsInv, Fine, EndConcatenation, Child, IsEnd
    <3>2. IsPlain(Concatenate(Top.values))
      BY <3>1 DEF ConcatenationIsPlain
    <3> QED
      BY <2>4, <3>2 DEF EndConcatenation, Child
  <2> QED
    BY <2>2, <2>3, <2>4
<1>2. PICK v, lists : IsPlain(v) /\ ParseReturns(v, lists)
  BY <1>1
<1>3. Len(stack) \in Nat \ {0} /\ Top = stack[Len(stack)] /\ Len(stack) > 1
  <2>1. Len(stack) \in Nat \ {0} /\ Top = stack[Len(stack)]
    BY TopFacts DEF Inv
  <2> QED
    BY <1>1, <2>1 DEF Inv, Control
<1>4. /\ Len(stack') = Len(stack) - 1
      /\ \A i \in 1 .. Len(stack) - 1 : stack'[i] = stack[i]
  <2>1. IsSequence(stack) /\ stack # <<>> /\ stack' = Popped(stack)
    BY <1>2 DEF ParseReturns, Inv, TypeOK
  <2> QED
    BY <2>1, Popping
<1>5. \A i \in 1 .. Len(stack) - 1 : Fine(stack'[i], count, Below)
  <2>1. \A i \in 1 .. Len(stack) - 1 : i \in 1 .. Len(stack) /\ i < Len(stack)
    BY <1>3
  <2> QED
    BY <1>4, <2>1 DEF CommentsInv
<1>6. Top' = stack'[Len(stack) - 1] /\ Len(stack) - 1 \in 1 .. Len(stack) - 1
  BY <1>3, <1>4 DEF Top
<1>7. ctl'.op \in {"throw", "value"} /\ (ctl'.op = "value" => IsPlain(ctl'.v))
  BY <1>2 DEF ParseReturns, Throw, Parsed
<1>8. Fine(Top', count, ctl')
  <2>1. Fine(Top', count, Below)
    BY <1>5, <1>6
  <2>2. CASE ctl'.op = "value"
    BY <2>1, <2>2, FineBelow
  <2>3. CASE ctl'.op = "throw"
    BY <2>1, <2>3, FineOver
  <2> QED
    BY <1>7, <2>2, <2>3
<1>9. \A i \in 1 .. Len(stack') : i < Len(stack') => Fine(stack'[i], count, Below)
  BY <1>4, <1>5
<1> QED
  BY <1>1, <1>7, <1>8, <1>9 DEF CommentsInv

\* The value at the root, a part of a concatenation: only the calls matter.
LEMMA CommentsCalls ==
  ASSUME Inv, CommentsInv, Piece \/ Root \/ RootLineEnds \/ EndDocument
  PROVE  CommentsInv'
<1>1. /\ UNCHANGED <<stack, count>> /\ Top.fn \notin {"object", "array"} /\ ctl.op = "node"
      /\ ctl'.op \in {"parse", "done"}
      /\ ctl'.op = "done" \/ ctl.n.t # "end"
  BY DEF Piece, Root, RootLineEnds, EndDocument, Child, Parse, Done
<1>2. CASE ctl'.op = "done"
  BY <1>1, <1>2, FineOver, TopStays DEF CommentsInv
<1>3. CASE ctl'.op = "parse"
  <2>1. ~(ctl.op \in {"throw", "done"} \/ IsEnd(ctl)) /\ ~(ctl'.op \in {"throw", "done"} \/ IsEnd(ctl'))
    BY <1>1, <1>3 DEF IsEnd
  <2>2. Fine(Top, count, ctl')
    BY <1>1, <2>1 DEF CommentsInv, Fine
  <2> QED
    BY <1>1, <1>3, <2>2, TopStays
<1> QED
  BY <1>1, <1>2, <1>3

LEMMA CommentsRootValue ==
  ASSUME Inv, CommentsInv, RootValue \/ PieceValue
  PROVE  CommentsInv'
<1>1. IsFrame(Top) /\ ctl.op = "value" /\ Top.fn \notin {"object", "array"} /\ ctl'.op = "next"
  BY TopFacts DEF Inv, RootValue, PieceValue, Awaits, NextChild
<1>2. /\ Text(Top.seen, count) /\ Given(Top, FALSE) /\ count \in Nat /\ IsPlain(ctl.v)
      /\ Top.fn = "concatenation" => ArePlain(Top.values)
  <2>1. ~(ctl.op \in {"throw", "done"} \/ IsEnd(ctl))
    BY <1>1 DEF IsEnd
  <2> QED
    BY <1>1, <2>1 DEF CommentsInv, Fine
<1>3. PICK f : /\ SetTop(f) /\ f.seen = Top.seen /\ f.given = Top.given /\ f.fn = Top.fn
               /\ f.fn = "concatenation" => f.values = Append(Top.values, ctl.v)
  <2>1. CASE RootValue
    <3> DEFINE f == [Top EXCEPT !.v = PrependComments(ctl.v, Top.comments), !.comments = <<>>,
                                !.newline = FALSE]
    <3>1. SetTop(f) /\ f.seen = Top.seen /\ f.given = Top.given /\ f.fn = Top.fn
      BY <1>1, <2>1 DEF RootValue, IsFrame
    <3>2. f.fn # "concatenation"
      BY <2>1, <3>1 DEF RootValue, Awaits
    <3> QED
      BY <3>1, <3>2
  <2>2. CASE PieceValue
    <3> DEFINE f == [Top EXCEPT !.values = Append(@, ctl.v)]
    <3>1. /\ SetTop(f) /\ f.seen = Top.seen /\ f.given = Top.given /\ f.fn = Top.fn
          /\ f.values = Append(Top.values, ctl.v)
      BY <1>1, <2>2 DEF PieceValue, IsFrame
    <3> QED
      BY <3>1
  <2> QED
    BY <2>1, <2>2
<1>4. f.fn = "concatenation" => ArePlain(f.values)
  <2> SUFFICES ASSUME Top.fn = "concatenation", f.values = Append(Top.values, ctl.v)
               PROVE  ArePlain(f.values)
    BY <1>3
  <2>1. /\ IsSequence(f.values) /\ Len(f.values) = Len(Top.values) + 1
        /\ \A i \in 1 .. Len(Top.values) : f.values[i] = Top.values[i]
        /\ f.values[Len(Top.values) + 1] = ctl.v
    BY <1>2, Pushing DEF ArePlain
  <2>2. \A i \in 1 .. Len(Top.values) + 1 : i \in 1 .. Len(Top.values) \/ i = Len(Top.values) + 1
    BY <1>2 DEF ArePlain, IsSequence
  <2> QED
    BY <1>2, <2>1, <2>2 DEF ArePlain
<1>5. Fine(f, count, ctl')
  BY <1>1, <1>2, <1>3, <1>4, FineNext
<1> QED
  BY <1>1, <1>2, <1>3, <1>5, TopChanges DEF RootValue, PieceValue

\* Comments end their line.
LEMMA AfterComment ==
  ASSUME NEW s, NEW k, Text(s, k), NEW m \in 1 .. Len(s), m < Len(s), s[m].t = "comment"
  PROVE  s[m + 1].t = "newline"
BY DEF Text

LEMMA CommentsComment ==
  ASSUME Inv, CommentsInv, Comment
  PROVE  CommentsInv'
<1> DEFINE f == [Top EXCEPT !.comments = Append(@, ctl.n.id), !.newline = FALSE]
           s == Top.seen
           m == Len(s) - 1
<1>1. /\ SetTop(f) /\ ctl'.op = "next" /\ count' = count
      /\ ctl.op = "node" /\ ctl.n.t = "comment" /\ ~IsTrailing(Top)
  BY DEF Comment, NextChild, Between, IsTrailing
<1>2. /\ IsFrame(Top) /\ Text(s, count) /\ Given(Top, FALSE) /\ count \in Nat
      /\ Top.fn = "concatenation" => ArePlain(Top.values)
  BY <1>1, AtNode
<1>3. /\ f.seen = s /\ f.given = Top.given /\ f.fn = Top.fn /\ f.values = Top.values
      /\ f.comments = Append(Top.comments, ctl.n.id) /\ f.newline = FALSE /\ f.item = Top.item
      /\ f.v = Top.v /\ f.field = Top.field
  BY <1>2 DEF IsFrame
<1> HIDE DEF f
<1>4. ~IsTrailing(f) /\ (HasElement(f) <=> HasElement(Top))
  BY <1>1, <1>3 DEF IsTrailing, HasElement
<1>5. ASSUME Top.fn \in {"object", "array"}
      PROVE  Settled(f, Len(s), FALSE)
  <2>1. /\ Len(s) \in Nat \ {0} /\ s[Len(s)] = ctl.n /\ m \in Nat /\ m + 1 = Len(s)
        /\ Settled(Top, m, IsOver(Top, ctl.n))
    BY <1>1, <1>5, AtNode
  <2>2. ~IsOver(Top, ctl.n)
    BY <1>1 DEF IsOver
  <2> HIDE DEF m
  <2>3. CASE HasElement(Top)
    <3>1. PICK p \in 1 .. m : /\ AtItem(Top, p)
                              /\ Lists(Top.v.comments, s, Above(s, p))
                              /\ \/ Top.comments = <<>> /\ OnlyCommas(s, p, m + 1)
                                 \/ HasComment(Top, p, m)
      BY <2>1, <2>3 DEF Settled, Pends
    <3>2. ~HasComment(Top, p, m)
      <4>1. m \in 1 .. Len(s) /\ m < Len(s)
        BY <2>1
      <4>2. s[m].t # "comment"
        BY <1>1, <1>2, <2>1, <4>1, AfterComment
      <4> QED
        BY <4>2 DEF HasComment
    <3>3. f.comments = <<ctl.n.id>>
      <4>1. \A x : Append(<<>>, x) = <<x>>
        OBVIOUS
      <4> QED
        BY <1>3, <3>1, <3>2, <4>1
    <3>4. p \in 1 .. m + 1 /\ p < m + 1
      BY <2>1
    <3>5. HasComment(f, p, m + 1)
      BY <1>1, <1>3, <2>1, <3>1, <3>2, <3>3, <3>4 DEF HasComment
    <3>6. AtItem(f, p)
      BY <1>3, <3>1 DEF AtItem
    <3>7. Pends(f, m + 1)
      BY <1>3, <2>1, <2>3, <3>1, <3>4, <3>5, <3>6 DEF Pends, Settled
    <3> QED
      BY <1>4, <2>1, <2>3, <3>7 DEF Settled
  <2>4. CASE ~HasElement(Top)
    <3>1. Loose(Top, m) /\ ~NextTo(s, m)
      BY <1>1, <2>1, <2>2, <2>4 DEF Settled
    <3>2. m + 1 <= Len(s) /\ s[m + 1].t = "comment" /\ f.comments = Append(Top.comments, s[m + 1].id)
      BY <1>1, <1>3, <2>1
    <3>3. Loose(f, m + 1) /\ ~NextTo(f.seen, m + 1)
      BY <1>2, <1>3, <2>1, <3>1, <3>2, LooseComment
    <3> QED
      BY <1>4, <2>1, <2>4, <3>3 DEF Settled
  <2> QED
    BY <2>3, <2>4
<1>6. Fine(f, count, ctl')
  BY <1>1, <1>2, <1>3, <1>5, FineNext
<1> QED
  BY <1>1, <1>2, <1>6, TopChanges

LEMMA CommentsComma ==
  ASSUME Inv, CommentsInv, Comma \/ TrailingComma
  PROVE  CommentsInv'
<1> DEFINE s == Top.seen
           m == Len(s) - 1
<1>1. /\ UNCHANGED <<stack, count>> /\ ctl'.op = "next"
      /\ ctl.op = "node" /\ ctl.n.t = "comma"
  BY DEF Comma, TrailingComma, Child, NextChild
<1>2. /\ IsFrame(Top) /\ Text(s, count) /\ Given(Top, FALSE) /\ count \in Nat
      /\ Top.fn = "concatenation" => ArePlain(Top.values)
  BY <1>1, AtNode
<1>3. ASSUME Top.fn \in {"object", "array"}
      PROVE  Settled(Top, Len(s), FALSE)
  <2>1. /\ Len(s) \in Nat \ {0} /\ s[Len(s)] = ctl.n /\ m \in Nat /\ m + 1 = Len(s)
        /\ Settled(Top, m, IsOver(Top, ctl.n))
    BY <1>1, <1>3, AtNode
  <2>2. ~IsOver(Top, ctl.n)
    BY <1>1 DEF IsOver
  <2> HIDE DEF m
  <2>3. ASSUME NEW p \in 1 .. m, OnlyCommas(s, p, m + 1)
        PROVE  p \in 1 .. m + 1 /\ OnlyCommas(s, p, (m + 1) + 1)
    <3>1. p \in 1 .. m + 1 /\ p \in 0 .. m /\ p <= m /\ p < m + 1 /\ (m + 1) + 1 = m + 2
      BY <2>1
    <3> QED
      BY <1>1, <2>1, <2>3, <3>1, CommasGoOn
  <2>4. IsTrailing(Top) => Trails(Top, m + 1)
    <3> SUFFICES ASSUME Trails(Top, m)
                 PROVE  Trails(Top, m + 1)
      BY <2>1 DEF Settled
    <3> QED
      BY <2>3 DEF Trails
  <2>5. HasElement(Top) => Pends(Top, m + 1)
    <3> SUFFICES ASSUME Pends(Top, m)
                 PROVE  Pends(Top, m + 1)
      BY <2>1 DEF Settled
    <3>1. PICK p \in 1 .. m : /\ AtItem(Top, p)
                              /\ Lists(Top.v.comments, s, Above(s, p))
                              /\ \/ Top.comments = <<>> /\ OnlyCommas(s, p, m + 1)
                                 \/ HasComment(Top, p, m)
      BY DEF Pends
    <3>2. ~HasComment(Top, p, m)
      <4>1. m \in 1 .. Len(s) /\ m < Len(s)
        BY <2>1
      <4>2. s[m].t # "comment"
        BY <1>1, <1>2, <2>1, <4>1, AfterComment
      <4> QED
        BY <4>2 DEF HasComment
    <3> QED
      BY <2>3, <3>1, <3>2 DEF Pends
  <2>6. ~IsTrailing(Top) /\ ~HasElement(Top) => Loose(Top, m + 1) /\ ~NextTo(s, m + 1)
    <3> SUFFICES ASSUME Loose(Top, m), ~NextTo(s, m)
                 PROVE  Loose(Top, m + 1) /\ ~NextTo(s, m + 1)
      BY <2>1, <2>2 DEF Settled
    <3>1. s[m + 1].t = "comma"
      BY <1>1, <2>1
    <3> QED
      BY <2>1, <3>1, LooseComma
  <2> QED
    BY <2>1, <2>4, <2>5, <2>6 DEF Settled
<1>4. Fine(Top, count, ctl')
  BY <1>1, <1>2, <1>3, FineNext
<1> QED
  BY <1>1, <1>4, TopStays

LEMMA CommentsNewline ==
  ASSUME Inv, CommentsInv, Newline
  PROVE  CommentsInv'
<1> DEFINE f == [Top EXCEPT !.comments = CommentsAfterNewline(Top), !.newline = TRUE]
           s == Top.seen
           m == Len(s) - 1
<1>1. /\ SetTop(f) /\ ctl'.op = "next" /\ count' = count
      /\ ctl.op = "node" /\ ctl.n.t = "newline" /\ ~IsTrailing(Top) /\ ~HasElement(Top)
  BY DEF Newline, NextChild, Between, IsTrailing, HasElement
<1>2. /\ IsFrame(Top) /\ Text(s, count) /\ Given(Top, FALSE) /\ count \in Nat
      /\ Top.fn = "concatenation" => ArePlain(Top.values)
  BY <1>1, AtNode
<1>3. /\ f.seen = s /\ f.given = Top.given /\ f.fn = Top.fn /\ f.values = Top.values
      /\ f.comments = CommentsAfterNewline(Top) /\ f.newline = TRUE
      /\ f.v = Top.v /\ f.field = Top.field
  BY <1>2 DEF IsFrame
<1> HIDE DEF f
<1>4. ~IsTrailing(f) /\ ~HasElement(f)
  BY <1>1, <1>3 DEF IsTrailing, HasElement
<1>5. ASSUME Top.fn \in {"object", "array"}
      PROVE  Settled(f, Len(s), FALSE)
  <2>1. /\ s[Len(s)] = ctl.n /\ m \in Nat /\ m + 1 = Len(s)
        /\ Settled(Top, m, IsOver(Top, ctl.n))
    BY <1>1, <1>5, AtNode
  <2> HIDE DEF m
  <2>2. Loose(Top, m) /\ s[m + 1].t = "newline"
    BY <1>1, <2>1 DEF Settled
  <2>3. Loose(f, m + 1) /\ ~NextTo(f.seen, m + 1)
    BY <1>3, <2>1, <2>2, LooseNewline
  <2> QED
    BY <1>4, <2>1, <2>3 DEF Settled
<1>6. Fine(f, count, ctl')
  BY <1>1, <1>2, <1>3, <1>5, FineNext
<1> QED
  BY <1>1, <1>2, <1>6, TopChanges

LEMMA CommentsInclude ==
  ASSUME Inv, CommentsInv, Include
  PROVE  CommentsInv'
<1> DEFINE s == Top.seen
           m == Len(s) - 1
<1>1. /\ ctl.op = "node" /\ ctl.n.t = "include" /\ Top.fn = "object" /\ ~IsTrailing(Top)
      /\ count' = count
  BY DEF Include, Child, Between, IsTrailing
<1>0. \/ UNCHANGED stack /\ ctl'.op = "throw"
      \/ /\ \E values : SetTop([Top EXCEPT !.values = values, !.newline = FALSE])
         /\ ctl'.op \in {"throw", "next"}
  <2>1. PICK r \in Includes :
          LET values == MergedOver(r.v.parts, Top.values)
          IN  IF IsError(r.v) \/ (array_count > 0 /\ ~r.resolved)
              THEN ctl' = Throw("config") /\ UNCHANGED stack
              ELSE /\ SetTop([Top EXCEPT !.values = values, !.newline = FALSE])
                   /\ ctl' = IF Refused(values) THEN Throw("merge") ELSE NextChild
    BY DEF Include
  <2>2. CASE ctl' = Throw("config") /\ UNCHANGED stack
    BY <2>2 DEF Throw
  <2>3. CASE /\ SetTop([Top EXCEPT !.values = MergedOver(r.v.parts, Top.values), !.newline = FALSE])
             /\ \/ ctl' = Throw("merge")
                \/ ctl' = NextChild
    <3>1. ctl'.op \in {"throw", "next"}
      BY <2>3 DEF Throw, NextChild
    <3> QED
      BY <2>3, <3>1
  <2> QED
    BY <2>1, <2>2, <2>3
<1>2. /\ IsFrame(Top) /\ Text(s, count) /\ Given(Top, FALSE) /\ count \in Nat
      /\ s[Len(s)] = ctl.n /\ m \in Nat /\ m + 1 = Len(s)
      /\ Settled(Top, m, IsOver(Top, ctl.n))
  BY <1>1, AtNode
<1> HIDE DEF m
<1>3. CASE UNCHANGED stack /\ ctl'.op = "throw"
  <2>1. Fine(Top, count, ctl')
    BY <1>3, FineOver DEF CommentsInv
  <2> QED
    BY <1>1, <1>3, <2>1, TopStays
<1>4. CASE /\ \E values : SetTop([Top EXCEPT !.values = values, !.newline = FALSE])
           /\ ctl'.op \in {"throw", "next"}
  <2>1. PICK values : SetTop([Top EXCEPT !.values = values, !.newline = FALSE])
    BY <1>4
  <2> DEFINE f == [Top EXCEPT !.values = values, !.newline = FALSE]
  <2>2. /\ f.seen = s /\ f.given = Top.given /\ f.fn = "object"
        /\ f.comments = Top.comments /\ f.newline = FALSE
        /\ f.v = Top.v /\ f.field = Top.field /\ SetTop(f)
    BY <1>1, <1>2, <2>1 DEF IsFrame
  <2> HIDE DEF f
  <2>3. ~IsTrailing(f) /\ ~HasElement(f) /\ ~HasElement(Top)
    BY <1>1, <2>2 DEF IsTrailing, HasElement
  <2>4. Loose(f, m + 1) /\ ~NextTo(f.seen, m + 1)
    <3>1. Loose(Top, m) /\ s[m + 1].t = "include"
      BY <1>1, <1>2, <2>3 DEF Settled
    <3> QED
      BY <1>2, <2>2, <3>1, LooseInclude
  <2>5. Settled(f, Len(s), FALSE)
    BY <1>2, <2>3, <2>4 DEF Settled
  <2>6. CASE ctl'.op = "next"
    <3>1. Fine(f, count, ctl')
      BY <1>2, <2>2, <2>5, <2>6, FineNext
    <3> QED
      BY <1>1, <1>2, <2>2, <2>6, <3>1, TopChanges
  <2>7. CASE ctl'.op = "throw"
    <3>1. ~(ctl'.op = "next") /\ ~(ctl'.op = "value") /\ ctl'.op \in {"throw", "done"}
      BY <2>7
    <3>2. Given(f, TRUE)
      BY <1>2, <2>2, GivenEnds DEF Given, GivenIn
    <3>3. Fine(f, count, ctl')
      BY <1>2, <2>2, <2>7, <3>2 DEF Fine, Ready, IsEnd
    <3> QED
      BY <1>1, <1>2, <2>2, <3>1, <3>3, TopChanges
  <2> QED
    BY <1>4, <2>6, <2>7
<1> QED
  BY <1>0, <1>3, <1>4

\* A frame that calls for the value of its last node, and one that throws.
LEMMA FineCall ==
  ASSUME NEW f, NEW g, NEW k, NEW c, Text(f.seen, k), Given(f, FALSE), g.seen = f.seen,
         g.given = f.given, c.op = "parse", Awaiting(g), g.fn # "concatenation"
  PROVE  Fine(g, k, c)
<1>1. ~(c.op \in {"throw", "done"} \/ IsEnd(c))
  BY DEF IsEnd
<1>2. Given(g, FALSE)
  BY DEF Given, GivenIn
<1>3. Ready(g, c)
  BY <1>1 DEF Ready
<1> QED
  BY <1>1, <1>2, <1>3 DEF Fine

LEMMA FineThrow ==
  ASSUME NEW g, NEW k, NEW c, Text(g.seen, k), Given(g, TRUE), c.op = "throw",
         g.fn # "concatenation"
  PROVE  Fine(g, k, c)
BY DEF Fine, Ready, IsEnd

LEMMA CommentsField ==
  ASSUME Inv, CommentsInv, Field
  PROVE  CommentsInv'
<1> DEFINE h == ctl.n.shape
           f == [Top EXCEPT !.newline = FALSE, !.item = ctl.n.id,
                            !.comments = IF h.inner THEN Append(@, ctl.n.id) ELSE @,
                            !.field = [stage |-> "value", path |-> h.path,
                                       append |-> h.append, v |-> NoValue]]
           s == Top.seen
           m == Len(s) - 1
<1>1. /\ SetTop(f) /\ count' = count /\ ctl.op = "node" /\ ctl.n.t = "field" /\ Top.fn = "object"
      /\ ~IsTrailing(Top) /\ ~HasElement(Top)
  BY DEF Field, Child, Between, IsTrailing, HasElement
<1>2. ctl'.op \in {"throw", "parse"}
  BY DEF Field, Throw, Parse
<1>3. /\ IsFrame(Top) /\ Text(s, count) /\ Given(Top, FALSE) /\ count \in Nat
      /\ s # <<>> /\ s[Len(s)] = ctl.n /\ m \in Nat
      /\ Settled(Top, m, IsOver(Top, ctl.n))
  BY <1>1, AtNode
<1>4. /\ f.seen = s /\ f.given = Top.given /\ f.fn = "object"
      /\ f.comments = (IF h.inner THEN Append(Top.comments, ctl.n.id) ELSE Top.comments)
      /\ f.newline = FALSE /\ f.item = ctl.n.id
  BY <1>1, <1>3 DEF IsFrame
<1> HIDE DEF f
<1>5. Awaiting(f)
  <2>1. Loose(Top, m)
    BY <1>1, <1>3 DEF Settled
  <2>2. f.comments = IF s[Len(s)].t = "field" /\ s[Len(s)].shape.inner
                     THEN Append(Top.comments, s[Len(s)].id) ELSE Top.comments
    BY <1>1, <1>3, <1>4
  <2>3. Lists(f.comments, s, Above(s, Len(s)) \cup Inside(s, Len(s)))
    BY <1>3, <2>1, <2>2, LooseItem
  <2>4. AtItem(f, Len(s))
    BY <1>1, <1>3, <1>4 DEF AtItem
  <2> QED
    BY <1>3, <1>4, <2>3, <2>4 DEF Awaiting
<1>6. CASE ctl'.op = "parse"
  <2>1. Fine(f, count, ctl')
    BY <1>3, <1>4, <1>5, <1>6, FineCall
  <2> QED
    BY <1>1, <1>3, <1>6, <2>1, TopChanges
<1>7. CASE ctl'.op = "throw"
  <2>1. Given(f, TRUE)
    BY <1>3, <1>4, GivenEnds DEF Given, GivenIn
  <2>2. Fine(f, count, ctl')
    BY <1>3, <1>4, <1>7, <2>1, FineThrow
  <2> QED
    BY <1>1, <1>3, <1>7, <2>2, TopChanges
<1> QED
  BY <1>2, <1>6, <1>7

\* A value returns to an object or a list.
LEMMA AtValue ==
  ASSUME Inv, CommentsInv, ctl.op = "value", Top.fn \in {"object", "array"}
  PROVE  /\ IsFrame(Top) /\ Text(Top.seen, count) /\ Given(Top, FALSE) /\ count \in Nat
         /\ IsPlain(ctl.v) /\ Awaiting(Top) /\ Len(Top.seen) \in Nat \ {0}
<1>1. ~(ctl.op \in {"throw", "done"} \/ IsEnd(ctl))
  BY DEF IsEnd
<1>2. IsFrame(Top)
  BY TopFacts DEF Inv
<1>3. /\ Text(Top.seen, count) /\ Given(Top, FALSE) /\ count \in Nat
      /\ IsPlain(ctl.v) /\ Awaiting(Top)
  BY <1>1 DEF CommentsInv, Fine, Ready
<1>4. Len(Top.seen) \in Nat \ {0}
  BY <1>3, Popping DEF Awaiting, Text
<1> QED
  BY <1>2, <1>3, <1>4

LEMMA CommentsFieldValue ==
  ASSUME Inv, CommentsInv, FieldValue
  PROVE  CommentsInv'
<1> DEFINE v == PrependComments(ctl.v, Top.comments)
           w == IF Top.field.append THEN Appended(path_stack[1], v) ELSE v
           f == [Top EXCEPT !.comments = <<>>, !.field.stage = "trailing", !.field.v = w]
           s == Top.seen
<1>1. /\ SetTop(f) /\ count' = count /\ ctl.op = "value" /\ Top.fn = "object" /\ ctl'.op = "next"
  BY DEF FieldValue, Awaits, NextChild
<1>2. /\ IsFrame(Top) /\ Text(s, count) /\ Given(Top, FALSE) /\ count \in Nat
      /\ IsPlain(ctl.v) /\ Awaiting(Top) /\ Len(s) \in Nat \ {0}
  BY <1>1, AtValue
<1>3. Top.comments \in Seq(Nat)
  BY <1>2 DEF Awaiting, Lists
<1>4. w.comments = Top.comments /\ "comments" \in DOMAIN w
  <2>1. v.comments = Top.comments /\ "comments" \in DOMAIN v
    BY <1>2, <1>3, CommentsPrepended
  <2>2. \A path : Appended(path, v).comments = v.comments /\ "comments" \in DOMAIN Appended(path, v)
    BY DEF Appended, Value
  <2> QED
    BY <2>1, <2>2
<1> HIDE DEF w
<1>5. /\ f.seen = s /\ f.given = Top.given /\ f.fn = "object" /\ f.comments = <<>>
      /\ f.newline = Top.newline /\ f.item = Top.item
      /\ f.field.stage = "trailing" /\ f.field.v = w
  BY <1>1, <1>2 DEF IsFrame
<1> HIDE DEF f
<1>6. Trails(f, Len(s))
  <2>1. AtItem(f, Len(s))
    BY <1>1, <1>2, <1>5 DEF Awaiting, AtItem
  <2>2. OnlyCommas(s, Len(s), Len(s) + 1)
    BY <1>2 DEF OnlyCommas
  <2>3. Len(s) \in 1 .. Len(s)
    BY <1>2
  <2> QED
    BY <1>2, <1>4, <1>5, <2>1, <2>2, <2>3 DEF Trails, Awaiting
<1>7. Settled(f, Len(s), FALSE)
  BY <1>5, <1>6 DEF Settled, IsTrailing, HasElement
<1>8. Fine(f, count, ctl')
  BY <1>1, <1>2, <1>5, <1>7, FineNext
<1> QED
  BY <1>1, <1>2, <1>8, TopChanges

\* One more item has its comments.
LEMMA GivenOneMore ==
  ASSUME NEW f, NEW g, NEW ending \in BOOLEAN, Given(f, ending), NEW q, NEW p \in 1 .. Len(f.seen),
         NEW item, f.seen[p].id = item, Lists(q, f.seen, Owned(f.seen, p)),
         ending \/ ~OnlyCommas(f.seen, p, Len(f.seen) + 1), g.seen = f.seen,
         g.given = f.given \cup {[id |-> item, comments |-> q]}
  PROVE  Given(g, ending)
<1>1. GivenIn(g, [id |-> item, comments |-> q], ending)
  BY DEF GivenIn
<1>2. \A x \in f.given : GivenIn(g, x, ending)
  BY DEF Given, GivenIn
<1> QED
  BY <1>1, <1>2 DEF Given

LEMMA CommentsTrailingComment ==
  ASSUME Inv, CommentsInv, TrailingComment
  PROVE  CommentsInv'
<1> DEFINE v == AppendComments(Top.field.v, <<ctl.n.id>>)
           q == v.comments
           s == Top.seen
           m == Len(s) - 1
<1>1. /\ count' = count /\ ctl.op = "node" /\ ctl.n.t = "comment" /\ Top.fn = "object"
      /\ IsTrailing(Top) /\ FieldDone(v, NextChild)
  BY DEF TrailingComment, FieldDone, Child, Trailing, IsTrailing
<1>2. ctl'.op \in {"throw", "next"}
  BY <1>1 DEF FieldDone, Throw, NextChild
<1>3. /\ IsFrame(Top) /\ Text(s, count) /\ Given(Top, FALSE) /\ count \in Nat
      /\ Len(s) \in Nat \ {0} /\ s[Len(s)] = ctl.n /\ m \in Nat /\ m + 1 = Len(s)
      /\ Trails(Top, m)
  BY <1>1, AtNode DEF Settled
<1> HIDE DEF m
<1>4. PICK p \in 1 .. m : /\ AtItem(Top, p) /\ OnlyCommas(s, p, m + 1)
                          /\ Lists(Top.field.v.comments, s, Above(s, p) \cup Inside(s, p))
  BY <1>3 DEF Trails
<1>5. m \in 0 .. Len(s) /\ m < Len(s) /\ s[m + 1].t = "comment" /\ p \in 1 .. Len(s)
  BY <1>1, <1>3
<1>6. Lists(q, s, Owned(s, p)) /\ ~OnlyCommas(s, p, Len(s) + 1)
  <2>1. PICK w : w = Top.field.v.comments
    OBVIOUS
  <2>2. /\ Lists(w \o <<s[m + 1].id>>, s, Owned(s, p)) /\ <<s[m + 1].id>> # w
        /\ ~OnlyCommas(s, p, Len(s) + 1)
    <3>1. m < Len(s) => s[m + 1].t # "comma"
      BY <1>5
    <3>2. Lists(w, s, Above(s, p) \cup Inside(s, p))
      BY <1>4, <2>1
    <3> QED
      BY <1>3, <1>4, <1>5, <3>1, <3>2, ItemOwns
  <2>3. <<ctl.n.id>> \in Seq(Nat) /\ w \in Seq(Nat) /\ "comments" \in DOMAIN Top.field.v
    <3>1. s[m + 1].id \in Nat
      <4>1. m + 1 \in 1 .. Len(s)
        BY <1>3
      <4> QED
        BY <1>3, <4>1 DEF Text
    <3>2. ctl.n.id \in Nat
      BY <1>3, <3>1
    <3> QED
      BY <1>3, <1>4, <2>1, <3>2 DEF Lists, Trails
  <2>4. q = w \o <<ctl.n.id>>
    <3>1. PICK x \in Seq(Nat) : x = <<ctl.n.id>>
      BY <2>3
    <3>2. x # w
      BY <1>3, <2>2, <3>1
    <3>3. AppendComments(Top.field.v, x).comments = w \o x
      BY <2>1, <2>3, <3>2, CommentsAppended
    <3> QED
      BY <3>1, <3>3
  <2> QED
    BY <1>3, <2>2, <2>4
<1> HIDE DEF q, v
<1>7. PICK values :
        SetTop([Top EXCEPT !.values = values, !.field = NoField,
                           !.given = @ \cup {[id |-> Top.item, comments |-> q]}])
  BY <1>1 DEF FieldDone, q
<1> DEFINE f == [Top EXCEPT !.values = values, !.field = NoField,
                            !.given = @ \cup {[id |-> Top.item, comments |-> q]}]
<1>8. /\ f.seen = s /\ f.given = Top.given \cup {[id |-> Top.item, comments |-> q]}
      /\ f.fn = "object" /\ f.comments = Top.comments /\ f.newline = Top.newline
      /\ f.field.stage = "none" /\ SetTop(f)
  BY <1>1, <1>3, <1>7 DEF IsFrame, NoField
<1> HIDE DEF f
<1>9. Given(f, FALSE)
  <2>1. s[p].id = Top.item
    BY <1>4 DEF AtItem
  <2> QED
    BY <1>3, <1>5, <1>6, <1>8, <2>1, GivenOneMore
<1>10. Settled(f, Len(s), FALSE)
  <2>1. NextTo(s, m)
    BY <1>1, <1>4, ItemIsNext DEF AtItem, ItemTypes
  <2>2. f.comments = <<>> /\ f.newline = FALSE
    BY <1>3, <1>4, <1>8 DEF Trails, AtItem
  <2>3. Loose(f, m + 1) /\ ~NextTo(f.seen, m + 1)
    BY <1>3, <1>5, <1>8, <2>1, <2>2, LooseAfterItem
  <2> QED
    BY <1>3, <1>8, <2>3 DEF Settled, IsTrailing, HasElement
<1>11. CASE ctl'.op = "next"
  <2>1. Fine(f, count, ctl')
    BY <1>3, <1>8, <1>9, <1>10, <1>11, FineNext
  <2> QED
    BY <1>1, <1>3, <1>8, <1>11, <2>1, TopChanges
<1>12. CASE ctl'.op = "throw"
  <2>1. Fine(f, count, ctl')
    BY <1>3, <1>8, <1>9, <1>12, FineThrow, GivenEnds
  <2> QED
    BY <1>1, <1>3, <1>8, <1>12, <2>1, TopChanges
<1> QED
  BY <1>2, <1>11, <1>12

LEMMA CommentsTrailingOver ==
  ASSUME Inv, CommentsInv, TrailingOver
  PROVE  CommentsInv'
<1> DEFINE q == Top.field.v.comments
           s == Top.seen
<1>1. /\ count' = count /\ ctl.op = "node" /\ ctl.n.t \notin {"comment", "comma"}
      /\ IsTrailing(Top) /\ FieldDone(Top.field.v, ctl)
  BY DEF TrailingOver, FieldDone, Trailing, IsTrailing
<1>2. ctl'.op = "throw" \/ ctl' = ctl
  BY <1>1 DEF FieldDone, Throw
<1>3. IsFrame(Top) /\ Top.fn = "object"
  BY <1>1, TopFacts DEF Inv, IsFrame, IsTrailing
<1>4. Text(s, count) /\ count \in Nat /\ Len(s) \in Nat
  <2>1. Text(s, count) /\ count \in Nat
    BY DEF CommentsInv, Fine
  <2> QED
    BY <2>1 DEF Text, IsSequence
<1>5. PICK m \in 0 .. Len(s) :
        /\ Trails(Top, m) /\ Given(Top, IsEnd(ctl))
        /\ IsEnd(ctl) => m = Len(s)
        /\ ~IsEnd(ctl) => m + 1 = Len(s) /\ m = Len(s) - 1 /\ IsLast(Top, ctl.n)
  <2>1. CASE IsEnd(ctl)
    <3>1. Trails(Top, Len(s)) /\ Given(Top, TRUE)
      BY <1>1, <1>3, <2>1 DEF CommentsInv, Fine, Ready, Settled
    <3>2. Len(s) \in 0 .. Len(s)
      BY <1>4
    <3> QED
      BY <2>1, <3>1, <3>2
  <2>2. CASE ~IsEnd(ctl)
    <3>1. /\ Trails(Top, Len(s) - 1) /\ Given(Top, FALSE) /\ IsLast(Top, ctl.n)
          /\ Len(s) - 1 \in Nat /\ (Len(s) - 1) + 1 = Len(s)
      BY <1>1, <1>3, <2>2, AtNode DEF Settled, IsEnd, IsLast
    <3>2. Len(s) - 1 \in 0 .. Len(s)
      BY <1>4, <3>1
    <3>3. Given(Top, IsEnd(ctl))
      BY <3>1 DEF Given, GivenIn
    <3> QED
      BY <2>2, <3>1, <3>2, <3>3
  <2> QED
    BY <2>1, <2>2
<1>6. PICK p \in 1 .. m : /\ AtItem(Top, p) /\ OnlyCommas(s, p, m + 1)
                          /\ Lists(q, s, Above(s, p) \cup Inside(s, p))
  BY <1>5 DEF Trails
<1>7. /\ p \in 1 .. Len(s) /\ m \in Nat
      /\ m < Len(s) => ~IsEnd(ctl) /\ s[m + 1] = ctl.n
  BY <1>4, <1>5 DEF IsLast
<1>8. Lists(q, s, Owned(s, p)) /\ (IsEnd(ctl) \/ ~OnlyCommas(s, p, Len(s) + 1))
  <2>1. m < Len(s) => s[m + 1].t # "comma" /\ s[m + 1].t # "comment"
    BY <1>1, <1>7
  <2>2. ~IsEnd(ctl) => m < Len(s)
    BY <1>4, <1>5
  <2> HIDE DEF q
  <2> QED
    BY <1>4, <1>5, <1>6, <2>1, <2>2, ItemOwns
<1> HIDE DEF q
<1>9. PICK values :
        SetTop([Top EXCEPT !.values = values, !.field = NoField,
                           !.given = @ \cup {[id |-> Top.item, comments |-> q]}])
  BY <1>1 DEF FieldDone, q
<1> DEFINE f == [Top EXCEPT !.values = values, !.field = NoField,
                            !.given = @ \cup {[id |-> Top.item, comments |-> q]}]
<1>10. /\ f.seen = s /\ f.given = Top.given \cup {[id |-> Top.item, comments |-> q]}
       /\ f.fn = "object" /\ f.comments = Top.comments /\ f.newline = Top.newline
       /\ f.field.stage = "none" /\ SetTop(f)
  BY <1>3, <1>9 DEF IsFrame, NoField
<1> HIDE DEF f
<1>11. Given(f, IsEnd(ctl))
  <2>1. s[p].id = Top.item
    BY <1>6 DEF AtItem
  <2>2. PICK ending \in BOOLEAN : ending <=> IsEnd(ctl)
    OBVIOUS
  <2>3. Given(f, ending)
    <3>1. Given(Top, ending)
      BY <1>5, <2>2 DEF Given, GivenIn
    <3>2. ending \/ ~OnlyCommas(s, p, Len(s) + 1)
      BY <1>8, <2>2
    <3> QED
      BY <1>7, <1>8, <1>10, <2>1, <3>1, <3>2, GivenOneMore
  <2> QED
    BY <2>2, <2>3 DEF Given, GivenIn
<1>12. Settled(f, m, TRUE)
  <2>1. NextTo(s, m)
    BY <1>3, <1>6, ItemIsNext DEF AtItem, ItemTypes
  <2>2. f.comments = <<>> /\ f.newline = FALSE
    BY <1>5, <1>6, <1>10 DEF Trails, AtItem
  <2>3. Loose(f, m)
    BY <1>7, <1>10, <2>1, <2>2, LooseAfterItem
  <2> QED
    BY <1>10, <2>3 DEF Settled, IsTrailing, HasElement
<1>13. CASE ctl' = ctl
  <2>1. IsOver(f, ctl.n)
    BY <1>1, <1>10 DEF IsOver
  <2>2. ~IsEnd(ctl) => IsLast(f, ctl.n)
    BY <1>5, <1>10 DEF IsLast
  <2>3. Settled(f, m, IsOver(f, ctl.n))
    BY <1>12, <2>1 DEF Settled
  <2>4. Ready(f, ctl)
    BY <1>1, <1>5, <1>10, <1>12, <2>2, <2>3 DEF Ready
  <2>5. ctl.op \notin {"throw", "done"}
    BY <1>1
  <2>6. Given(f, ctl.op \in {"throw", "done"} \/ IsEnd(ctl))
    BY <1>11, <2>5 DEF Given, GivenIn
  <2>7. Fine(f, count, ctl')
    BY <1>4, <1>10, <1>13, <2>4, <2>6 DEF Fine
  <2>8. ctl'.op # "value"
    BY <1>1, <1>13
  <2> QED
    BY <1>1, <1>4, <1>10, <2>7, <2>8, TopChanges
<1>14. CASE ctl'.op = "throw"
  <2>1. Given(f, TRUE)
    BY <1>11 DEF Given, GivenIn
  <2>2. Fine(f, count, ctl')
    BY <1>4, <1>10, <1>14, <2>1, FineThrow
  <2> QED
    BY <1>1, <1>4, <1>10, <1>14, <2>2, TopChanges
<1> QED
  BY <1>2, <1>13, <1>14

\* An element has its comments when its line is over or the next one comes.
LEMMA ElementOwns ==
  ASSUME NEW f, NEW k, Text(f.seen, k), f.fn = "array", NEW m \in Nat, m + 1 = Len(f.seen),
         Pends(f, m), f.seen[m + 1].t \in {"newline", "value"},
         NEW q, q = AppendComments(f.v, f.comments).comments
  PROVE  /\ \E p \in 1 .. Len(f.seen) :
              /\ f.seen[p].id = f.item /\ Lists(q, f.seen, Owned(f.seen, p))
              /\ ~OnlyCommas(f.seen, p, Len(f.seen) + 1)
         /\ \/ NextTo(f.seen, m)
            \/ m - 1 \in Nat /\ NextTo(f.seen, m - 1) /\ f.seen[m].t = "comment"
         /\ f.newline = FALSE
<1> DEFINE s == f.seen
           w == f.v.comments
<1>1. PICK p \in 1 .. m : /\ AtItem(f, p)
                          /\ Lists(w, s, Above(s, p))
                          /\ \/ f.comments = <<>> /\ OnlyCommas(s, p, m + 1)
                             \/ HasComment(f, p, m)
  BY DEF Pends
<1>2. s[p].t = "value" /\ s[p].id = f.item /\ f.newline = FALSE /\ Len(s) \in Nat /\ p \in 1 .. Len(s)
  BY <1>1 DEF AtItem
<1>3. Inside(s, p) = {}
  BY <1>2 DEF Inside
<1>4. Lists(w, s, Above(s, p) \cup Inside(s, p)) /\ w \in Seq(Nat) /\ "comments" \in DOMAIN f.v
  BY <1>1, <1>3 DEF Lists, Pends
<1> HIDE DEF w
<1>5. CASE f.comments = <<>> /\ OnlyCommas(s, p, m + 1)
  <2>1. q = w
    <3>0. <<>> \in Seq(Nat)
      OBVIOUS
    <3>1. PICK x \in Seq(Nat) : x = <<>>
      BY <3>0
    <3> QED
      BY <1>4, <1>5, <3>1, CommentsAppended DEF w
  <2>2. m \in 0 .. Len(s) /\ m < Len(s) /\ s[m + 1].t # "comma" /\ s[m + 1].t # "comment"
    OBVIOUS
  <2>3. Lists(q, s, Owned(s, p)) /\ ~OnlyCommas(s, p, Len(s) + 1)
    BY <1>4, <1>5, <2>1, <2>2, ItemOwns
  <2>4. NextTo(s, m)
    BY <1>2, <1>5, ItemIsNext DEF ItemTypes
  <2> QED
    BY <1>2, <2>3, <2>4
<1>6. CASE HasComment(f, p, m)
  <2>1. PICK j : j = m - 1
    OBVIOUS
  <2>2. j \in Nat /\ j + 1 = m /\ p \in 1 .. j /\ j \in 0 .. Len(s) /\ j < Len(s)
    BY <1>6, <2>1 DEF HasComment
  <2>3. s[j + 1].t = "comment" /\ OnlyCommas(s, p, j + 1) /\ f.comments = <<s[j + 1].id>>
    BY <1>6, <2>2 DEF HasComment
  <2>4. /\ Lists(w \o <<s[j + 1].id>>, s, Owned(s, p)) /\ <<s[j + 1].id>> # w
        /\ ~OnlyCommas(s, p, Len(s) + 1)
    <3>1. j < Len(s) => s[j + 1].t # "comma"
      BY <2>3
    <3> QED
      BY <1>4, <2>2, <2>3, <3>1, ItemOwns
  <2>5. s[j + 1].id \in Nat
    <3>1. j + 1 \in 1 .. Len(s)
      BY <2>2
    <3> QED
      BY <3>1 DEF Text
  <2>6. q = w \o <<s[j + 1].id>>
    <3>0. <<s[j + 1].id>> \in Seq(Nat)
      BY <2>5
    <3>1. PICK x \in Seq(Nat) : x = <<s[j + 1].id>>
      BY <3>0
    <3>2. x # w /\ f.comments = x
      BY <2>3, <2>4, <3>1
    <3> QED
      BY <1>4, <3>1, <3>2, CommentsAppended DEF w
  <2>7. NextTo(s, j)
    BY <1>2, <2>2, <2>3, ItemIsNext DEF ItemTypes
  <2> QED
    BY <1>2, <2>1, <2>2, <2>3, <2>4, <2>6, <2>7
<1> QED
  BY <1>1, <1>5, <1>6

\* The frame when the element is put in the list.
LEMMA ElementIsIn ==
  ASSUME NEW f, IsFrame(f), NEW g, g = WithElement(f)
  PROVE  /\ g.seen = f.seen /\ g.fn = f.fn /\ g.comments = <<>> /\ g.newline = f.newline
         /\ g.v = NoValue /\ g.field = f.field /\ g.item = f.item
         /\ g.given = f.given \cup {[id |-> f.item,
                                     comments |-> AppendComments(f.v, f.comments).comments]}
         /\ DOMAIN g = DOMAIN f
BY DEF WithElement, IsFrame

LEMMA CommentsElementLineEnds ==
  ASSUME Inv, CommentsInv, ElementLineEnds
  PROVE  CommentsInv'
<1> DEFINE g == WithElement(Top)
           f == [g EXCEPT !.newline = TRUE]
           s == Top.seen
           m == Len(s) - 1
           q == AppendComments(Top.v, Top.comments).comments
<1>1. /\ SetTop(f) /\ count' = count /\ ctl'.op = "next" /\ Top.fn = "array" /\ HasElement(Top)
      /\ ctl.op = "node" /\ ctl.n.t = "newline"
  BY DEF ElementLineEnds, Child, NextChild, HasElement
<1>2. /\ IsFrame(Top) /\ Text(s, count) /\ Given(Top, FALSE) /\ count \in Nat
      /\ s[Len(s)] = ctl.n /\ m \in Nat /\ m + 1 = Len(s) /\ Pends(Top, m)
  BY <1>1, AtNode DEF Settled
<1> HIDE DEF m, q
<1>3. /\ g.seen = s /\ g.fn = "array" /\ g.comments = <<>> /\ g.v = NoValue
      /\ g.field = Top.field /\ DOMAIN g = DOMAIN Top
      /\ g.given = Top.given \cup {[id |-> Top.item, comments |-> q]}
  BY <1>1, <1>2, ElementIsIn DEF q
<1> HIDE DEF g
<1>4. /\ f.seen = s /\ f.fn = "array" /\ f.comments = <<>> /\ f.v = NoValue
      /\ f.field = Top.field /\ f.newline = TRUE
      /\ f.given = Top.given \cup {[id |-> Top.item, comments |-> q]}
  BY <1>2, <1>3 DEF IsFrame
<1> HIDE DEF f
<1>5. /\ \E p \in 1 .. Len(s) : /\ s[p].id = Top.item /\ Lists(q, s, Owned(s, p))
                                /\ ~OnlyCommas(s, p, Len(s) + 1)
      /\ \/ NextTo(s, m)
         \/ m - 1 \in Nat /\ NextTo(s, m - 1) /\ s[m].t = "comment"
  <2>1. s[m + 1].t \in {"newline", "value"}
    BY <1>1, <1>2
  <2> QED
    BY <1>1, <1>2, <2>1, ElementOwns DEF q
<1>6. Given(f, FALSE)
  BY <1>2, <1>4, <1>5, GivenOneMore
<1>7. Loose(f, m + 1) /\ ~NextTo(f.seen, m + 1)
  <2>1. s[m + 1].t = "newline"
    BY <1>1, <1>2
  <2>2. CASE NextTo(s, m)
    BY <1>2, <1>4, <2>1, <2>2, LooseAfterItem
  <2>3. CASE m - 1 \in Nat /\ NextTo(s, m - 1) /\ s[m].t = "comment"
    <3>1. PICK j \in Nat : j = m - 1
      BY <2>3
    <3>2. j + 1 = m /\ j + 2 = m + 1
      BY <1>2, <3>1
    <3>3. NextTo(f.seen, j) /\ f.seen[j + 1].t = "comment" /\ f.seen[j + 2].t = "newline"
      BY <1>4, <2>1, <2>3, <3>1, <3>2
    <3>4. Loose(f, j + 2) /\ ~NextTo(f.seen, j + 2)
      BY <1>4, <3>3, LooseAfterItem
    <3> QED
      BY <3>2, <3>4
  <2> QED
    BY <1>5, <2>2, <2>3
<1>8. Settled(f, Len(s), FALSE)
  <2>1. ~IsTrailing(f) /\ ~HasElement(f)
    BY <1>1, <1>2, <1>4 DEF IsTrailing, HasElement, HasValue, NoValue, Value, IsFrame
  <2> QED
    BY <1>2, <1>7, <2>1 DEF Settled
<1>9. Fine(f, count, ctl')
  BY <1>1, <1>2, <1>4, <1>6, <1>8, FineNext
<1> QED
  BY <1>1, <1>2, <1>9, TopChanges

LEMMA CommentsElement ==
  ASSUME Inv, CommentsInv, Element
  PROVE  CommentsInv'
<1> DEFINE g == IF HasValue(Top.v) THEN WithElement(Top) ELSE Top
           f == [g EXCEPT !.newline = FALSE, !.item = ctl.n.id]
           s == Top.seen
           m == Len(s) - 1
           q == AppendComments(Top.v, Top.comments).comments
<1>1. /\ SetTop(f) /\ count' = count /\ ctl'.op = "parse" /\ Top.fn = "array"
      /\ ctl.op = "node" /\ ctl.n.t = "value" /\ (HasElement(Top) <=> HasValue(Top.v))
  BY DEF Element, Child, Parse, HasElement
<1>2. /\ IsFrame(Top) /\ Text(s, count) /\ Given(Top, FALSE) /\ count \in Nat /\ s # <<>>
      /\ s[Len(s)] = ctl.n /\ m \in Nat /\ m + 1 = Len(s) /\ m = Len(s) - 1 /\ m + 1 \in Nat \ {0}
      /\ Settled(Top, m, IsOver(Top, ctl.n))
  BY <1>1, AtNode
<1> HIDE DEF m, q
<1>3. /\ g.seen = s /\ g.fn = "array" /\ DOMAIN g = DOMAIN Top
      /\ HasElement(Top) =>
           /\ g.comments = <<>>
           /\ g.given = Top.given \cup {[id |-> Top.item, comments |-> q]}
      /\ ~HasElement(Top) => g = Top
  BY <1>1, <1>2, ElementIsIn DEF q
<1> HIDE DEF g
<1>4. /\ f.seen = s /\ f.fn = "array" /\ f.newline = FALSE /\ f.item = ctl.n.id
      /\ f.comments = g.comments /\ f.given = g.given
  BY <1>2, <1>3 DEF IsFrame
<1> HIDE DEF f
<1>5. s[m + 1].t = "value" /\ s[m + 1].id = ctl.n.id
  BY <1>1, <1>2
<1>6. AtItem(f, Len(s))
  BY <1>2, <1>4, <1>5 DEF AtItem
<1>7. CASE HasElement(Top)
  <2>1. Pends(Top, m)
    BY <1>2, <1>7 DEF Settled
  <2>2. /\ \E p \in 1 .. Len(s) : /\ s[p].id = Top.item /\ Lists(q, s, Owned(s, p))
                                  /\ ~OnlyCommas(s, p, Len(s) + 1)
        /\ \/ NextTo(s, m)
           \/ m - 1 \in Nat /\ NextTo(s, m - 1) /\ s[m].t = "comment"
    BY <1>1, <1>2, <1>5, <2>1, ElementOwns DEF q
  <2>3. Given(f, FALSE)
    BY <1>2, <1>3, <1>4, <1>7, <2>2, GivenOneMore
  <2>4. Above(s, Len(s)) \cup Inside(s, Len(s)) = {}
    <3>1. Inside(s, Len(s)) = {}
      BY <1>2, <1>5 DEF Inside
    <3>2. NextTo(s, m)
      <4> SUFFICES ASSUME m - 1 \in Nat, s[m].t = "comment"
                   PROVE  FALSE
        BY <2>2
      <4>1. m \in 1 .. Len(s) /\ m < Len(s)
        BY <1>2
      <4> QED
        BY <1>2, <1>5, <4>1, AfterComment
    <3>3. Above(s, m + 1) = {}
      BY <1>2, <3>2, NothingAbove
    <3> QED
      BY <1>2, <3>1, <3>3
  <2>5. Lists(f.comments, s, {})
    BY <1>3, <1>4, <1>7, ListsNothing
  <2>6. Awaiting(f)
    BY <1>2, <1>4, <1>6, <2>4, <2>5 DEF Awaiting
  <2>7. Fine(f, count, ctl')
    <3>1. Text(f.seen, count) /\ f.fn # "concatenation"
      BY <1>2, <1>4
    <3> QED
      BY <1>1, <2>3, <2>6, <3>1, FineCall
  <2> QED
    BY <1>1, <1>2, <2>7, TopChanges
<1>8. CASE ~HasElement(Top)
  <2>1. Loose(Top, Len(s) - 1)
    <3>1. ~IsTrailing(Top)
      BY <1>1, <1>2 DEF IsFrame, IsTrailing
    <3> QED
      BY <1>2, <1>8, <3>1 DEF Settled
  <2>2. f.comments = IF s[Len(s)].t = "field" /\ s[Len(s)].shape.inner
                     THEN Append(Top.comments, s[Len(s)].id) ELSE Top.comments
    BY <1>2, <1>3, <1>4, <1>5, <1>8
  <2>3. Lists(f.comments, s, Above(s, Len(s)) \cup Inside(s, Len(s)))
    BY <1>2, <2>1, <2>2, LooseItem
  <2>4. Awaiting(f)
    BY <1>2, <1>4, <1>6, <2>3 DEF Awaiting
  <2>5. Fine(f, count, ctl')
    <3>1. f.given = Top.given /\ f.fn # "concatenation"
      BY <1>3, <1>4, <1>8
    <3> QED
      BY <1>1, <1>2, <1>4, <2>4, <3>1, FineCall
  <2> QED
    BY <1>1, <1>2, <2>5, TopChanges
<1> QED
  BY <1>7, <1>8

LEMMA CommentsElementValue ==
  ASSUME Inv, CommentsInv, ElementValue
  PROVE  CommentsInv'
<1> DEFINE w == PrependComments(ctl.v, Top.comments)
           f == [Top EXCEPT !.v = w, !.comments = <<>>]
           s == Top.seen
<1>1. /\ SetTop(f) /\ count' = count /\ ctl.op = "value" /\ Top.fn = "array" /\ ctl'.op = "next"
  BY DEF ElementValue, Awaits, NextChild
<1>2. /\ IsFrame(Top) /\ Text(s, count) /\ Given(Top, FALSE) /\ count \in Nat
      /\ IsPlain(ctl.v) /\ Awaiting(Top) /\ Len(s) \in Nat \ {0}
  BY <1>1, AtValue
<1>3. Top.comments \in Seq(Nat)
  BY <1>2 DEF Awaiting, Lists
<1>4. w.comments = Top.comments /\ "comments" \in DOMAIN w /\ HasValue(w)
  BY <1>2, <1>3, CommentsPrepended
<1> HIDE DEF w
<1>5. /\ f.seen = s /\ f.given = Top.given /\ f.fn = "array" /\ f.comments = <<>>
      /\ f.newline = Top.newline /\ f.item = Top.item /\ f.v = w /\ f.field = Top.field
  BY <1>1, <1>2 DEF IsFrame
<1> HIDE DEF f
<1>6. Pends(f, Len(s))
  <2>1. AtItem(f, Len(s)) /\ s[Len(s)].t = "value"
    BY <1>1, <1>2, <1>5 DEF Awaiting, AtItem
  <2>2. OnlyCommas(s, Len(s), Len(s) + 1)
    BY <1>2 DEF OnlyCommas
  <2>3. Len(s) \in 1 .. Len(s)
    BY <1>2
  <2>4. Inside(s, Len(s)) = {}
    BY <2>1 DEF Inside
  <2>5. Lists(w.comments, s, Above(s, Len(s)))
    BY <1>2, <1>4, <2>4 DEF Awaiting
  <2> QED
    BY <1>4, <1>5, <2>1, <2>2, <2>3, <2>5 DEF Pends
<1>7. Settled(f, Len(s), FALSE)
  <2>1. ~IsTrailing(f) /\ HasElement(f)
    BY <1>1, <1>2, <1>4, <1>5 DEF IsTrailing, HasElement, IsFrame
  <2> QED
    BY <1>6, <2>1 DEF Settled
<1>8. Fine(f, count, ctl')
  BY <1>1, <1>2, <1>5, <1>7, FineNext
<1> QED
  BY <1>1, <1>2, <1>8, TopChanges

LEMMA CommentsNext ==
  ASSUME ConcatenationIsPlain, Inv, CommentsInv, [Next]_vars
  PROVE  CommentsInv'
<1>1. CASE UNCHANGED vars
  <2>1. /\ stack' = stack /\ ctl' = ctl /\ count' = count
    BY <1>1 DEF vars
  <2> QED
    BY <2>1, TopStays DEF CommentsInv
<1>2. CASE Next
  BY <1>2, CommentsNextNode, CommentsParse, CommentsComment, CommentsComma, CommentsNewline,
     CommentsField, CommentsFieldValue, CommentsTrailingComment, CommentsTrailingOver,
     CommentsInclude, CommentsElementLineEnds, CommentsElement, CommentsElementValue,
     CommentsRootValue, CommentsCalls, CommentsEnds DEF Next
<1> QED
  BY <1>1, <1>2

\* Every field and element gets the comments above it, inside it and behind it
\* on its line, in order, whatever follows and whatever is nested in it.
THEOREM CommentsBelong ==
  ASSUME ConcatenationIsPlain
  PROVE  Spec => []CommentsGoWith
<1>1. Init => Inv /\ CommentsInv
  BY InvInit, CommentsInit
<1>2. Inv /\ CommentsInv /\ [Next]_vars => (Inv /\ CommentsInv)'
  BY InvNext, CommentsNext
<1>3. Inv /\ CommentsInv => CommentsGoWith
  <2> SUFFICES ASSUME Inv, CommentsInv, NEW i \in DOMAIN stack, NEW g \in stack[i].given,
                      NEW p \in DOMAIN stack[i].seen, stack[i].seen[p].id = g.id
               PROVE  Lists(g.comments, stack[i].seen, Owned(stack[i].seen, p))
    BY DEF CommentsGoWith
  <2> DEFINE f == stack[i]
             s == f.seen
  <2>1. Text(s, count) /\ \E ending \in BOOLEAN : Given(f, ending)
    <3>1. i \in 1 .. Len(stack) /\ (i < Len(stack) \/ (i = Len(stack) /\ f = Top))
      BY TopFacts DEF Inv
    <3>2. \E c : Fine(f, count, c)
      BY <3>1 DEF CommentsInv
    <3> QED
      BY <3>2 DEF Fine, Given, GivenIn
  <2>2. DOMAIN s = 1 .. Len(s) /\ Len(s) \in Nat
    BY <2>1 DEF Text, IsSequence
  <2>3. PICK j \in 1 .. Len(s) : s[j].id = g.id /\ Lists(g.comments, s, Owned(s, j))
    BY <2>1 DEF Given, GivenIn
  <2>4. p \in 1 .. Len(s) /\ s[p].id = s[j].id
    BY <2>2, <2>3
  <2>5. \A x, y \in 1 .. Len(s) : x < y => s[x].id < s[y].id
    BY <2>1 DEF Text
  <2>6. s[p].id \in Nat /\ s[j].id \in Nat
    BY <2>1, <2>4 DEF Text
  <2>7. p = j
    BY <2>2, <2>4, <2>5, <2>6
  <2> QED
    BY <2>3, <2>7
<1> QED
  BY <1>1, <1>2, <1>3, PTL DEF Spec
=============================================================================
