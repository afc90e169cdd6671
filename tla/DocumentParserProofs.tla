------------------------- MODULE DocumentParserProofs -------------------------
(***************************************************************************)
(* What is proved of the document parser for every text: the end of the    *)
(* tokens is never read past; _equals_count is the number of fields with = *)
(* in progress, so that "unbalanced equals count" is never thrown; and an  *)
(* error is reported on the line of its token.                             *)
(***************************************************************************)
EXTENDS DocumentParser, StackProofs, WellFoundedInduction

-----------------------------------------------------------------------------
(***************************************************************************)
(* The stack: what its frames are, which stands on which, and what         *)
(* equals_count is, in the frames that note it too.                        *)
(***************************************************************************)
Roots  == {"parse", "parse_single_value"}
Noting == {"object", "array"}
Counted(f) == f.fn = "object" /\ f.inside_equals

IsFrame(f) ==
  /\ f.fn \in Roots \cup Noting \cup {"include", "values"}
  /\ DOMAIN f = CASE f.fn = "object" -> {"fn", "pc", "nodes", "field", "key", "keys", "after_comma",
                                         "inside_equals", "newline", "equals"}
                  [] f.fn = "array"  -> {"fn", "pc", "nodes", "newline", "equals"}
                  [] OTHER           -> {"fn", "pc", "nodes"}
  /\ Counted(f) => f.pc = "value"
  /\ f.fn = "values" => IsSequence(f.nodes)

Shape(s) ==
  /\ IsSequence(s)
  /\ \A i \in 1 .. Len(s) :
       /\ IsFrame(s[i])
       /\ s[i].fn \in Roots <=> i = 1
       /\ s[i].fn = "include" => s[i - 1].fn = "object" /\ s[i - 1].pc = "member"

Equals(s) == {i \in 1 .. Len(s) : Counted(s[i])}
Counting(s, n) ==
  /\ n = Number(Equals(s), Len(s))
  /\ \A i \in 1 .. Len(s) : s[i].fn \in Noting => s[i].equals = Number(Equals(s), i - 1)

Good(s, n) == Shape(s) /\ Counting(s, n)

One(P) == IF P THEN 1 ELSE 0

\* A frame that another one may replace.
Alike(f, g) == g.fn = f.fn /\ (f.fn \in Noting => g.equals = f.equals)

\* Where two stacks agree, so do the numbers.
LEMMA Agreeing ==
  ASSUME NEW s, NEW t, NEW k \in Nat, k <= Len(s), k <= Len(t), Len(s) \in Nat, Len(t) \in Nat,
         \A i \in 1 .. k : Counted(t[i]) <=> Counted(s[i])
  PROVE  \A i \in 0 .. k : Number(Equals(t), i) = Number(Equals(s), i)
<1> SUFFICES ASSUME NEW i \in 0 .. k
             PROVE  Number(Equals(t), i) = Number(Equals(s), i)
  OBVIOUS
<1>1. Equals(t) \cap 1 .. i = Equals(s) \cap 1 .. i
  BY DEF Equals
<1> QED
  BY <1>1 DEF Number

\* The number at the top, from the one below it.
LEMMA AtTop ==
  ASSUME NEW s, Len(s) \in Nat \ {0}
  PROVE  /\ Number(Equals(s), Len(s) - 1) \in Nat
         /\ Number(Equals(s), Len(s)) = Number(Equals(s), Len(s) - 1) + One(Counted(s[Len(s)]))
<1>1. Len(s) - 1 \in Nat /\ (Len(s) - 1) + 1 = Len(s)
  OBVIOUS
<1>2. Len(s) \in Equals(s) <=> Counted(s[Len(s)])
  BY DEF Equals
<1>3. /\ Number(Equals(s), Len(s) - 1) \in Nat
      /\ Number(Equals(s), (Len(s) - 1) + 1)
           = Number(Equals(s), Len(s) - 1) + IF (Len(s) - 1) + 1 \in Equals(s) THEN 1 ELSE 0
  BY <1>1, NumberFacts
<1> QED
  BY <1>1, <1>2, <1>3 DEF One

\* A frame is replaced: at the top it may begin or end its field with =.
LEMMA GoodReplaced ==
  ASSUME NEW s, NEW n, Good(s, n), NEW i \in 1 .. Len(s), NEW g, IsFrame(g), Alike(s[i], g),
         i # Len(s) => g.pc = s[i].pc /\ (Counted(g) <=> Counted(s[i]))
  PROVE  /\ Good([s EXCEPT ![i] = g], n - One(Counted(s[i])) + One(Counted(g)))
         /\ [s EXCEPT ![i] = g] # <<>>
<1> DEFINE t == [s EXCEPT ![i] = g]
           m == n - One(Counted(s[i])) + One(Counted(g))
<1>1. IsSequence(s) /\ Len(s) \in Nat
  BY DEF Good, Shape, IsSequence
<1>2. Len(s) \in Nat \ {0} /\ DOMAIN s = 1 .. Len(s)
  <2>1. s # <<>>
    BY EmptyIsSequence
  <2> QED
    BY <1>1, <2>1, Popping
<1>3. t = [j \in 1 .. Len(s) |-> t[j]]
  BY <1>2
<1>4. IsSequence(t) /\ Len(t) = Len(s)
  BY <1>1, <1>3, FunctionIsSequence
<1>5. t[i] = g /\ \A j \in 1 .. Len(s) : j # i => t[j] = s[j]
  BY <1>2
<1> HIDE DEF t
<1>6. Shape(t)
  <2> SUFFICES ASSUME NEW j \in 1 .. Len(s)
               PROVE  /\ IsFrame(t[j])
                      /\ t[j].fn \in Roots <=> j = 1
                      /\ t[j].fn = "include" => t[j - 1].fn = "object" /\ t[j - 1].pc = "member"
    BY <1>4 DEF Shape
  <2>1. /\ IsFrame(s[j])
        /\ s[j].fn \in Roots <=> j = 1
        /\ s[j].fn = "include" => s[j - 1].fn = "object" /\ s[j - 1].pc = "member"
    BY DEF Good, Shape
  <2>2. IsFrame(t[j]) /\ t[j].fn = s[j].fn
    BY <1>5, <2>1 DEF Alike
  <2>3. ASSUME s[j].fn = "include"
        PROVE  t[j - 1].fn = "object" /\ t[j - 1].pc = "member"
    <3>1. j # 1
      BY <2>1, <2>3 DEF Roots
    <3>2. j - 1 \in 1 .. Len(s) /\ (j - 1 = i => i # Len(s))
      BY <1>1, <3>1
    <3>3. CASE j - 1 = i
      BY <1>5, <2>1, <2>3, <3>2, <3>3 DEF Alike
    <3>4. CASE j - 1 # i
      BY <1>5, <2>1, <2>3, <3>2, <3>4
    <3> QED
      BY <3>3, <3>4
  <2> QED
    BY <2>1, <2>2, <2>3
<1>7. /\ Len(s) - 1 \in Nat /\ Len(s) - 1 <= Len(s) /\ Len(s) - 1 <= Len(t) /\ Len(t) \in Nat
      /\ Len(s) - 1 \in 0 .. Len(s) - 1
  <2>1. \A k \in Nat \ {0} : k - 1 \in Nat /\ k - 1 <= k /\ k - 1 \in 0 .. k - 1
    OBVIOUS
  <2>2. Len(s) \in Nat \ {0}
    BY <1>2
  <2>3. Len(s) - 1 \in Nat /\ Len(s) - 1 <= Len(s) /\ Len(s) - 1 \in 0 .. Len(s) - 1
    BY <2>1, <2>2
  <2>4. Len(t) = Len(s)
    BY <1>4
  <2> QED
    BY <2>2, <2>3, <2>4
<1>8. /\ \A j \in 0 .. Len(s) - 1 : Number(Equals(t), j) = Number(Equals(s), j)
      /\ Number(Equals(t), Len(s)) = m
  <2>1. n = Number(Equals(s), Len(s))
    BY DEF Good, Counting
  <2>2. /\ Number(Equals(s), Len(s) - 1) \in Nat
        /\ Number(Equals(s), Len(s)) = Number(Equals(s), Len(s) - 1) + One(Counted(s[Len(s)]))
    BY <1>2, AtTop
  <2>3. CASE i = Len(s)
    <3>1. ASSUME NEW j \in 1 .. Len(s) - 1
          PROVE  Counted(t[j]) <=> Counted(s[j])
      <4>1. j \in 1 .. Len(s) /\ j # i
        BY <1>1, <2>3
      <4> QED
        BY <1>5, <4>1
    <3>2. \A j \in 0 .. Len(s) - 1 : Number(Equals(t), j) = Number(Equals(s), j)
      BY <1>1, <1>7, <3>1, Agreeing
    <3>4. Number(Equals(t), Len(t)) = Number(Equals(t), Len(t) - 1) + One(Counted(t[Len(t)]))
      BY <1>2, <1>4, AtTop
    <3>5. Number(Equals(t), Len(s)) = Number(Equals(s), Len(s) - 1) + One(Counted(g))
      BY <1>4, <1>5, <1>7, <2>3, <3>2, <3>4
    <3>6. One(Counted(g)) \in Int /\ One(Counted(s[i])) \in Int
      BY DEF One
    <3> QED
      BY <2>1, <2>2, <2>3, <3>2, <3>5, <3>6
  <2>4. CASE i # Len(s)
    <3>1. \A j \in 1 .. Len(s) : Counted(t[j]) <=> Counted(s[j])
      BY <1>5, <2>4
    <3>2. Equals(t) = Equals(s)
      BY <1>4, <3>1 DEF Equals
    <3>3. One(Counted(g)) = One(Counted(s[i])) /\ One(Counted(g)) \in Int
      BY <2>4 DEF One
    <3>4. n \in Int
      BY <2>1, <2>2 DEF One
    <3>5. m = n
      BY <3>3, <3>4
    <3> QED
      BY <2>1, <3>2, <3>5
  <2> QED
    BY <2>3, <2>4
<1>9. ASSUME NEW j \in 1 .. Len(t), t[j].fn \in Noting
      PROVE  t[j].equals = Number(Equals(t), j - 1)
  <2>1. j \in 1 .. Len(s) /\ j - 1 \in 0 .. Len(s) - 1
    BY <1>1, <1>4
  <2>2. t[j].fn = s[j].fn /\ t[j].equals = s[j].equals
    BY <1>5, <1>9, <2>1 DEF Alike
  <2>3. s[j].equals = Number(Equals(s), j - 1)
    BY <1>9, <2>1, <2>2 DEF Good, Counting
  <2> QED
    BY <1>8, <2>1, <2>2, <2>3
<1>10. t # <<>>
  BY <1>2, <1>4, EmptyIsSequence
<1> QED
  BY <1>4, <1>6, <1>8, <1>9, <1>10 DEF Good, Counting, t

\* A function is called, which counts nothing yet.
LEMMA GoodPushed ==
  ASSUME NEW s, NEW n, Good(s, n), NEW f, IsFrame(f), f.fn \notin Roots, s # <<>>, ~Counted(f),
         f.fn \in Noting => f.equals = n,
         f.fn = "include" => s[Len(s)].fn = "object" /\ s[Len(s)].pc = "member"
  PROVE  Good(Append(s, f), n) /\ Append(s, f) # <<>>
<1> DEFINE t == Append(s, f)
<1>1. IsSequence(s) /\ Len(s) \in Nat \ {0}
  BY Popping DEF Good, Shape
<1>2. /\ IsSequence(t) /\ Len(t) = Len(s) + 1
      /\ t[Len(s) + 1] = f /\ \A i \in 1 .. Len(s) : t[i] = s[i]
  BY <1>1, Pushing
<1> HIDE DEF t
<1>3. ASSUME NEW i \in 1 .. Len(t)
      PROVE  i = Len(s) + 1 \/ (i \in 1 .. Len(s) /\ t[i] = s[i] /\ (i # 1 => t[i - 1] = s[i - 1] /\ i - 1 \in 1 .. Len(s)))
  BY <1>1, <1>2
<1>4. Shape(t)
  <2> SUFFICES ASSUME NEW i \in 1 .. Len(t)
               PROVE  /\ IsFrame(t[i])
                      /\ t[i].fn \in Roots <=> i = 1
                      /\ t[i].fn = "include" => t[i - 1].fn = "object" /\ t[i - 1].pc = "member"
    BY <1>2 DEF Shape
  <2>1. CASE i = Len(s) + 1
    <3>1. Len(s) \in 1 .. Len(s) /\ i - 1 = Len(s) /\ i # 1
      BY <1>1, <2>1
    <3> QED
      BY <1>2, <2>1, <3>1
  <2>2. CASE i \in 1 .. Len(s)
    <3>1. /\ IsFrame(s[i])
          /\ s[i].fn \in Roots <=> i = 1
          /\ s[i].fn = "include" => s[i - 1].fn = "object" /\ s[i - 1].pc = "member"
      BY <2>2 DEF Good, Shape
    <3>2. s[i].fn = "include" => i # 1
      BY <3>1 DEF Roots
    <3> QED
      BY <1>1, <1>2, <1>3, <2>2, <3>1, <3>2
  <2> QED
    BY <1>3, <2>1, <2>2
<1>5. \A i \in 0 .. Len(s) : Number(Equals(t), i) = Number(Equals(s), i)
  <2>1. Len(s) \in Nat /\ Len(s) <= Len(t) /\ Len(t) \in Nat
    BY <1>1, <1>2
  <2> QED
    BY <1>2, <2>1, Agreeing
<1>6. n = Number(Equals(t), Len(t)) /\ n = Number(Equals(t), Len(s))
  <2>1. n = Number(Equals(s), Len(s))
    BY DEF Good, Counting
  <2>2. Len(t) \in Nat \ {0} /\ Len(t) - 1 = Len(s) /\ Len(s) \in 0 .. Len(s)
    BY <1>1, <1>2
  <2>3. /\ Number(Equals(t), Len(s)) \in Nat
        /\ Number(Equals(t), Len(t)) = Number(Equals(t), Len(s)) + One(Counted(f))
    BY <1>2, <2>2, AtTop
  <2>4. One(Counted(f)) = 0
    BY DEF One
  <2> QED
    BY <1>5, <2>1, <2>2, <2>3, <2>4
<1>7. ASSUME NEW i \in 1 .. Len(t), t[i].fn \in Noting
      PROVE  t[i].equals = Number(Equals(t), i - 1)
  <2>1. CASE i = Len(s) + 1
    BY <1>1, <1>2, <1>6, <1>7, <2>1
  <2>2. CASE i \in 1 .. Len(s)
    <3>1. s[i].equals = Number(Equals(s), i - 1) /\ i - 1 \in 0 .. Len(s)
      BY <1>1, <1>2, <1>7, <2>2 DEF Good, Counting
    <3> QED
      BY <1>2, <1>5, <2>2, <3>1
  <2> QED
    BY <1>3, <2>1, <2>2
<1>8. t # <<>>
  BY <1>1, <1>2, EmptyIsSequence
<1> QED
  BY <1>4, <1>6, <1>7, <1>8 DEF Good, Counting, t

\* A function that is not at a value returns: the count is what it noted.
LEMMA GoodPopped ==
  ASSUME NEW s, NEW n, Good(s, n), s # <<>>, s[Len(s)].fn \notin Roots, ~Counted(s[Len(s)])
  PROVE  /\ Good(Popped(s), n) /\ Popped(s) # <<>>
         /\ s[Len(s)].fn \in Noting => s[Len(s)].equals = n
<1> DEFINE t == Popped(s)
<1>1. IsSequence(s) /\ Len(s) \in Nat \ {0}
  BY Popping DEF Good, Shape
<1>2. /\ IsSequence(t) /\ Len(t) = Len(s) - 1
      /\ \A i \in 1 .. Len(s) - 1 : t[i] = s[i]
  BY <1>1, Popping
<1> HIDE DEF t
<1>3. Len(s) # 1
  BY <1>1 DEF Good, Shape
<1>4. ASSUME NEW i \in 1 .. Len(t)
      PROVE  i \in 1 .. Len(s) /\ t[i] = s[i] /\ (i # 1 => t[i - 1] = s[i - 1]) /\ i - 1 \in 0 .. Len(s) - 1
  BY <1>1, <1>2
<1>5. Shape(t)
  <2> SUFFICES ASSUME NEW i \in 1 .. Len(t)
               PROVE  /\ IsFrame(t[i])
                      /\ t[i].fn \in Roots <=> i = 1
                      /\ t[i].fn = "include" => t[i - 1].fn = "object" /\ t[i - 1].pc = "member"
    BY <1>2 DEF Shape
  <2>1. /\ IsFrame(s[i])
        /\ s[i].fn \in Roots <=> i = 1
        /\ s[i].fn = "include" => s[i - 1].fn = "object" /\ s[i - 1].pc = "member"
    BY <1>4 DEF Good, Shape
  <2>2. s[i].fn = "include" => i # 1
    BY <2>1 DEF Roots
  <2> QED
    BY <1>4, <2>1, <2>2
<1>6. \A i \in 0 .. Len(s) - 1 : Number(Equals(t), i) = Number(Equals(s), i)
  <2>1. Len(s) - 1 \in Nat /\ Len(s) - 1 <= Len(s) /\ Len(s) - 1 <= Len(t) /\ Len(t) \in Nat /\ Len(s) \in Nat
    BY <1>1, <1>2
  <2> QED
    BY <1>2, <2>1, Agreeing
<1>7. n = Number(Equals(s), Len(s) - 1)
  <2>1. n = Number(Equals(s), Len(s))
    BY DEF Good, Counting
  <2>2. One(Counted(s[Len(s)])) = 0
    BY DEF One
  <2> QED
    BY <1>1, <2>1, <2>2, AtTop
<1>8. n = Number(Equals(t), Len(t))
  BY <1>1, <1>2, <1>6, <1>7
<1>9. ASSUME NEW i \in 1 .. Len(t), t[i].fn \in Noting
      PROVE  t[i].equals = Number(Equals(t), i - 1)
  BY <1>4, <1>6, <1>9 DEF Good, Counting
<1>10. s[Len(s)].fn \in Noting => s[Len(s)].equals = n
  BY <1>1, <1>7 DEF Good, Counting
<1>11. t # <<>>
  BY <1>1, <1>2, <1>3, EmptyIsSequence
<1> QED
  BY <1>5, <1>8, <1>9, <1>10, <1>11 DEF Good, Counting, t
-----------------------------------------------------------------------------
(***************************************************************************)
(* What is put back behind the values of a line is a sequence.             *)
(***************************************************************************)
\* A set of some of the first n numbers that is not empty has a greatest one.
LEMMA Greatest ==
  ASSUME NEW n \in Nat, NEW I, I \subseteq 1 .. n, I # {}
  PROVE  Max(I) \in I /\ \A j \in I : Max(I) >= j
<1> DEFINE R == OpToRel(<, Nat)
           T == {n - i : i \in I}
<1>1. T \subseteq Nat /\ T # {}
  <2>1. PICK i \in I : TRUE
    OBVIOUS
  <2>2. n - i \in T
    OBVIOUS
  <2>3. ASSUME NEW j \in I
        PROVE  n - j \in Nat
    OBVIOUS
  <2> QED
    BY <2>2, <2>3
<1>2. \E x \in T : \A y \in T : ~ (<<y, x>> \in R)
  BY <1>1, NatLessThanWellFounded, WFMin
<1>3. PICK x \in T : \A y \in T : ~ (<<y, x>> \in R)
  BY <1>2
<1>4. \A y \in T : ~ (y < x)
  BY <1>1, <1>3 DEF OpToRel
<1>5. PICK i \in I : x = n - i
  BY <1>3
<1>6. \A j \in I : i >= j
  <2> SUFFICES ASSUME NEW j \in I
               PROVE  i >= j
    OBVIOUS
  <2>1. ~ (n - j < n - i)
    BY <1>4, <1>5
  <2> QED
    BY <2>1
<1> QED
  BY <1>6 DEF Max

\* The last value of a line is one of its nodes, or there is none.
LEMMA LastValueIsThere ==
  ASSUME NEW values, IsSequence(values)
  PROVE  LastValue(values) \in 0 .. Len(values)
<1> DEFINE I == {i \in 1 .. Len(values) : IsValue(values[i])}
<1>1. Len(values) \in Nat
  BY DEF IsSequence
<1>2. LastValue(values) = IF I # {} THEN Max(I) ELSE 0
  BY DEF LastValue, SelectLastInSeq
<1>3. I # {} => Max(I) \in I
  BY <1>1, Greatest
<1> QED
  BY <1>1, <1>2, <1>3

\* What is put back is a sequence, in either order.
LEMMA PutBackIsSequence ==
  ASSUME NEW values, IsSequence(values)
  PROVE  IsSequence(PutBack(values))
<1> DEFINE n == Len(values)
           m == LastValue(values)
           rest == SubSeq(values, m + 1, n)
           behind == TokensOfLayout(rest)
<1>1. n \in Nat /\ m \in 0 .. n
  BY LastValueIsThere DEF IsSequence
<1>2. n - m \in Nat
  BY <1>1
<1>3. IsSequence(rest) /\ DOMAIN rest = 1 .. n - m
  <2> DEFINE S == {values[i] : i \in 1 .. Len(values)}
  <2>1. values \in Seq(S)
    BY SequenceOverElements
  <2> HIDE DEF S, m
  <2>2. /\ rest \in Seq(S) /\ Len(rest) = n - m
    BY <1>1, <2>1
  <2>3. rest \in [1 .. Len(rest) -> S]
    BY <2>2, LenProperties
  <2> HIDE DEF rest
  <2> QED
    BY <1>2, <2>2, <2>3 DEF IsSequence
<1> HIDE DEF rest
<1>4. behind = [i \in 1 .. n - m |-> behind[i]]
  BY <1>3 DEF TokensOfLayout
<1>5. IsSequence(behind) /\ Len(behind) = n - m
  BY <1>2, <1>4, FunctionIsSequence
<1> HIDE DEF behind
<1>6. IsSequence(Reverse(behind))
  <2>1. Reverse(behind) = [i \in 1 .. n - m |-> Reverse(behind)[i]]
    BY <1>5 DEF Reverse
  <2> QED
    BY <1>2, <2>1, FunctionIsSequence
<1>7. PutBack(values) \in {behind, Reverse(behind)}
  BY DEF PutBack, behind, rest
<1> QED
  BY <1>5, <1>6, <1>7

-----------------------------------------------------------------------------
(***************************************************************************)
(* The inductive invariant: while a function goes on, the end, once it was *)
(* read, is the first of the tokens put back; the stack is good unless     *)
(* something was thrown.                                                   *)
(***************************************************************************)
EndHeld == tokens # <<>> /\ Last(tokens).w = "end" => buffer # <<>> /\ buffer[1].w = "end"

Inv ==
  /\ IsSequence(tokens) /\ IsSequence(buffer)
  /\ ctl.op \in {"run", "value", "throw", "crash"}
  /\ ctl.op \in {"run", "value"} => Good(stack, equals_count) /\ (stack # <<>> => EndHeld)
  /\ ctl.op = "run" => stack # <<>>

\* A token is taken.  If it is the end and the parser goes on, it is the first
\* of those put back.
LEMMA Taking ==
  ASSUME Inv, ctl.op = "run", NEW t \in Available, NEW back, IsSequence(back), Takes(t, back)
  PROVE  /\ IsSequence(tokens') /\ IsSequence(buffer')
         /\ (t.w = "end" => back # <<>> /\ back[1] = t) => EndHeld'
<1>1. IsSequence(tokens) /\ IsSequence(buffer) /\ EndHeld
  BY DEF Inv
<1>2. CASE buffer = <<>>
  <2>1. tokens' = Append(tokens, t) /\ buffer' = <<>> \o back
    BY <1>2 DEF Takes
  <2>2. /\ IsSequence(tokens') /\ Len(tokens') = Len(tokens) + 1 /\ tokens'[Len(tokens) + 1] = t
    BY <1>1, <2>1, Pushing
  <2>3. IsSequence(buffer') /\ \A i \in 1 .. Len(back) : buffer'[i] = back[i] /\ Len(buffer') = Len(back)
    <3>1. /\ IsSequence(<<>> \o back) /\ Len(<<>> \o back) = Len(<<>>) + Len(back)
          /\ \A i \in 1 .. Len(back) : (<<>> \o back)[Len(<<>>) + i] = back[i]
      BY EmptyIsSequence, Joining
    <3>2. Len(<<>>) = 0 /\ Len(back) \in Nat
      BY EmptyIsSequence DEF IsSequence
    <3> HIDE DEF Takes
    <3> QED
      BY <2>1, <3>1, <3>2
  <2>4. Last(tokens)' = t
    BY <2>2 DEF Last
  <2>5. ASSUME t.w = "end", back # <<>>, back[1] = t
        PROVE  buffer' # <<>> /\ buffer'[1].w = "end"
    <3>1. Len(back) \in Nat \ {0}
      BY <2>5, Popping
    <3>2. 1 \in 1 .. Len(back)
      BY <3>1
    <3>3. buffer'[1] = back[1] /\ Len(buffer') # 0
      BY <2>3, <3>1, <3>2
    <3> QED
      BY <2>5, <3>3, EmptyIsSequence
  <2> QED
    BY <2>2, <2>3, <2>4, <2>5 DEF EndHeld
<1>3. CASE buffer # <<>>
  <2>1. /\ t = buffer[Len(buffer)] /\ UNCHANGED tokens /\ buffer' = Popped(buffer) \o back
    BY <1>3 DEF Takes, Available, Last
  <2>2. /\ Len(buffer) \in Nat \ {0} /\ IsSequence(Popped(buffer)) /\ Len(Popped(buffer)) = Len(buffer) - 1
        /\ \A i \in 1 .. Len(buffer) - 1 : Popped(buffer)[i] = buffer[i]
    BY <1>1, <1>3, Popping
  <2>3. /\ IsSequence(buffer') /\ Len(buffer') = Len(buffer) - 1 + Len(back)
        /\ \A i \in 1 .. Len(buffer) - 1 : buffer'[i] = buffer[i]
        /\ \A i \in 1 .. Len(back) : buffer'[Len(buffer) - 1 + i] = back[i]
    BY <2>1, <2>2, Joining
  <2>4. Len(back) \in Nat
    BY DEF IsSequence
  <2>5. ASSUME tokens # <<>>, Last(tokens).w = "end", t.w = "end" => back # <<>> /\ back[1] = t
        PROVE  buffer' # <<>> /\ buffer'[1].w = "end"
    <3>1. buffer[1].w = "end"
      BY <1>1, <2>5 DEF EndHeld
    <3>2. CASE Len(buffer) = 1
      <4>1. t.w = "end" /\ back # <<>> /\ back[1] = t
        BY <2>1, <2>5, <3>1, <3>2
      <4>2. Len(back) \in Nat \ {0}
        BY <4>1, Popping
      <4>3. 1 \in 1 .. Len(back) /\ Len(buffer) - 1 + 1 = 1 /\ Len(buffer') # 0
        BY <2>3, <3>2, <4>2
      <4>4. buffer'[1] = t
        BY <2>3, <4>1, <4>3
      <4> QED
        BY <4>1, <4>3, <4>4, EmptyIsSequence
    <3>3. CASE Len(buffer) # 1
      <4>1. 1 \in 1 .. Len(buffer) - 1 /\ Len(buffer') # 0
        BY <2>2, <2>3, <2>4, <3>3
      <4> QED
        BY <2>3, <3>1, <4>1, EmptyIsSequence
    <3> QED
      BY <3>2, <3>3
  <2> QED
    BY <1>1, <2>1, <2>3, <2>5 DEF EndHeld
<1> QED
  BY <1>2, <1>3

-----------------------------------------------------------------------------
(***************************************************************************)
(* What the actions have in common.                                        *)
(***************************************************************************)
LEMMA TopFacts ==
  ASSUME Inv, stack # <<>>, ctl.op \in {"run", "value"}
  PROVE  /\ Len(stack) \in Nat \ {0} /\ Len(stack) \in 1 .. Len(stack)
         /\ IsSequence(stack) /\ Top = stack[Len(stack)] /\ IsFrame(Top)
         /\ Good(stack, equals_count) /\ equals_count \in Nat
<1>1. Good(stack, equals_count) /\ IsSequence(stack)
  BY DEF Inv, Good, Shape
<1>2. Len(stack) \in Nat \ {0}
  BY <1>1, Popping
<1>3. Len(stack) \in 1 .. Len(stack)
  BY <1>2
<1>4. Top = stack[Len(stack)]
  BY DEF Top, Last
<1>5. IsFrame(Top)
  BY <1>1, <1>3, <1>4 DEF Good, Shape
<1>6. equals_count \in Nat
  <2>1. \A k \in Nat : Number(Equals(stack), k) \in Nat
    BY NumberFacts
  <2> QED
    BY <1>1, <1>2, <2>1 DEF Good, Counting
<1> QED
  BY <1>1, <1>2, <1>3, <1>4, <1>5, <1>6

\* The function at the top goes on as g, which may begin or end its field with =.
LEMMA FrameChanges ==
  ASSUME Inv, stack # <<>>, ctl.op \in {"run", "value"}, NEW g, IsFrame(g), Alike(Top, g)
  PROVE  /\ Good(Retopped(stack, g), equals_count - One(Counted(Top)) + One(Counted(g)))
         /\ Retopped(stack, g) # <<>>
BY TopFacts, GoodReplaced DEF Retopped

\* The function at the top goes on as g, which counts as before.
LEMMA FrameKept ==
  ASSUME Inv, stack # <<>>, ctl.op \in {"run", "value"}, NEW g, IsFrame(g), Alike(Top, g),
         Counted(g) <=> Counted(Top)
  PROVE  Good(Retopped(stack, g), equals_count) /\ Retopped(stack, g) # <<>>
<1>1. equals_count \in Nat
  BY TopFacts
<1>2. One(Counted(Top)) = One(Counted(g)) /\ One(Counted(g)) \in Nat
  BY DEF One
<1>3. equals_count - One(Counted(Top)) + One(Counted(g)) = equals_count
  BY <1>1, <1>2
<1> QED
  BY <1>3, FrameChanges

\* The frames of the functions that are called.
LEMMA NewFrames ==
  /\ \A open : /\ IsFrame(ObjectFrame(open)) /\ ObjectFrame(open).fn = "object"
               /\ ObjectFrame(open).equals = equals_count /\ ~Counted(ObjectFrame(open))
  /\ \A t : /\ IsFrame(ArrayFrame(t)) /\ ArrayFrame(t).fn = "array"
            /\ ArrayFrame(t).equals = equals_count /\ ~Counted(ArrayFrame(t))
  /\ \A t : IsFrame(IncludeFrame(t)) /\ IncludeFrame(t).fn = "include" /\ ~Counted(IncludeFrame(t))
  /\ IsFrame(ValuesFrame) /\ ValuesFrame.fn = "values" /\ ~Counted(ValuesFrame)
  /\ \A fn \in Roots : LET f == DocumentFrame(fn, "first")
                       IN  IsFrame(f) /\ f.fn = fn /\ ~Counted(f)
<1>1. ASSUME NEW open
      PROVE  /\ IsFrame(ObjectFrame(open)) /\ ObjectFrame(open).fn = "object"
             /\ ObjectFrame(open).equals = equals_count /\ ~Counted(ObjectFrame(open))
  BY DEF ObjectFrame, IsFrame, Counted, Noting, Roots
<1>2. ASSUME NEW t
      PROVE  /\ IsFrame(ArrayFrame(t)) /\ ArrayFrame(t).fn = "array"
             /\ ArrayFrame(t).equals = equals_count /\ ~Counted(ArrayFrame(t))
  BY DEF ArrayFrame, IsFrame, Counted, Noting, Roots
<1>3. ASSUME NEW t
      PROVE  IsFrame(IncludeFrame(t)) /\ IncludeFrame(t).fn = "include" /\ ~Counted(IncludeFrame(t))
  BY DEF IncludeFrame, IsFrame, Counted, Noting, Roots
<1>4. IsFrame(ValuesFrame) /\ ValuesFrame.fn = "values" /\ ~Counted(ValuesFrame)
  BY EmptyIsSequence DEF ValuesFrame, IsFrame, Counted, Noting, Roots
<1>5. ASSUME NEW fn \in Roots
      PROVE  LET f == DocumentFrame(fn, "first") IN IsFrame(f) /\ f.fn = fn /\ ~Counted(f)
  BY DEF DocumentFrame, IsFrame, Counted, Noting, Roots
<1> QED
  BY <1>1, <1>2, <1>3, <1>4, <1>5

\* Calling consolidate_values, where it is called, keeps the stack good.
LEMMA ConsolidatingIsGood ==
  ASSUME NEW fs, NEW n, Good(fs, n), fs # <<>>
  PROVE  Good(Consolidating(fs), n) /\ Consolidating(fs) # <<>>
<1>1. Good(Append(fs, ValuesFrame), n) /\ Append(fs, ValuesFrame) # <<>>
  BY NewFrames, GoodPushed DEF Roots, Noting
<1> QED
  BY <1>1 DEF Consolidating

\* parse_value fails at the end, and calls or returns with a good stack.
LEMMA ParsingValue ==
  ASSUME NEW fs, Good(fs, equals_count), fs # <<>>, NEW t, ParseValue(fs, t)
  PROVE  /\ ctl'.op \in {"run", "value", "throw", "crash"}
         /\ ctl'.op \in {"run", "value"} => t.w # "end" /\ Good(stack', equals_count) /\ stack' # <<>>
<1>0. IsSimple(t.w) => t.w \notin {"end", "open_curly", "open_square"}
  BY NoPathAssumption DEF IsSimple, KeyWords, Strings, Unquoted, Punctuation
<1>1. CASE t.w = "open_curly"
  <2> DEFINE f == ObjectFrame(<<Leaf("token", t)>>)
  <2>1. stack' = Append(fs, f)
    <3> HIDE DEF f
    <3> QED
      BY <1>1 DEF ParseValue, f
  <2>2. ctl' = Run
    BY <1>0, <1>1 DEF ParseValue
  <2> QED
    BY <1>1, <2>1, <2>2, NewFrames, GoodPushed DEF Run, Roots, Noting
<1>2. CASE t.w = "open_square"
  <2>1. stack' = Consolidating(Append(fs, ArrayFrame(t)))
    BY <1>2 DEF ParseValue
  <2>3. ctl' = Run
    BY <1>0, <1>2 DEF ParseValue
  <2>2. Good(Append(fs, ArrayFrame(t)), equals_count) /\ Append(fs, ArrayFrame(t)) # <<>>
    BY NewFrames, GoodPushed DEF Roots, Noting
  <2> QED
    BY <1>2, <2>1, <2>2, <2>3, ConsolidatingIsGood DEF Run
<1>3. CASE t.w \notin {"open_curly", "open_square"}
  <2>1. stack' = fs /\ ctl' = IF IsSimple(t.w) THEN Returns(Leaf("simple", t)) ELSE Throws(t)
    BY <1>3 DEF ParseValue
  <2> QED
    BY <1>0, <2>1 DEF Returns, Throws
<1> QED
  BY <1>1, <1>2, <1>3

\* A token is taken and not put back: it is not the end, or it is an error.
LEMMA Consuming ==
  ASSUME Inv, ctl = Run, NEW t \in Available, Takes(t, <<>>), ctl'.op \in {"run", "value", "throw", "crash"},
         ctl'.op \in {"run", "value"} => t.w # "end" /\ Good(stack', equals_count') /\ stack' # <<>>
  PROVE  Inv'
<1>1. ctl.op = "run" /\ IsSequence(<<>>)
  BY EmptyIsSequence DEF Run
<1>2. IsSequence(tokens') /\ IsSequence(buffer') /\ (t.w # "end" => EndHeld')
  BY <1>1, Taking
<1> QED
  BY <1>2 DEF Inv

\* A token is put back, others over it.
LEMMA GivingBack ==
  ASSUME Inv, ctl = Run, NEW t \in Available, NEW others, IsSequence(others),
         Takes(t, <<t>> \o others), ctl'.op \in {"run", "value", "throw", "crash"},
         ctl'.op \in {"run", "value"} => Good(stack', equals_count') /\ stack' # <<>>
  PROVE  Inv'
<1> DEFINE back == <<t>> \o others
<1>1. IsSequence(<<t>>) /\ Len(<<t>>) = 1 /\ <<t>>[1] = t
  BY DEF IsSequence
<1>2. IsSequence(back) /\ Len(back) = 1 + Len(others) /\ back[1] = t
  <2>1. 1 \in 1 .. 1
    OBVIOUS
  <2> QED
    BY <1>1, <2>1, Joining
<1>3. Len(others) \in Nat
  BY DEF IsSequence
<1> HIDE DEF back
<1>4. back # <<>>
  BY <1>2, <1>3, EmptyIsSequence
<1>5. ctl.op = "run"
  BY DEF Run
<1>6. Takes(t, back)
  BY DEF back
<1>7. IsSequence(tokens') /\ IsSequence(buffer') /\ EndHeld'
  BY <1>2, <1>4, <1>5, <1>6, Taking
<1> QED
  BY <1>7 DEF Inv

\* A token is put back alone.
LEMMA GivingOneBack ==
  ASSUME Inv, ctl = Run, NEW t \in Available, Takes(t, <<t>>), ctl'.op \in {"run", "value", "throw", "crash"},
         ctl'.op \in {"run", "value"} => Good(stack', equals_count') /\ stack' # <<>>
  PROVE  Inv'
<1>1. IsSequence(<<t>>) /\ <<t>> # <<>> /\ <<t>>[1] = t
  BY DEF IsSequence
<1>2. ctl.op = "run"
  BY DEF Run
<1>3. IsSequence(tokens') /\ IsSequence(buffer') /\ EndHeld'
  BY <1>1, <1>2, Taking
<1> QED
  BY <1>3 DEF Inv

\* A value was returned, and no token is read.
LEMMA Returning ==
  ASSUME Inv, ctl.op = "value", stack # <<>>, UNCHANGED <<tokens, buffer>>,
         ctl'.op \in {"run", "throw", "crash"},
         ctl'.op \in {"run", "value"} => Good(stack', equals_count') /\ stack' # <<>>
  PROVE  Inv'
BY DEF Inv, EndHeld

\* An object or an array ends.
LEMMA Leaving ==
  ASSUME Inv, ctl = Run, stack # <<>>, Top.fn \in Noting, ~Counted(Top), NEW node, Leave(node)
  PROVE  ctl'.op = "value" /\ Good(stack', equals_count) /\ stack' # <<>>
<1>1. ctl.op \in {"run", "value"}
  BY DEF Run
<1>2. Good(stack, equals_count) /\ Top = stack[Len(stack)]
  BY <1>1, TopFacts
<1>3. Top.fn \notin Roots
  BY DEF Noting, Roots
<1>4. /\ Good(Popped(stack), equals_count) /\ Popped(stack) # <<>> /\ Top.equals = equals_count
  BY <1>2, <1>3, GoodPopped
<1> QED
  BY <1>4 DEF Leave, Returns

\* A node is added to the list that the function at the top is given.
LEMMA AddedTo ==
  ASSUME NEW f, IsFrame(f), NEW n
  PROVE  /\ IsFrame(AddTo(f, n)) /\ Alike(f, AddTo(f, n)) /\ AddTo(f, n).pc = f.pc
         /\ Counted(AddTo(f, n)) <=> Counted(f)
<1>1. CASE f.fn = "object" /\ f.pc \in {"after_key", "value"}
  <2> DEFINE field == Append(f.field, n)
             g == [f EXCEPT !.field = field]
  <2>1. AddTo(f, n) = g
    BY <1>1 DEF AddTo
  <2> HIDE DEF field
  <2>2. IsFrame(g) /\ Alike(f, g) /\ g.pc = f.pc /\ (Counted(g) <=> Counted(f))
    BY <1>1 DEF IsFrame, Alike, Counted, Noting, Roots
  <2> QED
    BY <2>1, <2>2
<1>2. CASE ~(f.fn = "object" /\ f.pc \in {"after_key", "value"})
  <2> DEFINE nodes == Append(f.nodes, n)
             g == [f EXCEPT !.nodes = nodes]
  <2>1. AddTo(f, n) = g
    BY <1>2 DEF AddTo
  <2>2. f.fn = "values" => IsSequence(nodes)
    BY Pushing DEF IsFrame
  <2> HIDE DEF nodes
  <2>3. IsFrame(g) /\ Alike(f, g) /\ g.pc = f.pc /\ (Counted(g) <=> Counted(f))
    BY <2>2 DEF IsFrame, Alike, Counted, Noting, Roots
  <2> QED
    BY <2>1, <2>3
<1> QED
  BY <1>1, <1>2

\* What each outcome is.
LEMMA Outcomes ==
  /\ Run.op = "run"
  /\ \A v : Returns(v).op = "value"
  /\ \A t : Throws(t).op = "throw"
  /\ NullOrigin.op = "crash"
BY DEF Run, Returns, Throws, NullOrigin

\* Where the tokens come from.
LEMMA Taken ==
  /\ \A t \in Readable : t \in Available
  /\ \A t \in Tokens : t \in Readable
  /\ \A t, back : Got(t, back) \/ GotNext(t, back) => Takes(t, back)
BY DEF Readable, Tokens, Got, GotNext

\* The function at the top goes on as g.
LEMMA GoingOn ==
  ASSUME Inv, stack # <<>>, ctl.op \in {"run", "value"}, NEW g, IsFrame(g), Alike(Top, g),
         Counted(g) <=> Counted(Top), SetTop(g)
  PROVE  ctl'.op = "run" /\ Good(stack', equals_count) /\ stack' # <<>>
BY FrameKept, Outcomes DEF SetTop

\* The function at the top goes on at pc, where it counts as before.
LEMMA Moved ==
  ASSUME NEW f, IsFrame(f), NEW pc, ~Counted(f)
  PROVE  LET g == [f EXCEPT !.pc = pc]
         IN  IsFrame(g) /\ Alike(f, g) /\ ~Counted(g) /\ g.pc = pc
BY DEF IsFrame, Alike, Counted, Noting, Roots

\* The document ends.
LEMMA DocumentEnds ==
  ASSUME Inv, stack # <<>>, ctl.op \in {"run", "value"}, Top.fn \in Roots
  PROVE  Good(<<>>, equals_count)
<1>1. /\ Len(stack) \in Nat \ {0} /\ Len(stack) \in 1 .. Len(stack) /\ Top = stack[Len(stack)]
      /\ Good(stack, equals_count) /\ IsFrame(Top)
  BY TopFacts
<1>2. Len(stack) = 1
  BY <1>1 DEF Good, Shape
<1>3. One(Counted(Top)) = 0
  BY DEF One, Counted, Roots
<1>4. Number(Equals(stack), 1) = Number(Equals(stack), 0) + One(Counted(Top))
  <2>1. Number(Equals(stack), Len(stack)) = Number(Equals(stack), Len(stack) - 1) + One(Counted(Top))
    BY <1>1, AtTop
  <2>2. Len(stack) - 1 = 0
    BY <1>2
  <2> QED
    BY <1>2, <2>1, <2>2
<1>5. Number(Equals(stack), 0) = 0 /\ Number(Equals(<<>>), 0) = 0 /\ 0 \in Nat
  BY NumberFacts
<1>6. equals_count = 0
  BY <1>1, <1>2, <1>3, <1>4, <1>5 DEF Good, Counting
<1>7. Len(<<>>) = 0 /\ IsSequence(<<>>) /\ 1 .. 0 = {}
  BY EmptyIsSequence
<1> QED
  BY <1>5, <1>6, <1>7 DEF Good, Shape, Counting

-----------------------------------------------------------------------------
(***************************************************************************)
(* The steps, in the order of the module.                                  *)
(***************************************************************************)
LEMMA Collects ==
  ASSUME Inv, Collect
  PROVE  Inv'
<1>1. ctl = Run /\ stack # <<>> /\ ctl.op = "run"
  BY Outcomes DEF Collect, Collecting
<1>2. PICK t \in Readable :
        t.w \in Layout /\ Takes(t, <<>>) /\ stack' = Collected(Layer(t))
  BY DEF Collect
<1>3. t \in Available /\ t.w # "end"
  BY <1>2, Taken DEF Layout
<1>4. /\ Len(stack) \in Nat \ {0} /\ Len(stack) \in 1 .. Len(stack)
      /\ Top = stack[Len(stack)] /\ IsFrame(Top) /\ Good(stack, equals_count) /\ equals_count \in Nat
  BY <1>1, TopFacts
<1> DEFINE i == IF Top.fn = "values" THEN Len(stack) - 1 ELSE Len(stack)
           n == Layer(t)
<1>5. i \in 1 .. Len(stack)
  <2>1. Top.fn = "values" => Len(stack) # 1
    BY <1>4 DEF Good, Shape, Roots
  <2>2. \A k \in Nat \ {0} : k # 1 => k - 1 \in 1 .. k
    OBVIOUS
  <2>3. Top.fn = "values" => Len(stack) - 1 \in 1 .. Len(stack)
    BY <1>4, <2>1, <2>2
  <2> QED
    BY <1>4, <2>3
<1>6. IsFrame(stack[i])
  BY <1>4, <1>5 DEF Good, Shape
<1>7. stack' = [stack EXCEPT ![i] = AddTo(stack[i], n)]
  BY <1>2 DEF Collected
<1> HIDE DEF i, n
<1>8. /\ IsFrame(AddTo(stack[i], n)) /\ Alike(stack[i], AddTo(stack[i], n))
      /\ AddTo(stack[i], n).pc = stack[i].pc
      /\ Counted(AddTo(stack[i], n)) <=> Counted(stack[i])
  BY <1>6, AddedTo
<1>9. /\ Good(stack', equals_count - One(Counted(stack[i])) + One(Counted(AddTo(stack[i], n))))
      /\ stack' # <<>>
  BY <1>4, <1>5, <1>7, <1>8, GoodReplaced
<1>10. equals_count - One(Counted(stack[i])) + One(Counted(AddTo(stack[i], n))) = equals_count
  <2>1. One(Counted(stack[i])) = One(Counted(AddTo(stack[i], n))) /\ One(Counted(stack[i])) \in Int
    BY <1>8 DEF One
  <2> QED
    BY <1>4, <2>1
<1>11. UNCHANGED <<ctl, equals_count>>
  BY DEF Collect
<1> QED
  BY <1>1, <1>2, <1>3, <1>9, <1>10, <1>11, Consuming

LEMMA NotInJson ==
  ASSUME Inv, NotJson
  PROVE  Inv'
<1>1. PICK t \in Available : Got(t, <<>>) /\ ctl' = Throws(t)
  BY DEF NotJson
<1> QED
  BY <1>1, Taken, Outcomes, Consuming DEF NotJson

LEMMA Rooted ==
  ASSUME Inv, Root
  PROVE  Inv'
<1>1. ctl = Run /\ stack # <<>> /\ ctl.op = "run" /\ Top.fn = "parse" /\ UNCHANGED equals_count
  BY Outcomes DEF Root, At
<1> DEFINE g == [Top EXCEPT !.pc = "root"]
<1>2. PICK t \in Tokens :
        IF t.w \in {"open_curly", "open_square"} THEN GotNext(t, <<>>) /\ ParseValue(Retopped(stack, g), t)
        ELSE IF flavor = "JSON" THEN GotNext(t, <<>>) /\ Fail(t)
        ELSE GotNext(t, <<t>>) /\ stack' = Append(Retopped(stack, g), ObjectFrame(<<>>)) /\ UNCHANGED ctl
  BY DEF Root
<1>3. Good(Retopped(stack, g), equals_count) /\ Retopped(stack, g) # <<>>
  <2>1. IsFrame(Top) /\ ~Counted(Top)
    BY <1>1, TopFacts DEF Counted
  <2>2. IsFrame(g) /\ Alike(Top, g) /\ ~Counted(g)
    BY <2>1, Moved
  <2> HIDE DEF g
  <2> QED
    BY <1>1, <2>1, <2>2, FrameKept
<1> HIDE DEF g
<1>4. t \in Available
  BY Taken
<1>5. CASE t.w \in {"open_curly", "open_square"}
  <2>1. Takes(t, <<>>) /\ ParseValue(Retopped(stack, g), t)
    BY <1>2, <1>5, Taken
  <2>2. /\ ctl'.op \in {"run", "value", "throw", "crash"}
        /\ ctl'.op \in {"run", "value"} => t.w # "end" /\ Good(stack', equals_count) /\ stack' # <<>>
    BY <1>3, <2>1, ParsingValue
  <2> QED
    BY <1>1, <1>4, <2>1, <2>2, Consuming
<1>6. CASE t.w \notin {"open_curly", "open_square"} /\ flavor = "JSON"
  <2>1. Takes(t, <<>>) /\ ctl'.op = "throw"
    BY <1>2, <1>6, Taken, Outcomes DEF Fail
  <2> QED
    BY <1>1, <1>4, <2>1, Consuming
<1>7. CASE t.w \notin {"open_curly", "open_square"} /\ flavor # "JSON"
  <2>1. Takes(t, <<t>>) /\ stack' = Append(Retopped(stack, g), ObjectFrame(<<>>)) /\ ctl'.op = "run"
    BY <1>1, <1>2, <1>7, Taken
  <2>2. Good(stack', equals_count) /\ stack' # <<>>
    BY <1>3, <2>1, NewFrames, GoodPushed DEF Noting, Roots
  <2> QED
    BY <1>1, <1>4, <2>1, <2>2, GivingOneBack
<1> QED
  BY <1>5, <1>6, <1>7

LEMMA RootIsParsed ==
  ASSUME Inv, stack # <<>>, RootParsed
  PROVE  Inv'
<1> DEFINE nodes == Top.nodes \o IF ctl.v.k = "root" THEN ctl.v.kids ELSE <<ctl.v>>
           g == [Top EXCEPT !.pc = "trailing", !.nodes = nodes]
<1>1. Top.fn = "parse" /\ ctl.op = "value" /\ UNCHANGED <<tokens, buffer, equals_count>>
  BY DEF RootParsed
<1>2. SetTop(g)
  BY DEF RootParsed
<1> HIDE DEF nodes
<1>3. IsFrame(g) /\ Alike(Top, g) /\ ~Counted(g) /\ ~Counted(Top)
  <2>1. IsFrame(Top)
    BY <1>1, TopFacts
  <2> QED
    BY <1>1, <2>1 DEF IsFrame, Alike, Counted, Noting, Roots
<1> HIDE DEF g
<1>4. ctl'.op = "run" /\ Good(stack', equals_count) /\ stack' # <<>>
  BY <1>1, <1>2, <1>3, GoingOn
<1> QED
  BY <1>1, <1>4, Returning

LEMMA Trails ==
  ASSUME Inv, Trailing \/ SingleEnds
  PROVE  Inv'
<1>1. ctl = Run /\ stack # <<>> /\ ctl.op = "run" /\ Top.fn \in Roots /\ UNCHANGED equals_count
  BY Outcomes DEF Trailing, SingleEnds, At, Roots
<1>2. PICK t \in Available : Takes(t, <<>>) /\ (ctl'.op = "throw" \/ (ctl'.op = "value" /\ stack' = <<>>))
  BY Taken, Outcomes DEF Trailing, SingleEnds, Fail
<1>3. IsSequence(tokens') /\ IsSequence(buffer')
  BY <1>1, <1>2, EmptyIsSequence, Taking
<1>4. Good(<<>>, equals_count)
  BY <1>1, DocumentEnds
<1> QED
  BY <1>1, <1>2, <1>3, <1>4 DEF Inv

LEMMA SingleStarts ==
  ASSUME Inv, Single
  PROVE  Inv'
<1>1. ctl = Run /\ stack # <<>> /\ ctl.op = "run" /\ Top.fn = "parse_single_value" /\ UNCHANGED equals_count
  BY Outcomes DEF Single, At
<1> DEFINE g == [Top EXCEPT !.pc = "last"]
<1>2. PICK t \in Readable :
        IF t.w \in Layout \cup {"end"} THEN Got(t, <<>>) /\ Fail(t)
        ELSE IF flavor = "JSON" THEN Got(t, <<>>) /\ ParseValue(Retopped(stack, g), t)
        ELSE Got(t, <<t>>) /\ stack' = Consolidating(Retopped(stack, g)) /\ UNCHANGED ctl
  BY DEF Single
<1>3. Good(Retopped(stack, g), equals_count) /\ Retopped(stack, g) # <<>>
  <2>1. IsFrame(Top) /\ ~Counted(Top)
    BY <1>1, TopFacts DEF Counted
  <2>2. IsFrame(g) /\ Alike(Top, g) /\ ~Counted(g)
    BY <2>1, Moved
  <2> HIDE DEF g
  <2> QED
    BY <1>1, <2>1, <2>2, FrameKept
<1> HIDE DEF g
<1>4. t \in Available
  BY Taken
<1>5. CASE t.w \in Layout \cup {"end"}
  <2>1. Takes(t, <<>>) /\ ctl'.op = "throw"
    BY <1>2, <1>5, Taken, Outcomes DEF Fail
  <2> QED
    BY <1>1, <1>4, <2>1, Consuming
<1>6. CASE t.w \notin Layout \cup {"end"} /\ flavor = "JSON"
  <2>1. Takes(t, <<>>) /\ ParseValue(Retopped(stack, g), t)
    BY <1>2, <1>6, Taken
  <2>2. /\ ctl'.op \in {"run", "value", "throw", "crash"}
        /\ ctl'.op \in {"run", "value"} => t.w # "end" /\ Good(stack', equals_count) /\ stack' # <<>>
    BY <1>3, <2>1, ParsingValue
  <2> QED
    BY <1>1, <1>4, <2>1, <2>2, Consuming
<1>7. CASE t.w \notin Layout \cup {"end"} /\ flavor # "JSON"
  <2>1. Takes(t, <<t>>) /\ stack' = Consolidating(Retopped(stack, g)) /\ ctl'.op = "run"
    BY <1>1, <1>2, <1>7, Taken
  <2>2. Good(stack', equals_count) /\ stack' # <<>>
    BY <1>3, <2>1, ConsolidatingIsGood
  <2> QED
    BY <1>1, <1>4, <2>1, <2>2, GivingOneBack
<1> QED
  BY <1>5, <1>6, <1>7

\* A value is added to the nodes of the function at the top.
LEMMA ValueIsAdded ==
  ASSUME Inv, stack # <<>>, SingleParsed \/ ValueParsed
  PROVE  Inv'
<1>1. ctl.op = "value" /\ SetTop(AddTo(Top, ctl.v)) /\ UNCHANGED <<tokens, buffer, equals_count>>
  BY DEF SingleParsed, ValueParsed
<1>2. IsFrame(Top)
  BY <1>1, TopFacts
<1>3. /\ IsFrame(AddTo(Top, ctl.v)) /\ Alike(Top, AddTo(Top, ctl.v))
      /\ Counted(AddTo(Top, ctl.v)) <=> Counted(Top)
  BY <1>2, AddedTo
<1>4. ctl'.op = "run" /\ Good(stack', equals_count) /\ stack' # <<>>
  BY <1>1, <1>3, GoingOn
<1> QED
  BY <1>1, <1>4, Returning

\* A token is taken and an error thrown, or the function at the top goes on.
LEMMA TakenAndGoingOn ==
  ASSUME Inv, ctl = Run, stack # <<>>, NEW t \in Available, Takes(t, <<>>), UNCHANGED equals_count,
         \/ ctl'.op = "throw"
         \/ /\ t.w # "end"
            /\ \E g : /\ IsFrame(g) /\ Alike(Top, g) /\ (Counted(g) <=> Counted(Top))
                      /\ SetTop(g)
  PROVE  Inv'
<1>1. ctl.op \in {"run", "value"}
  BY Outcomes
<1>2. CASE ctl'.op = "throw"
  BY <1>2, Consuming
<1>3. CASE ctl'.op # "throw"
  <2>1. /\ t.w # "end"
        /\ \E g : /\ IsFrame(g) /\ Alike(Top, g) /\ (Counted(g) <=> Counted(Top))
                  /\ SetTop(g)
    BY <1>3
  <2>2. ctl'.op = "run" /\ Good(stack', equals_count) /\ stack' # <<>>
    BY <1>1, <2>1, GoingOn
  <2> QED
    BY <2>1, <2>2, Consuming
<1> QED
  BY <1>2, <1>3

LEMMA Members ==
  ASSUME Inv, Member
  PROVE  Inv'
<1>1. /\ ctl = Run /\ stack # <<>> /\ ctl.op = "run" /\ UNCHANGED equals_count
      /\ Top.fn = "object" /\ Top.pc = "member"
  BY Outcomes DEF Member, At
<1>2. IsFrame(Top) /\ Top = stack[Len(stack)] /\ Good(stack, equals_count)
  BY <1>1, TopFacts
<1>3. ~Counted(Top)
  BY <1>1, <1>2 DEF IsFrame
<1>4. PICK t \in Tokens :
        CASE t.w = "close_curly" ->
               /\ GotNext(t, <<>>)
               /\ IF (flavor = "JSON" /\ Top.after_comma) \/ ~HasBraces(Top) THEN Fail(t)
                  ELSE Leave(Node("object", Append(Top.nodes, Leaf("token", t))))
          [] t.w = "end" /\ ~HasBraces(Top) ->
               GotNext(t, <<t>>) /\ Leave(Node("root", Top.nodes))
          [] t.w = "include" /\ flavor # "JSON" ->
               GotNext(t, <<>>) /\ stack' = Append(stack, IncludeFrame(t)) /\ UNCHANGED ctl
          [] OTHER ->
               /\ GotNext(t, <<>>)
               /\ IF flavor = "JSON"
                  THEN IF t.w \in Strings
                       THEN SetTop([Top EXCEPT !.pc = "after_key", !.key = <<t.w>>,
                                               !.field = <<Node("path", <<Leaf("token", t)>>)>>])
                       ELSE Fail(t)
                  ELSE IF t.w \in KeyWords THEN SetTop([Top EXCEPT !.pc = "key", !.key = <<t>>]) ELSE Fail(t)
  BY DEF Member
<1>5. t \in Available
  BY Taken
<1>6. CASE t.w = "close_curly"
  <2> DEFINE node == Node("object", Append(Top.nodes, Leaf("token", t)))
  <2>1. Takes(t, <<>>) /\ (Fail(t) \/ Leave(node))
    BY <1>4, <1>6, Taken
  <2> HIDE DEF node
  <2>2. /\ ctl'.op \in {"value", "throw"}
        /\ ctl'.op \in {"run", "value"} => Good(stack', equals_count) /\ stack' # <<>>
    BY <1>1, <1>3, <2>1, Leaving, Outcomes DEF Fail, Noting
  <2> QED
    BY <1>1, <1>5, <1>6, <2>1, <2>2, Consuming
<1>7. CASE t.w = "end" /\ ~HasBraces(Top)
  <2>1. Takes(t, <<t>>) /\ Leave(Node("root", Top.nodes))
    BY <1>4, <1>7, Taken
  <2>2. ctl'.op = "value" /\ Good(stack', equals_count) /\ stack' # <<>>
    BY <1>1, <1>3, <2>1, Leaving DEF Noting
  <2> QED
    BY <1>1, <1>5, <2>1, <2>2, GivingOneBack
<1>8. CASE t.w = "include" /\ flavor # "JSON"
  <2>1. Takes(t, <<>>) /\ stack' = Append(stack, IncludeFrame(t)) /\ UNCHANGED ctl
    BY <1>4, <1>8, Taken
  <2>2. Good(stack', equals_count) /\ stack' # <<>>
    BY <1>1, <1>2, <2>1, NewFrames, GoodPushed DEF Roots, Noting
  <2> QED
    BY <1>1, <1>5, <1>8, <2>1, <2>2, Consuming
<1>9. CASE /\ t.w # "close_curly" /\ ~(t.w = "end" /\ ~HasBraces(Top))
           /\ ~(t.w = "include" /\ flavor # "JSON")
  <2> DEFINE field == <<Node("path", <<Leaf("token", t)>>)>>
             g == [Top EXCEPT !.pc = "after_key", !.key = <<t.w>>, !.field = field]
             h == [Top EXCEPT !.pc = "key", !.key = <<t>>]
  <2>1. /\ Takes(t, <<>>)
        /\ Fail(t) \/ (t.w \in Strings /\ SetTop(g)) \/ (t.w \in KeyWords /\ SetTop(h))
    BY <1>4, <1>9, Taken
  <2>2. t.w \in Strings \/ t.w \in KeyWords => t.w # "end"
    BY NoPathAssumption DEF KeyWords, Strings, Unquoted
  <2> HIDE DEF field
  <2>3. IsFrame(g) /\ Alike(Top, g) /\ ~Counted(g)
    BY <1>1, <1>2, <1>3 DEF IsFrame, Alike, Counted, Noting, Roots
  <2>4. IsFrame(h) /\ Alike(Top, h) /\ ~Counted(h)
    BY <1>1, <1>2, <1>3 DEF IsFrame, Alike, Counted, Noting, Roots
  <2> HIDE DEF g, h
  <2>5. Fail(t) => ctl'.op = "throw"
    BY Outcomes DEF Fail
  <2> QED
    BY <1>1, <1>3, <1>5, <2>1, <2>2, <2>3, <2>4, <2>5, TakenAndGoingOn
<1> QED
  BY <1>6, <1>7, <1>8, <1>9

LEMMA Keys ==
  ASSUME Inv, Key
  PROVE  Inv'
<1>1. /\ ctl = Run /\ stack # <<>> /\ ctl.op = "run" /\ UNCHANGED equals_count
      /\ Top.fn = "object" /\ Top.pc = "key"
  BY Outcomes DEF Key, At
<1>2. IsFrame(Top)
  BY <1>1, TopFacts
<1>3. ~Counted(Top)
  BY <1>1, <1>2 DEF IsFrame
<1> DEFINE field == <<Node("path", [i \in DOMAIN Top.key |-> Leaf("token", Top.key[i])])>>
           after == [Top EXCEPT !.pc = "after_key", !.field = field]
<1>4. PICK t \in Readable :
        IF t.w \in KeyWords THEN Got(t, <<>>) /\ SetTop([Top EXCEPT !.key = Append(@, t)])
        ELSE Got(t, <<t>>) /\ (ctl' = NullOrigin \/ SetTop(after))
  BY DEF Key, AfterKey
<1>5. t \in Available
  BY Taken
<1>6. CASE t.w \in KeyWords
  <2> DEFINE key == Append(Top.key, t)
             g == [Top EXCEPT !.key = key]
  <2>1. Takes(t, <<>>) /\ SetTop(g)
    BY <1>4, <1>6, Taken
  <2>2. t.w # "end"
    BY <1>6, NoPathAssumption DEF KeyWords, Strings, Unquoted
  <2> HIDE DEF key
  <2>3. IsFrame(g) /\ Alike(Top, g) /\ ~Counted(g)
    BY <1>1, <1>2, <1>3 DEF IsFrame, Alike, Counted, Noting, Roots
  <2> HIDE DEF g
  <2> QED
    BY <1>1, <1>3, <1>5, <2>1, <2>2, <2>3, TakenAndGoingOn
<1>7. CASE t.w \notin KeyWords
  <2>1. Takes(t, <<t>>) /\ (ctl' = NullOrigin \/ SetTop(after))
    BY <1>4, <1>7, Taken
  <2> HIDE DEF field
  <2>2. IsFrame(after) /\ Alike(Top, after) /\ ~Counted(after)
    BY <1>1, <1>2, <1>3 DEF IsFrame, Alike, Counted, Noting, Roots
  <2> HIDE DEF after
  <2>3. SetTop(after) => ctl'.op = "run" /\ Good(stack', equals_count) /\ stack' # <<>>
    BY <1>1, <1>3, <2>2, GoingOn
  <2>4. ctl' = NullOrigin => ctl'.op = "crash"
    BY Outcomes
  <2> QED
    BY <1>1, <1>5, <2>1, <2>3, <2>4, GivingOneBack
<1> QED
  BY <1>6, <1>7

\* A token is taken and parse_value called: the stack it is called with is good.
LEMMA CallsParseValue ==
  ASSUME Inv, ctl = Run, NEW t \in Available, Takes(t, <<>>), UNCHANGED equals_count,
         NEW fs, Good(fs, equals_count), fs # <<>>, ParseValue(fs, t)
  PROVE  Inv'
<1>1. /\ ctl'.op \in {"run", "value", "throw", "crash"}
      /\ ctl'.op \in {"run", "value"} => t.w # "end" /\ Good(stack', equals_count) /\ stack' # <<>>
  BY ParsingValue
<1> QED
  BY <1>1, Consuming

LEMMA Separates ==
  ASSUME Inv, Separator
  PROVE  Inv'
<1>1. /\ ctl = Run /\ stack # <<>> /\ ctl.op = "run" /\ Top.fn = "object" /\ Top.pc = "after_key"
  BY Outcomes DEF Separator, At
<1>2. IsFrame(Top) /\ equals_count \in Nat
  BY <1>1, TopFacts
<1>3. ~Counted(Top) /\ ~Top.inside_equals
  BY <1>1, <1>2 DEF IsFrame, Counted
<1> DEFINE waiting == [Top EXCEPT !.pc = "value"]
<1>4. PICK t \in Tokens :
        /\ GotNext(t, <<>>)
        /\ IF flavor = "CONF" /\ t.w = "open_curly"
           THEN ParseValue(Retopped(stack, waiting), t) /\ UNCHANGED equals_count
           ELSE IF ~IsSeparator(t) THEN Fail(t) /\ UNCHANGED equals_count
           ELSE /\ stack' = Consolidating(Retopped(stack,
                     [waiting EXCEPT !.field = Append(@, Leaf("token", t)), !.inside_equals = t.w = "equals"]))
                /\ UNCHANGED ctl
                /\ equals_count' = IF t.w = "equals" THEN equals_count + 1 ELSE equals_count
  BY DEF Separator
<1>5. t \in Available /\ Takes(t, <<>>)
  BY <1>4, Taken
<1>6. CASE flavor = "CONF" /\ t.w = "open_curly"
  <2>1. ParseValue(Retopped(stack, waiting), t) /\ UNCHANGED equals_count
    BY <1>4, <1>6
  <2>2. IsFrame(waiting) /\ Alike(Top, waiting) /\ ~Counted(waiting)
    BY <1>2, <1>3, Moved
  <2> HIDE DEF waiting
  <2>3. Good(Retopped(stack, waiting), equals_count) /\ Retopped(stack, waiting) # <<>>
    BY <1>1, <1>3, <2>2, FrameKept
  <2> QED
    BY <1>1, <1>5, <2>1, <2>3, CallsParseValue
<1>7. CASE ~(flavor = "CONF" /\ t.w = "open_curly") /\ ~IsSeparator(t)
  <2>1. ctl'.op = "throw"
    BY <1>4, <1>7, Outcomes DEF Fail
  <2> QED
    BY <1>1, <1>5, <2>1, Consuming
<1>8. CASE ~(flavor = "CONF" /\ t.w = "open_curly") /\ IsSeparator(t)
  <2> DEFINE field == Append(waiting.field, Leaf("token", t))
             equal == t.w = "equals"
             g == [waiting EXCEPT !.field = field, !.inside_equals = equal]
  <2>1. /\ stack' = Consolidating(Retopped(stack, g)) /\ UNCHANGED ctl
        /\ equals_count' = IF t.w = "equals" THEN equals_count + 1 ELSE equals_count
    BY <1>4, <1>8
  <2>2. t.w # "end"
    BY <1>8 DEF IsSeparator, Separators
  <2> HIDE DEF field
  <2>3. DOMAIN Top = {"fn", "pc", "nodes", "field", "key", "keys", "after_comma",
                      "inside_equals", "newline", "equals"}
    BY <1>1, <1>2 DEF IsFrame
  <2>4. /\ DOMAIN g = DOMAIN Top /\ g.fn = "object" /\ g.pc = "value" /\ g.equals = Top.equals
        /\ g.inside_equals = equal
    BY <1>1, <2>3
  <2> HIDE DEF g
  <2>5. IsFrame(g) /\ Alike(Top, g)
    BY <1>1, <2>3, <2>4 DEF IsFrame, Alike, Counted, Noting, Roots
  <2>6. Counted(g) <=> t.w = "equals"
    BY <2>4 DEF Counted
  <2>7. equals_count' = equals_count - One(Counted(Top)) + One(Counted(g))
    <3>1. One(Counted(Top)) = 0 /\ One(Counted(g)) = IF t.w = "equals" THEN 1 ELSE 0
      BY <1>3, <2>6 DEF One
    <3> QED
      BY <1>2, <2>1, <3>1
  <2>8. Good(Retopped(stack, g), equals_count') /\ Retopped(stack, g) # <<>>
    BY <1>1, <2>5, <2>7, FrameChanges
  <2>9. Good(stack', equals_count') /\ stack' # <<>>
    BY <2>1, <2>8, ConsolidatingIsGood
  <2> QED
    BY <1>1, <1>5, <2>1, <2>2, <2>9, Consuming
<1> QED
  BY <1>6, <1>7, <1>8

LEMMA FieldValues ==
  ASSUME Inv, FieldValue
  PROVE  Inv'
<1>1. /\ ctl = Run /\ stack # <<>> /\ ctl.op = "run" /\ UNCHANGED equals_count
  BY Outcomes DEF FieldValue, At
<1>2. PICK t \in Tokens : GotNext(t, <<>>) /\ ParseValue(stack, t)
  BY DEF FieldValue
<1>3. t \in Available /\ Takes(t, <<>>)
  BY <1>2, Taken
<1>4. Good(stack, equals_count)
  BY <1>1, TopFacts
<1> QED
  BY <1>1, <1>2, <1>3, <1>4, CallsParseValue

\* The field is no longer in progress, and no longer counted.
LEMMA FieldIsParsed ==
  ASSUME Inv, stack # <<>>, FieldParsed
  PROVE  Inv'
<1> DEFINE keys  == IF flavor = "JSON" THEN Top.keys \cup {Top.key[1]} ELSE Top.keys
           nodes == Append(Top.nodes, Node("field", Append(Top.field, ctl.v)))
           g == [Top EXCEPT !.pc = "separator", !.field = <<>>, !.key = <<>>, !.after_comma = FALSE,
                            !.newline = FALSE, !.inside_equals = FALSE, !.keys = keys, !.nodes = nodes]
<1>1. Top.fn = "object" /\ ctl.op = "value" /\ UNCHANGED <<tokens, buffer>>
  BY DEF FieldParsed
<1>2. IsFrame(Top) /\ equals_count \in Nat
  BY <1>1, TopFacts
<1>3. equals_count' = AfterEquals(Top)
  BY DEF FieldParsed
<1>4. ctl'.op = "throw" \/ SetTop(g)
  BY Outcomes DEF FieldParsed, Fail
<1> HIDE DEF keys, nodes
<1>5. DOMAIN Top = {"fn", "pc", "nodes", "field", "key", "keys", "after_comma",
                    "inside_equals", "newline", "equals"}
  BY <1>1, <1>2 DEF IsFrame
<1>6. /\ DOMAIN g = DOMAIN Top /\ g.fn = "object" /\ g.pc = "separator" /\ g.equals = Top.equals
      /\ g.inside_equals = FALSE
  BY <1>1, <1>5
<1> HIDE DEF g
<1>7. IsFrame(g) /\ Alike(Top, g) /\ ~Counted(g)
  BY <1>1, <1>5, <1>6 DEF IsFrame, Alike, Counted, Noting, Roots
<1>8. equals_count' = equals_count - One(Counted(Top)) + One(Counted(g))
  <2>1. One(Counted(g)) = 0 /\ One(Counted(Top)) = IF Top.inside_equals THEN 1 ELSE 0
    BY <1>1, <1>7 DEF One, Counted
  <2> QED
    BY <1>2, <1>3, <2>1 DEF AfterEquals
<1>9. SetTop(g) => ctl'.op = "run" /\ Good(stack', equals_count') /\ stack' # <<>>
  BY <1>1, <1>7, <1>8, FrameChanges, Outcomes DEF SetTop
<1>10. ctl'.op \in {"run", "throw"} /\ (ctl'.op \in {"run", "value"} => Good(stack', equals_count') /\ stack' # <<>>)
  BY <1>4, <1>9
<1> QED
  BY <1>1, <1>10, Returning

\* The closing brace or bracket, or the end of a document without braces.
LEMMA Closes ==
  ASSUME Inv, CloseObject \/ CloseArray
  PROVE  Inv'
<1>1. /\ ctl = Run /\ stack # <<>> /\ ctl.op = "run" /\ UNCHANGED equals_count
      /\ Top.fn \in Noting /\ Top.pc = "close"
  BY Outcomes DEF CloseObject, CloseArray, At, Noting
<1>2. ~Counted(Top)
  BY <1>1, TopFacts DEF IsFrame
<1>3. PICK t \in Tokens :
        \/ GotNext(t, <<>>) /\ Fail(t)
        \/ GotNext(t, <<>>) /\ t.w # "end" /\ \E node : Leave(node)
        \/ GotNext(t, <<t>>) /\ \E node : Leave(node)
  BY DEF CloseObject, CloseArray
<1>4. t \in Available
  BY Taken
<1>5. (\E node : Leave(node)) => ctl'.op = "value" /\ Good(stack', equals_count) /\ stack' # <<>>
  BY <1>1, <1>2, Leaving
<1>6. Fail(t) => ctl'.op = "throw"
  BY Outcomes DEF Fail
<1>7. CASE GotNext(t, <<>>) /\ (Fail(t) \/ (t.w # "end" /\ \E node : Leave(node)))
  <2>1. Takes(t, <<>>)
    BY <1>7, Taken
  <2>2. /\ ctl'.op \in {"value", "throw"}
        /\ ctl'.op \in {"run", "value"} => t.w # "end" /\ Good(stack', equals_count) /\ stack' # <<>>
    BY <1>5, <1>6, <1>7
  <2> QED
    BY <1>1, <1>4, <2>1, <2>2, Consuming
<1>8. CASE GotNext(t, <<t>>) /\ \E node : Leave(node)
  <2>1. Takes(t, <<t>>)
    BY <1>8, Taken
  <2> QED
    BY <1>1, <1>4, <1>5, <1>8, <2>1, GivingOneBack
<1> QED
  BY <1>3, <1>7, <1>8

\* parse_include returns, to the object that called it.
LEMMA Includes ==
  ASSUME Inv, Include
  PROVE  Inv'
<1>1. /\ ctl = Run /\ stack # <<>> /\ ctl.op = "run" /\ Top.fn = "include" /\ UNCHANGED equals_count
  BY Outcomes DEF Include, At
<1>2. /\ Len(stack) \in Nat \ {0} /\ Len(stack) \in 1 .. Len(stack) /\ Top = stack[Len(stack)]
      /\ IsFrame(Top) /\ Good(stack, equals_count) /\ equals_count \in Nat /\ IsSequence(stack)
  BY <1>1, TopFacts
<1>3. ~Counted(Top)
  BY <1>1 DEF Counted
<1>4. PICK t \in Tokens :
        /\ GotNext(t, <<>>)
        /\ \/ \E f : stack' = Included(f) /\ UNCHANGED ctl /\ t.w # "end"
           \/ \E pc, nodes : SetTop([Top EXCEPT !.pc = pc, !.nodes = nodes]) /\ t.w # "end"
           \/ Fail(t)
  <2>1. PICK t \in Tokens :
          /\ GotNext(t, <<>>)
          /\ CASE Top.pc = "what" /\ t.w \in Strings ->
                    stack' = Included(Node("include", Append(Top.nodes, Leaf("simple", t)))) /\ UNCHANGED ctl
               [] Top.pc = "what" /\ t.w = "file_open" ->
                    SetTop([Top EXCEPT !.pc = "name", !.nodes = Append(@, Leaf("token", t))])
               [] Top.pc = "name" /\ t.w \in Strings ->
                    SetTop([Top EXCEPT !.pc = "close", !.nodes = Append(@, Leaf("simple", t))])
               [] Top.pc = "close" /\ t.w = "close_paren" ->
                    stack' = Included(Node("include", Top.nodes)) /\ UNCHANGED ctl
               [] OTHER -> Fail(t)
    BY DEF Include
  <2>2. t.w \in Strings => t.w \notin {"end", "file_open", "close_paren"}
    BY DEF Strings
  <2>3. CASE Top.pc = "what" /\ t.w \in Strings
    BY <2>1, <2>2, <2>3
  <2>4. CASE Top.pc = "what" /\ t.w = "file_open"
    BY <2>1, <2>2, <2>4
  <2>5. CASE Top.pc = "name" /\ t.w \in Strings
    BY <2>1, <2>2, <2>5
  <2>6. CASE Top.pc = "close" /\ t.w = "close_paren"
    BY <2>1, <2>6
  <2>7. CASE /\ ~(Top.pc = "what" /\ t.w \in Strings) /\ ~(Top.pc = "what" /\ t.w = "file_open")
             /\ ~(Top.pc = "name" /\ t.w \in Strings) /\ ~(Top.pc = "close" /\ t.w = "close_paren")
    BY <2>1, <2>7
  <2> QED
    BY <2>3, <2>4, <2>5, <2>6, <2>7
<1>5. t \in Available /\ Takes(t, <<>>)
  BY <1>4, Taken
<1>6. ASSUME NEW f, stack' = Included(f), UNCHANGED ctl, t.w # "end"
      PROVE  Inv'
  <2> DEFINE below == stack[Len(stack) - 1]
             nodes == Append(below.nodes, f)
             g == [below EXCEPT !.nodes = nodes, !.pc = "separator", !.newline = FALSE, !.after_comma = FALSE]
             k == Len(Popped(stack))
  <2>1. Good(Popped(stack), equals_count) /\ Popped(stack) # <<>>
    BY <1>1, <1>2, <1>3, GoodPopped DEF Roots
  <2>2. k = Len(stack) - 1 /\ Popped(stack)[k] = below /\ k \in 1 .. k
    <3>1. k \in Nat \ {0}
      BY <2>1, Popping DEF Good, Shape
    <3>2. k = Len(stack) - 1 /\ \A i \in 1 .. Len(stack) - 1 : Popped(stack)[i] = stack[i]
      BY <1>1, <1>2, Popping
    <3>3. k \in 1 .. k
      BY <3>1
    <3> HIDE DEF k
    <3> QED
      BY <3>2, <3>3
  <2>3. below.fn = "object" /\ below.pc = "member"
    BY <1>1, <1>2 DEF Good, Shape
  <2>4. IsFrame(below)
    BY <2>1, <2>2 DEF Good, Shape
  <2>5. stack' = [Popped(stack) EXCEPT ![k] = g]
    BY <1>6 DEF Included, Retopped
  <2> HIDE DEF below, nodes
  <2>6. DOMAIN below = {"fn", "pc", "nodes", "field", "key", "keys", "after_comma",
                        "inside_equals", "newline", "equals"}
    BY <2>3, <2>4 DEF IsFrame
  <2>7. /\ DOMAIN g = DOMAIN below /\ g.fn = "object" /\ g.pc = "separator" /\ g.equals = below.equals
        /\ g.inside_equals = below.inside_equals
    BY <2>3, <2>6
  <2> HIDE DEF g, k
  <2>8. ~Counted(below)
    BY <2>3, <2>4 DEF IsFrame
  <2>9. IsFrame(g) /\ Alike(below, g) /\ ~Counted(g)
    BY <2>3, <2>6, <2>7, <2>8 DEF IsFrame, Alike, Counted, Noting, Roots
  <2>10. Good(stack', equals_count - One(Counted(below)) + One(Counted(g))) /\ stack' # <<>>
    <3> DEFINE s == Popped(stack)
    <3>1. k = Len(s)
      BY DEF k
    <3>2. Good(s, equals_count) /\ k \in 1 .. Len(s) /\ s[k] = below /\ stack' = [s EXCEPT ![k] = g]
      BY <2>1, <2>2, <2>5, <3>1
    <3> HIDE DEF s
    <3>3. /\ Good([s EXCEPT ![k] = g], equals_count - One(Counted(s[k])) + One(Counted(g)))
          /\ [s EXCEPT ![k] = g] # <<>>
      BY <2>9, <3>1, <3>2, GoodReplaced
    <3> QED
      BY <3>2, <3>3
  <2>11. equals_count - One(Counted(below)) + One(Counted(g)) = equals_count
    BY <1>2, <2>8, <2>9 DEF One
  <2> QED
    BY <1>1, <1>5, <1>6, <2>10, <2>11, Consuming
<1>7. ASSUME NEW pc, NEW nodes, SetTop([Top EXCEPT !.pc = pc, !.nodes = nodes]), t.w # "end"
      PROVE  Inv'
  <2> DEFINE g == [Top EXCEPT !.pc = pc, !.nodes = nodes]
  <2>1. IsFrame(g) /\ Alike(Top, g) /\ ~Counted(g)
    BY <1>1, <1>2 DEF IsFrame, Alike, Counted, Noting, Roots
  <2>2. SetTop(g)
    BY <1>7
  <2> HIDE DEF g
  <2> QED
    BY <1>1, <1>3, <1>5, <1>7, <2>1, <2>2, TakenAndGoingOn
<1>8. ASSUME Fail(t)
      PROVE  Inv'
  <2>1. ctl'.op = "throw"
    BY <1>8, Outcomes DEF Fail
  <2> QED
    BY <1>1, <1>5, <2>1, Consuming
<1> QED
  BY <1>4, <1>6, <1>7, <1>8

LEMMA LayoutSeparates ==
  ASSUME Inv, SeparatorLayout
  PROVE  Inv'
<1>1. /\ ctl = Run /\ stack # <<>> /\ ctl.op = "run" /\ Top.pc = "separator" /\ UNCHANGED equals_count
  BY Outcomes DEF SeparatorLayout
<1>2. IsFrame(Top)
  BY <1>1, TopFacts
<1>3. PICK t \in Readable :
        /\ t.w \in Layout /\ Takes(t, <<>>)
        /\ SetTop([AddTo(Top, Layer(t)) EXCEPT !.newline = @ \/ t.w = "newline"])
  BY DEF SeparatorLayout
<1>4. t \in Available /\ t.w # "end"
  BY <1>3, Taken DEF Layout
<1> DEFINE f == AddTo(Top, Layer(t))
           newline == f.newline \/ t.w = "newline"
           g == [f EXCEPT !.newline = newline]
<1>5. SetTop(g)
  BY <1>3
<1>6. IsFrame(f) /\ Alike(Top, f) /\ (Counted(f) <=> Counted(Top))
  BY <1>2, AddedTo
<1> HIDE DEF f, newline
<1>7. IsFrame(g) /\ Alike(f, g) /\ (Counted(g) <=> Counted(f))
  BY <1>6 DEF IsFrame, Alike, Counted, Noting, Roots
<1> HIDE DEF g
<1>8. Alike(Top, g) /\ (Counted(g) <=> Counted(Top))
  BY <1>6, <1>7 DEF Alike
<1> QED
  BY <1>1, <1>3, <1>4, <1>5, <1>7, <1>8, TakenAndGoingOn

\* There is a separator or there is not, and the object or array goes on.
LEMMA SeparatedOrNot ==
  ASSUME Inv, ctl = Run, stack # <<>>, NEW f, IsFrame(f), Alike(Top, f), ~Counted(f), ~Counted(Top),
         Separated(f) \/ NotSeparated(f)
  PROVE  ctl'.op = "run" /\ Good(stack', equals_count) /\ stack' # <<>>
<1> DEFINE member  == [f EXCEPT !.pc = "member", !.after_comma = TRUE]
           element == [f EXCEPT !.pc = "element"]
           close   == [f EXCEPT !.pc = "close"]
<1>1. ctl.op \in {"run", "value"}
  BY Outcomes
<1>2. \/ f.fn = "object" /\ SetTop(member)
      \/ stack' = Consolidating(Retopped(stack, element)) /\ ctl' = Run
      \/ SetTop(close)
  BY DEF Separated, NotSeparated
<1>3. f.fn = "object" => IsFrame(member) /\ Alike(f, member) /\ ~Counted(member)
  <2> SUFFICES ASSUME f.fn = "object"
               PROVE  IsFrame(member) /\ Alike(f, member) /\ ~Counted(member)
    OBVIOUS
  <2>1. DOMAIN f = {"fn", "pc", "nodes", "field", "key", "keys", "after_comma",
                    "inside_equals", "newline", "equals"}
    BY DEF IsFrame
  <2>2. /\ DOMAIN member = DOMAIN f /\ member.fn = "object" /\ member.equals = f.equals
        /\ member.inside_equals = f.inside_equals
    BY <2>1
  <2> HIDE DEF member
  <2> QED
    BY <2>1, <2>2 DEF IsFrame, Alike, Counted, Noting, Roots
<1>4. /\ IsFrame(element) /\ Alike(f, element) /\ ~Counted(element)
      /\ IsFrame(close) /\ Alike(f, close) /\ ~Counted(close)
  BY Moved
<1> HIDE DEF member, element, close
<1>5. /\ f.fn = "object" => Alike(Top, member)
      /\ Alike(Top, element) /\ Alike(Top, close)
  BY <1>3, <1>4 DEF Alike
<1>6. CASE f.fn = "object" /\ SetTop(member)
  BY <1>1, <1>3, <1>5, <1>6, GoingOn
<1>7. CASE stack' = Consolidating(Retopped(stack, element)) /\ ctl' = Run
  BY <1>1, <1>4, <1>5, <1>7, FrameKept, ConsolidatingIsGood, Outcomes
<1>8. CASE SetTop(close)
  BY <1>1, <1>4, <1>5, <1>8, GoingOn
<1> QED
  BY <1>2, <1>6, <1>7, <1>8

LEMMA ElementsSeparate ==
  ASSUME Inv, ElementSeparator
  PROVE  Inv'
<1>1. /\ ctl = Run /\ stack # <<>> /\ ctl.op = "run" /\ Top.pc = "separator" /\ UNCHANGED equals_count
  BY Outcomes DEF ElementSeparator
<1>2. IsFrame(Top) /\ ~Counted(Top)
  BY <1>1, TopFacts DEF IsFrame
<1>3. PICK t \in Tokens :
        IF t.w = "comma"
        THEN Takes(t, <<>>) /\ Separated(AddTo(Top, Leaf("token", t)))
        ELSE Takes(t, <<t>>) /\ IF flavor = "CONF" /\ Top.newline THEN Separated(Top) ELSE NotSeparated(Top)
  BY DEF ElementSeparator
<1>4. t \in Available
  BY Taken
<1>5. CASE t.w = "comma"
  <2> DEFINE f == AddTo(Top, Leaf("token", t))
  <2>1. Takes(t, <<>>) /\ Separated(f)
    BY <1>3, <1>5
  <2>2. IsFrame(f) /\ Alike(Top, f) /\ ~Counted(f)
    BY <1>2, AddedTo
  <2> HIDE DEF f
  <2>3. ctl'.op = "run" /\ Good(stack', equals_count) /\ stack' # <<>>
    BY <1>1, <1>2, <2>1, <2>2, SeparatedOrNot
  <2> QED
    BY <1>1, <1>4, <1>5, <2>1, <2>3, Consuming
<1>6. CASE t.w # "comma"
  <2>1. Takes(t, <<t>>) /\ (Separated(Top) \/ NotSeparated(Top))
    BY <1>3, <1>6
  <2>2. ctl'.op = "run" /\ Good(stack', equals_count) /\ stack' # <<>>
    BY <1>1, <1>2, <2>1, SeparatedOrNot DEF Alike
  <2> QED
    BY <1>1, <1>4, <2>1, <2>2, GivingOneBack
<1> QED
  BY <1>5, <1>6

LEMMA ElementIsParsed ==
  ASSUME Inv, stack # <<>>, ElementParsed
  PROVE  Inv'
<1> DEFINE nodes == Append(Top.nodes, ctl.v)
           g == [Top EXCEPT !.pc = "separator", !.newline = FALSE, !.nodes = nodes]
<1>1. Top.fn = "array" /\ ctl.op = "value" /\ SetTop(g) /\ UNCHANGED <<tokens, buffer, equals_count>>
  BY DEF ElementParsed
<1>2. IsFrame(Top)
  BY <1>1, TopFacts
<1> HIDE DEF nodes
<1>3. IsFrame(g) /\ Alike(Top, g) /\ ~Counted(g) /\ ~Counted(Top)
  BY <1>1, <1>2 DEF IsFrame, Alike, Counted, Noting, Roots
<1> HIDE DEF g
<1>4. ctl'.op = "run" /\ Good(stack', equals_count) /\ stack' # <<>>
  BY <1>1, <1>3, GoingOn
<1> QED
  BY <1>1, <1>4, Returning

LEMMA Elements ==
  ASSUME Inv, Element
  PROVE  Inv'
<1>1. /\ ctl = Run /\ stack # <<>> /\ ctl.op = "run" /\ Top.fn = "array" /\ UNCHANGED equals_count
  BY Outcomes DEF Element, At
<1>2. IsFrame(Top) /\ Good(stack, equals_count) /\ ~Counted(Top)
  BY <1>1, TopFacts DEF Counted
<1> DEFINE g == [Top EXCEPT !.pc = "separator", !.newline = FALSE]
<1>3. PICK t \in Tokens :
        \/ GotNext(t, <<>>) /\ ParseValue(stack, t)
        \/ GotNext(t, <<>>) /\ t.w # "end" /\ \E node : Leave(node)
        \/ GotNext(t, <<t>>) /\ SetTop(g)
        \/ GotNext(t, <<>>) /\ Fail(t)
  <2>1. PICK t \in Tokens :
          CASE t.w \in ValueWords -> GotNext(t, <<>>) /\ ParseValue(stack, t)
            [] t.w = "close_square" /\ Top.pc = "only" ->
                 GotNext(t, <<>>) /\ Leave(Node("array", Append(Top.nodes, Leaf("token", t))))
            [] t.w = "close_square" /\ Top.pc = "element" /\ TrailingIsAllowed -> GotNext(t, <<t>>) /\ SetTop(g)
            [] OTHER -> GotNext(t, <<>>) /\ Fail(t)
    BY DEF Element, AfterTrailing
  <2>2. t.w \in ValueWords => t.w # "close_square"
    BY NoPathAssumption DEF ValueWords, KeyWords, Strings, Unquoted, Punctuation
  <2> DEFINE node == Node("array", Append(Top.nodes, Leaf("token", t)))
  <2> HIDE DEF g
  <2>3. CASE t.w \in ValueWords
    BY <2>1, <2>2, <2>3
  <2>4. CASE t.w = "close_square" /\ Top.pc = "only"
    <3>1. GotNext(t, <<>>) /\ Leave(node)
      BY <2>1, <2>2, <2>4
    <3> HIDE DEF node
    <3> QED
      BY <2>4, <3>1
  <2>5. CASE t.w = "close_square" /\ Top.pc = "element" /\ TrailingIsAllowed
    BY <2>1, <2>2, <2>5
  <2>6. CASE /\ t.w \notin ValueWords /\ ~(t.w = "close_square" /\ Top.pc = "only")
             /\ ~(t.w = "close_square" /\ Top.pc = "element" /\ TrailingIsAllowed)
    BY <2>1, <2>6
  <2> QED
    BY <2>3, <2>4, <2>5, <2>6
<1>4. t \in Available
  BY Taken
<1>5. CASE GotNext(t, <<>>) /\ ParseValue(stack, t)
  BY <1>1, <1>2, <1>4, <1>5, Taken, CallsParseValue
<1>6. CASE GotNext(t, <<>>) /\ t.w # "end" /\ \E node : Leave(node)
  <2>1. ctl'.op = "value" /\ Good(stack', equals_count) /\ stack' # <<>>
    BY <1>1, <1>2, <1>6, Leaving DEF Noting
  <2> QED
    BY <1>1, <1>4, <1>6, <2>1, Taken, Consuming
<1>7. CASE GotNext(t, <<t>>) /\ SetTop(g)
  <2>1. IsFrame(g) /\ Alike(Top, g) /\ ~Counted(g)
    BY <1>1, <1>2 DEF IsFrame, Alike, Counted, Noting, Roots
  <2> HIDE DEF g
  <2>2. ctl'.op = "run" /\ Good(stack', equals_count) /\ stack' # <<>>
    BY <1>1, <1>2, <1>7, <2>1, GoingOn
  <2> QED
    BY <1>1, <1>4, <1>7, <2>2, Taken, GivingOneBack
<1>8. CASE GotNext(t, <<>>) /\ Fail(t)
  BY <1>1, <1>4, <1>8, Taken, Outcomes, Consuming DEF Fail
<1> QED
  BY <1>3, <1>5, <1>6, <1>7, <1>8

LEMMA Values ==
  ASSUME Inv, Value
  PROVE  Inv'
<1>1. /\ ctl = Run /\ stack # <<>> /\ ctl.op = "run" /\ Top.fn = "values" /\ UNCHANGED equals_count
  BY Outcomes DEF Value, At
<1>2. IsFrame(Top) /\ ~Counted(Top)
  BY <1>1, TopFacts DEF Counted
<1> DEFINE g == [Top EXCEPT !.pc = "more"]
<1>3. PICK t \in Readable : (GotNext(t, <<>>) \/ Got(t, <<>>)) /\ ParseValue(Retopped(stack, g), t)
  BY DEF Value
<1>4. t \in Available /\ Takes(t, <<>>)
  BY <1>3, Taken
<1>5. IsFrame(g) /\ Alike(Top, g) /\ ~Counted(g)
  BY <1>2, Moved
<1> HIDE DEF g
<1>6. Good(Retopped(stack, g), equals_count) /\ Retopped(stack, g) # <<>>
  BY <1>1, <1>2, <1>5, FrameKept
<1> QED
  BY <1>1, <1>3, <1>4, <1>6, CallsParseValue

LEMMA LayoutBetween ==
  ASSUME Inv, Between
  PROVE  Inv'
<1>1. /\ ctl = Run /\ stack # <<>> /\ ctl.op = "run" /\ UNCHANGED equals_count
  BY Outcomes DEF Between, At
<1>2. PICK t \in Readable : t.w = "ignored" /\ Got(t, <<>>) /\ SetTop(AddTo(Top, Leaf("token", t)))
  BY DEF Between
<1> DEFINE g == AddTo(Top, Leaf("token", t))
<1>3. IsFrame(g) /\ Alike(Top, g) /\ (Counted(g) <=> Counted(Top))
  BY <1>1, TopFacts, AddedTo
<1>4. t \in Available /\ Takes(t, <<>>) /\ t.w # "end" /\ SetTop(g)
  BY <1>2, Taken
<1> HIDE DEF g
<1> QED
  BY <1>1, <1>3, <1>4, TakenAndGoingOn

\* consolidate_values returns: the token after the values is put back first.
LEMMA Consolidates ==
  ASSUME Inv, Consolidated
  PROVE  Inv'
<1>1. /\ ctl = Run /\ stack # <<>> /\ ctl.op = "run" /\ Top.fn = "values" /\ UNCHANGED equals_count
      /\ stack' = Popped(stack)
  BY Outcomes DEF Consolidated, At
<1>2. IsFrame(Top) /\ Good(stack, equals_count) /\ Top = stack[Len(stack)] /\ ~Counted(Top)
  BY <1>1, TopFacts DEF Counted
<1>3. IsSequence(PutBack(Top.nodes))
  BY <1>1, <1>2, PutBackIsSequence DEF IsFrame
<1>4. PICK t \in Readable :
        /\ GotNext(t, <<t>> \o PutBack(Top.nodes)) \/ Got(t, <<t>> \o PutBack(Top.nodes))
        /\ ctl' = Run \/ \E v : ctl' = Returns(v)
  <2>1. PICK t \in Readable :
          LET values == Top.nodes
              kept   == SubSeq(values, 1, LastValue(values))
              back   == <<t>> \o PutBack(values)
          IN  /\ IF Top.pc = "first" THEN GotNext(t, back) ELSE Got(t, back)
              /\ ctl' = CASE kept = <<>> -> Run
                          [] Len(kept) = 1 -> Returns(kept[1])
                          [] OTHER -> Returns(Node("concat", kept))
    BY DEF Consolidated
  <2> DEFINE kept == SubSeq(Top.nodes, 1, LastValue(Top.nodes))
  <2>2. ctl' = CASE kept = <<>> -> Run
                 [] Len(kept) = 1 -> Returns(kept[1])
                 [] OTHER -> Returns(Node("concat", kept))
    BY <2>1
  <2> HIDE DEF kept
  <2>3. kept = <<>> => Len(kept) # 1
    <3>1. Len(<<>>) # 1
      BY EmptyIsSequence
    <3> QED
      BY <3>1
  <2>4. ctl' = Run \/ \E v : ctl' = Returns(v)
    <3>1. CASE kept = <<>>
      BY <2>2, <2>3, <3>1
    <3>2. CASE kept # <<>> /\ Len(kept) = 1
      BY <2>2, <3>2
    <3>3. CASE kept # <<>> /\ Len(kept) # 1
      BY <2>2, <3>3
    <3> QED
      BY <3>1, <3>2, <3>3
  <2> QED
    BY <2>1, <2>4
<1>5. t \in Available /\ Takes(t, <<t>> \o PutBack(Top.nodes)) /\ ctl'.op \in {"run", "value"}
  BY <1>4, Taken, Outcomes
<1>6. Good(stack', equals_count) /\ stack' # <<>>
  BY <1>1, <1>2, GoodPopped DEF Roots
<1> QED
  BY <1>1, <1>3, <1>5, <1>6, GivingBack

-----------------------------------------------------------------------------
\* The invariant holds at the start.
LEMMA InvInit == Init => Inv
<1> SUFFICES ASSUME Init
             PROVE  Inv
  OBVIOUS
<1>1. PICK fn \in Entries : stack = <<DocumentFrame(fn, "first")>>
  BY DEF Init
<1> DEFINE f == DocumentFrame(fn, "first")
<1>2. fn \in Roots
  BY EntriesAssumption DEF Roots
<1>3. IsFrame(f) /\ f.fn = fn /\ ~Counted(f)
  BY <1>2, NewFrames
<1> HIDE DEF f
<1>4. IsSequence(stack) /\ Len(stack) = 1 /\ stack[1] = f /\ stack # <<>>
  BY <1>1 DEF IsSequence, f
<1>5. Shape(stack)
  BY <1>2, <1>3, <1>4 DEF Shape, Roots
<1>6. Counting(stack, equals_count)
  <2>1. Number(Equals(stack), Len(stack)) = Number(Equals(stack), Len(stack) - 1) + One(Counted(stack[Len(stack)]))
    BY <1>4, AtTop
  <2>2. One(Counted(f)) = 0
    BY <1>3 DEF One
  <2>3. Number(Equals(stack), 0) = 0
    BY NumberFacts
  <2>4. Number(Equals(stack), 1) = 0
    BY <1>4, <2>1, <2>2, <2>3
  <2>5. equals_count = 0
    BY DEF Init
  <2>6. \A i \in 1 .. Len(stack) : stack[i].fn \notin Noting
    BY <1>2, <1>3, <1>4 DEF Roots, Noting
  <2> QED
    BY <1>4, <2>4, <2>5, <2>6 DEF Counting
<1>7. IsSequence(tokens) /\ IsSequence(buffer) /\ EndHeld /\ ctl.op = "run"
  BY EmptyIsSequence, Outcomes DEF Init, EndHeld
<1> QED
  BY <1>4, <1>5, <1>6, <1>7 DEF Inv, Good

\* Every step keeps the invariant.
LEMMA InvNext == Inv /\ [Next]_vars => Inv'
<1> SUFFICES ASSUME Inv, [Next]_vars
             PROVE  Inv'
  OBVIOUS
<1>1. CASE Collect
  BY <1>1, Collects
<1>2. CASE NotJson
  BY <1>2, NotInJson
<1>3. CASE Root
  BY <1>3, Rooted
<1>4. CASE Trailing \/ SingleEnds
  BY <1>4, Trails
<1>5. CASE Single
  BY <1>5, SingleStarts
<1>6. CASE Member
  BY <1>6, Members
<1>7. CASE Key
  BY <1>7, Keys
<1>8. CASE Separator
  BY <1>8, Separates
<1>9. CASE FieldValue
  BY <1>9, FieldValues
<1>10. CASE CloseObject \/ CloseArray
  BY <1>10, Closes
<1>11. CASE Include
  BY <1>11, Includes
<1>12. CASE SeparatorLayout
  BY <1>12, LayoutSeparates
<1>13. CASE ElementSeparator
  BY <1>13, ElementsSeparate
<1>14. CASE Element
  BY <1>14, Elements
<1>15. CASE Value
  BY <1>15, Values
<1>16. CASE Between
  BY <1>16, LayoutBetween
<1>17. CASE Consolidated
  BY <1>17, Consolidates
<1>18. CASE stack # <<>> /\ (RootParsed \/ SingleParsed \/ FieldParsed \/ ElementParsed \/ ValueParsed)
  BY <1>18, RootIsParsed, ValueIsAdded, FieldIsParsed, ElementIsParsed
<1>19. CASE UNCHANGED vars
  BY <1>19 DEF vars, Inv, Good, Shape, Counting, EndHeld
<1> QED
  BY <1>1, <1>2, <1>3, <1>4, <1>5, <1>6, <1>7, <1>8, <1>9, <1>10, <1>11, <1>12, <1>13, <1>14, <1>15,
     <1>16, <1>17, <1>18, <1>19 DEF Next

\* The invariant holds of every text, of any length and nesting.
THEOREM ParserInvariant == Spec => []Inv
BY InvInit, InvNext, PTL DEF Spec

\* The tokenizer is never asked for a token after the end, though the functions
\* that see the end put it back and others read it again (pop_token, put_back).
THEOREM NeverReadsPastEnd == Spec => []NeverPastEnd
<1>1. Inv => NeverPastEnd
  BY Outcomes DEF Inv, NeverPastEnd, EndHeld
<1> QED
  BY <1>1, ParserInvariant, PTL

\* _equals_count is the number of fields with = in progress, and "unbalanced
\* equals count" is never thrown (parse_value).
THEOREM EqualsFollow == Spec => []EqualsBalanced
<1>1. ASSUME Inv
      PROVE  EqualsBalanced
  <2>1. ctl.op # "bug"
    BY <1>1 DEF Inv
  <2>2. ASSUME ctl.op \in {"run", "value"}
        PROVE  equals_count =
                 Cardinality({i \in DOMAIN stack : stack[i].fn = "object" /\ stack[i].inside_equals})
    <3>1. IsSequence(stack) /\ equals_count = Number(Equals(stack), Len(stack))
      BY <1>1, <2>2 DEF Inv, Good, Shape, Counting
    <3>2. DOMAIN stack = 1 .. Len(stack)
      BY <3>1 DEF IsSequence
    <3>3. Equals(stack) \cap 1 .. Len(stack)
            = {i \in DOMAIN stack : stack[i].fn = "object" /\ stack[i].inside_equals}
      BY <3>2 DEF Equals, Counted
    <3> QED
      BY <3>1, <3>3 DEF Number
  <2> QED
    BY <2>1, <2>2 DEF EqualsBalanced
<1> QED
  BY <1>1, ParserInvariant, PTL

-----------------------------------------------------------------------------
(***************************************************************************)
(* Lines.  Without strings of several lines, line_number is the line of    *)
(* every token put back and of the next one, unless that follows a newline *)
(* that was put back.  Two functions keep tokens of the line they are on:  *)
(* parse_key its key, consolidate_values the layout behind the values.     *)
(***************************************************************************)
Quiet(f)   == f.fn # "values" /\ ~(f.fn = "object" /\ f.pc = "key")
Waiting(f) == f.fn = "values" => f.pc = "more"
Fit(f)     == f.fn = "values" => f.pc \in {"first", "more"} /\ (f.pc = "first" => f.nodes = <<>>)
Fresh(f)   == Quiet(f) \/ (f.fn = "values" /\ f.pc = "first" /\ f.nodes = <<>>)

Stacked(s) == \A i \in 2 .. Len(s) : Waiting(s[i - 1]) /\ (s[i].fn = "values" => Quiet(s[i - 1]))
Standing(s, c) ==
  /\ Stacked(s)
  /\ s # <<>> => /\ c.op = "run" => Fit(Last(s))
                 /\ c.op = "value" => Waiting(Last(s)) /\ c.v.k # "token"
\* The frame at the top keeps no token of its line.
Settled(s, c) ==
  /\ c.op \in {"run", "value"} /\ Stacked(s)
  /\ c.op = "run" => s # <<>> /\ Fresh(Last(s))
  /\ c.op = "value" /\ s # <<>> => Waiting(Last(s)) /\ c.v.k # "token"

NoLines        == \A i \in 1 .. Len(tokens) : tokens[i].w # "lines"
Behind(values) == {values[i].t : i \in {j \in 1 .. Len(values) : j > LastValue(values)}}
OnLine(f, n) ==
  /\ f.fn = "values" => \A t \in Behind(f.nodes) : t.w = "ignored" /\ t.line = n
  /\ f.fn = "object" /\ f.pc = "key" =>
       IsSequence(f.key) /\ f.key # <<>> /\ \A i \in 1 .. Len(f.key) : f.key[i].line = n

NextLineIs(n)     == n = 1 + Cardinality(LineEnds)
NewlineIsPutBack  == 1 \in 1 .. Len(buffer) /\ buffer[1].w = "newline"
Held ==
  /\ line_number \in Nat
  /\ \A i \in 1 .. Len(buffer) : buffer[i].line = line_number
  /\ \A i \in 2 .. Len(buffer) : buffer[i].w = "ignored"
  /\ NextLineIs(IF NewlineIsPutBack THEN line_number + 1 ELSE line_number)

LineInv ==
  /\ ctl.op \in {"run", "value"} => Standing(stack, ctl)
  /\ NoLines => /\ ctl.op = "throw" => ctl.at.line = line_number
                /\ ctl.op \in {"run", "value"} => Held /\ (ctl.op = "run" => OnLine(Last(stack), line_number))

\* Reading one more token of a text.
LEMMA LineEndsCounted ==
  ASSUME IsSequence(tokens), NEW t, tokens' = Append(tokens, t), NoLines'
  PROVE  /\ NoLines /\ t.w # "lines" /\ Cardinality(LineEnds) \in Nat
         /\ Cardinality(LineEnds') = Cardinality(LineEnds) + (IF t.w = "newline" THEN 1 ELSE 0)
<1> DEFINE n == Len(tokens)
           S == LineEnds'
<1>1. /\ n \in Nat /\ DOMAIN tokens = 1 .. n /\ DOMAIN tokens' = 1 .. n + 1 /\ Len(tokens') = n + 1
      /\ \A i \in 1 .. n : tokens'[i] = tokens[i]
      /\ tokens'[n + 1] = t
  BY Pushing DEF IsSequence
<1> HIDE DEF n
<1>2. 1 .. n \subseteq 1 .. n + 1 /\ n + 1 \in 1 .. n + 1
  BY <1>1
<1>3. NoLines /\ t.w # "lines"
  BY <1>1, <1>2 DEF NoLines, n
<1>4. LineEnds \cap 1 .. n = LineEnds /\ S \cap 1 .. n = LineEnds /\ S \cap 1 .. n + 1 = S
  BY <1>1, <1>2 DEF LineEnds
<1>5. n + 1 \in S <=> t.w = "newline"
  BY <1>1, <1>2, <1>3 DEF LineEnds
<1> HIDE DEF S
<1>6. /\ Number(S, n) \in Nat
      /\ Number(S, n + 1) = Number(S, n) + IF n + 1 \in S THEN 1 ELSE 0
  BY <1>1, NumberFacts
<1>7. Number(S, n) = Cardinality(LineEnds) /\ Number(S, n + 1) = Cardinality(S)
  BY <1>4 DEF Number
<1> QED
  BY <1>3, <1>5, <1>6, <1>7 DEF S

\* The tokens put back, after a token was taken.
LEMMA Buffered ==
  ASSUME Inv, NEW t \in Available, NEW back, IsSequence(back), Takes(t, back)
  PROVE  \E k \in Nat :
           /\ IsSequence(buffer') /\ Len(buffer') = k + Len(back)
           /\ \A i \in 1 .. k : buffer'[i] = buffer[i]
           /\ \A i \in 1 .. Len(back) : buffer'[k + i] = back[i]
           /\ \/ buffer = <<>> /\ Len(buffer) = 0 /\ k = 0 /\ t \in Following /\ tokens' = Append(tokens, t)
              \/ buffer # <<>> /\ Len(buffer) = k + 1 /\ t = buffer[k + 1] /\ tokens' = tokens
<1>1. IsSequence(buffer)
  BY DEF Inv
<1>2. CASE buffer = <<>>
  <2>1. tokens' = Append(tokens, t) /\ buffer' = <<>> \o back /\ t \in Following /\ Len(buffer) = 0
    BY <1>2, EmptyIsSequence DEF Takes, Available
  <2>2. /\ IsSequence(<<>> \o back) /\ Len(<<>> \o back) = Len(<<>>) + Len(back)
        /\ \A i \in 1 .. Len(back) : (<<>> \o back)[Len(<<>>) + i] = back[i]
    BY EmptyIsSequence, Joining
  <2>3. Len(<<>>) = 0 /\ 0 \in Nat /\ 1 .. 0 = {}
    BY EmptyIsSequence
  <2> HIDE DEF Takes
  <2> QED
    BY <1>2, <2>1, <2>2, <2>3
<1>3. CASE buffer # <<>>
  <2> DEFINE k == Len(buffer) - 1
  <2>1. /\ t = buffer[Len(buffer)] /\ tokens' = tokens /\ buffer' = Popped(buffer) \o back
    BY <1>3 DEF Takes, Available, Last
  <2>2. /\ Len(buffer) \in Nat \ {0} /\ IsSequence(Popped(buffer)) /\ Len(Popped(buffer)) = k
        /\ \A i \in 1 .. k : Popped(buffer)[i] = buffer[i]
    BY <1>1, <1>3, Popping
  <2>3. k \in Nat /\ Len(buffer) = k + 1
    BY <2>2
  <2> HIDE DEF k
  <2>4. /\ IsSequence(buffer') /\ Len(buffer') = k + Len(back)
        /\ \A i \in 1 .. k : buffer'[i] = buffer[i]
        /\ \A i \in 1 .. Len(back) : buffer'[k + i] = back[i]
    <3>1. PICK p : p = Popped(buffer)
      OBVIOUS
    <3>0. IsSequence(p)
      BY <2>2, <3>1
    <3>2. Len(p) = k /\ (\A i \in 1 .. k : p[i] = buffer[i]) /\ buffer' = p \o back
      BY <2>1, <2>2, <3>1
    <3>3. /\ IsSequence(p \o back) /\ Len(p \o back) = Len(p) + Len(back)
          /\ \A i \in 1 .. Len(p) : (p \o back)[i] = p[i]
          /\ \A i \in 1 .. Len(back) : (p \o back)[Len(p) + i] = back[i]
      BY <3>0, Joining
    <3>4. IsSequence(buffer') /\ Len(buffer') = k + Len(back)
      BY <3>0, <3>2, <3>3, Zenon
    <3>5. \A i \in 1 .. k : buffer'[i] = buffer[i]
      BY <3>2, <3>3, Zenon
    <3>6. \A i \in 1 .. Len(back) : buffer'[k + i] = back[i]
      BY <3>2, <3>3, Zenon
    <3> QED
      BY <3>4, <3>5, <3>6
  <2>5. t = buffer[k + 1]
    BY <2>1, <2>3
  <2> QED
    BY <1>3, <2>1, <2>3, <2>4, <2>5, Zenon
<1> QED
  BY <1>2, <1>3

\* A token that can be read is on the line at hand.
LEMMA ReadLine ==
  ASSUME Inv, LineInv, ctl = Run, NoLines', NEW t \in Available, NEW back, Takes(t, back)
  PROVE  NoLines /\ Held /\ t.line = line_number /\ OnLine(Last(stack), line_number)
<1>1. IsSequence(tokens) /\ IsSequence(buffer) /\ ctl.op = "run"
  BY Outcomes DEF Inv
<1>2. CASE buffer = <<>>
  <2>1. tokens' = Append(tokens, t) /\ t \in Following
    BY <1>2 DEF Takes, Available
  <2>2. NoLines /\ t.w # "lines" /\ Cardinality(LineEnds) \in Nat
    BY <1>1, <2>1, LineEndsCounted
  <2>3. Held /\ OnLine(Last(stack), line_number)
    BY <1>1, <2>2 DEF LineInv
  <2>4. t.line = Line(t.w)
    BY <2>1 DEF Following
  <2>5. t.line = 1 + Cardinality(LineEnds)
    BY <2>2, <2>4 DEF Line
  <2>6. ~NewlineIsPutBack
    BY <1>2, EmptyIsSequence DEF NewlineIsPutBack
  <2> QED
    BY <2>2, <2>3, <2>5, <2>6 DEF Held, NextLineIs
<1>3. CASE buffer # <<>>
  <2>1. tokens' = tokens /\ t = buffer[Len(buffer)]
    BY <1>3 DEF Takes, Available, Last
  <2>2. NoLines
    BY <2>1 DEF NoLines
  <2>3. Held /\ OnLine(Last(stack), line_number)
    BY <1>1, <2>2 DEF LineInv
  <2>4. Len(buffer) \in Nat \ {0}
    BY <1>1, <1>3, Popping
  <2>5. Len(buffer) \in 1 .. Len(buffer)
    BY <2>4
  <2> QED
    BY <2>1, <2>2, <2>3, <2>5 DEF Held
<1> QED
  BY <1>2, <1>3

\* next_token and next_token_collecting_whitespace leave the line number alone,
\* or take that of the token.
LEMMA TakenOnALine ==
  \A t, back : Got(t, back) \/ GotNext(t, back) => Takes(t, back) /\ line_number' \in {line_number, t.line}
BY DEF Got, GotNext

\* The line number stays as it is then.
LEMMA SameLineNumber ==
  ASSUME Inv, LineInv, ctl = Run, NoLines', NEW t \in Available, NEW back, Takes(t, back),
         line_number' \in {line_number, t.line}
  PROVE  line_number' = line_number
<1>1. t.line = line_number
  BY ReadLine
<1> QED
  BY <1>1

\* A token is taken and not put back.
LEMMA HeldWithout ==
  ASSUME Inv, LineInv, ctl = Run, NoLines', NEW t \in Available, Takes(t, <<>>),
         line_number' = IF t.w = "newline" THEN line_number + 1 ELSE line_number
  PROVE  Held'
<1>1. Held
  BY ReadLine
<1>2. Len(<<>>) = 0 /\ IsSequence(<<>>)
  BY EmptyIsSequence
<1>3. PICK k \in Nat :
        /\ Len(buffer') = k + Len(<<>>)
        /\ \A i \in 1 .. k : buffer'[i] = buffer[i]
        /\ \/ buffer = <<>> /\ Len(buffer) = 0 /\ k = 0 /\ tokens' = Append(tokens, t)
           \/ buffer # <<>> /\ Len(buffer) = k + 1 /\ t = buffer[k + 1] /\ tokens' = tokens
  BY <1>2, Buffered
<1>4. Len(buffer') = k
  BY <1>2, <1>3
<1>5. line_number \in Nat /\ line_number' \in Nat
  BY <1>1 DEF Held
<1>6. CASE k = 0
  <2>1. ~NewlineIsPutBack' /\ 1 .. Len(buffer') = {} /\ 2 .. Len(buffer') = {}
    BY <1>4, <1>6 DEF NewlineIsPutBack
  <2>2. NextLineIs(line_number)'
    <3>1. CASE buffer = <<>> /\ Len(buffer) = 0 /\ tokens' = Append(tokens, t)
      <4>1. /\ Cardinality(LineEnds) \in Nat
            /\ Cardinality(LineEnds') = Cardinality(LineEnds) + (IF t.w = "newline" THEN 1 ELSE 0)
        BY <3>1, LineEndsCounted DEF Inv
      <4>2. NextLineIs(line_number)
        BY <1>1, <3>1 DEF Held, NewlineIsPutBack
      <4> QED
        BY <1>5, <4>1, <4>2 DEF NextLineIs
    <3>2. CASE buffer # <<>> /\ Len(buffer) = k + 1 /\ t = buffer[k + 1] /\ tokens' = tokens
      <4>1. NewlineIsPutBack <=> t.w = "newline"
        BY <1>6, <3>2 DEF NewlineIsPutBack
      <4>2. NextLineIs(line_number')
        BY <1>1, <4>1 DEF Held
      <4>3. LineEnds' = LineEnds
        BY <3>2 DEF LineEnds
      <4> QED
        BY <4>2, <4>3 DEF NextLineIs
    <3> QED
      BY <1>3, <3>1, <3>2
  <2> QED
    BY <1>5, <2>1, <2>2 DEF Held
<1>7. CASE k # 0
  <2>1. Len(buffer) = k + 1 /\ t = buffer[k + 1] /\ tokens' = tokens
    BY <1>3, <1>7
  <2>2. k + 1 \in 2 .. k + 1 /\ 1 \in 1 .. k /\ 1 \in 1 .. k + 1
    BY <1>7
  <2>3. t.w = "ignored" /\ line_number' = line_number
    BY <1>1, <2>1, <2>2 DEF Held
  <2>4. NewlineIsPutBack' <=> NewlineIsPutBack
    BY <1>3, <1>4, <2>1, <2>2 DEF NewlineIsPutBack
  <2>5. LineEnds' = LineEnds
    BY <2>1 DEF LineEnds
  <2>6. NextLineIs(IF NewlineIsPutBack THEN line_number + 1 ELSE line_number)'
    BY <1>1, <2>3, <2>4, <2>5 DEF Held, NextLineIs
  <2>7. /\ \A i \in 1 .. k : buffer'[i].line = line_number
        /\ \A i \in 2 .. k : buffer'[i].w = "ignored"
    <3>1. \A i \in 1 .. k : i \in 1 .. k + 1
      OBVIOUS
    <3>2. \A i \in 2 .. k : i \in 1 .. k /\ i \in 2 .. k + 1
      OBVIOUS
    <3> QED
      BY <1>1, <1>3, <2>1, <3>1, <3>2 DEF Held
  <2> QED
    BY <1>4, <1>5, <2>3, <2>6, <2>7 DEF Held
<1> QED
  BY <1>6, <1>7

\* A token is put back, and layout of its line over it.
LEMMA HeldWith ==
  ASSUME Inv, LineInv, ctl = Run, NoLines', NEW t \in Available, NEW back, Takes(t, back),
         IsSequence(back), back # <<>>, back[1] = t,
         \A i \in 2 .. Len(back) : back[i].w = "ignored" /\ back[i].line = line_number,
         line_number' = line_number
  PROVE  Held'
<1>1. Held /\ t.line = line_number
  BY ReadLine
<1>2. PICK k \in Nat :
        /\ Len(buffer') = k + Len(back)
        /\ \A i \in 1 .. k : buffer'[i] = buffer[i]
        /\ \A i \in 1 .. Len(back) : buffer'[k + i] = back[i]
        /\ \/ buffer = <<>> /\ Len(buffer) = 0 /\ k = 0 /\ tokens' = Append(tokens, t)
           \/ buffer # <<>> /\ Len(buffer) = k + 1 /\ t = buffer[k + 1] /\ tokens' = tokens
  BY Buffered
<1>3. Len(back) \in Nat \ {0} /\ 1 \in 1 .. Len(back)
  <2>1. Len(back) \in Nat \ {0}
    BY Popping
  <2> QED
    BY <2>1
<1>4. buffer'[k + 1] = t
  BY <1>2, <1>3
<1>5. ASSUME NEW i \in 1 .. Len(buffer')
      PROVE  \/ i \in 1 .. k \/ i = k + 1
             \/ i - k \in 2 .. Len(back) /\ i - k \in 1 .. Len(back) /\ k + (i - k) = i
  BY <1>2, <1>3
<1>6. \A i \in 1 .. Len(buffer') : buffer'[i].line = line_number
  <2> SUFFICES ASSUME NEW i \in 1 .. Len(buffer')
               PROVE  buffer'[i].line = line_number
    OBVIOUS
  <2>1. CASE i \in 1 .. k
    <3>1. i \in 1 .. Len(buffer)
      BY <1>2, <2>1
    <3> QED
      BY <1>1, <1>2, <2>1, <3>1 DEF Held
  <2>2. CASE i = k + 1
    BY <1>1, <1>4, <2>2
  <2>3. CASE i - k \in 2 .. Len(back) /\ i - k \in 1 .. Len(back) /\ k + (i - k) = i
    <3>1. buffer'[i] = back[i - k]
      BY <1>2, <2>3
    <3> QED
      BY <2>3, <3>1
  <2> QED
    BY <1>5, <2>1, <2>2, <2>3
<1>7. \A i \in 2 .. Len(buffer') : buffer'[i].w = "ignored"
  <2> SUFFICES ASSUME NEW i \in 2 .. Len(buffer')
               PROVE  buffer'[i].w = "ignored"
    OBVIOUS
  <2>0. i \in 1 .. Len(buffer')
    OBVIOUS
  <2>1. CASE i \in 1 .. k
    <3>1. i \in 2 .. Len(buffer)
      BY <1>2, <2>1
    <3> QED
      BY <1>1, <1>2, <2>1, <3>1 DEF Held
  <2>2. CASE i = k + 1
    <3>1. i \in 2 .. Len(buffer) /\ buffer'[i] = buffer[i]
      BY <1>2, <1>4, <2>2
    <3> QED
      BY <1>1, <3>1 DEF Held
  <2>3. CASE i - k \in 2 .. Len(back) /\ i - k \in 1 .. Len(back) /\ k + (i - k) = i
    <3>1. buffer'[i] = back[i - k]
      BY <1>2, <2>3
    <3> QED
      BY <2>3, <3>1
  <2> QED
    BY <1>5, <2>0, <2>1, <2>2, <2>3
<1>8. NextLineIs(IF NewlineIsPutBack THEN line_number + 1 ELSE line_number)'
  <2>1. CASE buffer = <<>> /\ Len(buffer) = 0 /\ k = 0 /\ tokens' = Append(tokens, t)
    <3>1. /\ Cardinality(LineEnds) \in Nat
          /\ Cardinality(LineEnds') = Cardinality(LineEnds) + (IF t.w = "newline" THEN 1 ELSE 0)
      BY <2>1, LineEndsCounted DEF Inv
    <3>2. NextLineIs(line_number)
      BY <1>1, <2>1 DEF Held, NewlineIsPutBack
    <3>3. 1 \in 1 .. Len(buffer') /\ buffer'[1] = t
      BY <1>2, <1>3, <1>4, <2>1
    <3>4. NewlineIsPutBack' <=> t.w = "newline"
      BY <3>3 DEF NewlineIsPutBack
    <3> QED
      BY <1>1, <3>1, <3>2, <3>4 DEF NextLineIs, Held
  <2>2. CASE buffer # <<>> /\ Len(buffer) = k + 1 /\ t = buffer[k + 1] /\ tokens' = tokens
    <3>1. 1 \in 1 .. Len(buffer) /\ 1 \in 1 .. Len(buffer')
      BY <1>2, <1>3, <2>2
    <3>2. buffer'[1] = buffer[1]
      <4>1. CASE k = 0
        BY <1>4, <2>2, <4>1
      <4>2. CASE k # 0
        <5>1. 1 \in 1 .. k
          BY <4>2
        <5> QED
          BY <1>2, <5>1
      <4> QED
        BY <4>1, <4>2
    <3>3. NewlineIsPutBack' <=> NewlineIsPutBack
      BY <3>1, <3>2 DEF NewlineIsPutBack
    <3>4. LineEnds' = LineEnds
      BY <2>2 DEF LineEnds
    <3> QED
      BY <1>1, <3>3, <3>4 DEF Held, NextLineIs
  <2> QED
    BY <1>2, <2>1, <2>2
<1> QED
  BY <1>1, <1>6, <1>7, <1>8 DEF Held

\* A token is put back alone.
LEMMA HeldWithOne ==
  ASSUME Inv, LineInv, ctl = Run, NoLines', NEW t \in Available, Takes(t, <<t>>), line_number' = line_number
  PROVE  Held'
<1>1. IsSequence(<<t>>) /\ <<t>> # <<>> /\ <<t>>[1] = t /\ Len(<<t>>) = 1
  BY DEF IsSequence
<1>2. PICK back : back = <<t>>
  OBVIOUS
<1>3. /\ IsSequence(back) /\ back # <<>> /\ back[1] = t /\ Takes(t, back)
      /\ \A i \in 2 .. Len(back) : back[i].w = "ignored" /\ back[i].line = line_number
  BY <1>1, <1>2
<1> QED
  BY <1>3, HeldWith

-----------------------------------------------------------------------------
(***************************************************************************)
(* The functions on the stack that wait for others.                        *)
(***************************************************************************)
LEMMA StackedPushed ==
  ASSUME NEW s, IsSequence(s), s # <<>>, Stacked(s), NEW f, Waiting(Last(s)), f.fn = "values" => Quiet(Last(s))
  PROVE  Stacked(Append(s, f)) /\ Append(s, f) # <<>> /\ Last(Append(s, f)) = f
<1> DEFINE t == Append(s, f)
<1>1. Len(s) \in Nat \ {0} /\ Last(s) = s[Len(s)]
  BY Popping DEF Last
<1>2. /\ Len(t) = Len(s) + 1 /\ t[Len(s) + 1] = f
      /\ \A i \in 1 .. Len(s) : t[i] = s[i]
  BY Pushing
<1> HIDE DEF t
<1>3. ASSUME NEW i \in 2 .. Len(t)
      PROVE  Waiting(t[i - 1]) /\ (t[i].fn = "values" => Quiet(t[i - 1]))
  <2>1. CASE i = Len(s) + 1
    <3>1. i - 1 = Len(s) /\ i - 1 \in 1 .. Len(s)
      BY <1>1, <2>1
    <3>2. t[i - 1] = Last(s) /\ t[i] = f
      BY <1>1, <1>2, <2>1, <3>1
    <3> QED
      BY <3>2
  <2>2. CASE i # Len(s) + 1
    <3>1. i \in 1 .. Len(s) /\ i - 1 \in 1 .. Len(s) /\ i \in 2 .. Len(s)
      BY <1>1, <1>2, <2>2
    <3>2. t[i] = s[i] /\ t[i - 1] = s[i - 1]
      BY <1>2, <3>1
    <3>3. Waiting(s[i - 1]) /\ (s[i].fn = "values" => Quiet(s[i - 1]))
      BY <3>1 DEF Stacked
    <3> QED
      BY <3>2, <3>3
  <2> QED
    BY <2>1, <2>2
<1>4. Stacked(t)
  BY <1>3 DEF Stacked
<1>5. t # <<>> /\ Last(t) = f
  BY <1>1, <1>2, EmptyIsSequence DEF Last
<1> QED
  BY <1>4, <1>5 DEF t

LEMMA StackedPopped ==
  ASSUME NEW s, IsSequence(s), s # <<>>, Stacked(s), Popped(s) # <<>>
  PROVE  /\ Stacked(Popped(s)) /\ IsSequence(Popped(s)) /\ Last(Popped(s)) = s[Len(s) - 1]
         /\ Waiting(Last(Popped(s))) /\ (Last(s).fn = "values" => Quiet(Last(Popped(s))))
<1> DEFINE t == Popped(s)
<1>1. Len(s) \in Nat \ {0} /\ Last(s) = s[Len(s)]
  BY Popping DEF Last
<1>2. IsSequence(t) /\ Len(t) = Len(s) - 1 /\ \A i \in 1 .. Len(s) - 1 : t[i] = s[i]
  BY Popping
<1>3. t # <<>>
  OBVIOUS
<1> HIDE DEF t
<1>4. Len(t) \in Nat \ {0}
  BY <1>2, <1>3, Popping
<1>5. ASSUME NEW i \in 2 .. Len(t)
      PROVE  Waiting(t[i - 1]) /\ (t[i].fn = "values" => Quiet(t[i - 1]))
  <2>1. i \in 2 .. Len(s) /\ i \in 1 .. Len(s) - 1 /\ i - 1 \in 1 .. Len(s) - 1
    BY <1>1, <1>2
  <2>2. t[i] = s[i] /\ t[i - 1] = s[i - 1]
    BY <1>2, <2>1
  <2> QED
    BY <2>1, <2>2 DEF Stacked
<1>6. Stacked(t)
  BY <1>5 DEF Stacked
<1>7. Len(s) \in 2 .. Len(s) /\ Len(s) - 1 \in 1 .. Len(s) - 1
  BY <1>1, <1>2, <1>4
<1>8. Last(t) = s[Len(s) - 1]
  BY <1>2, <1>7 DEF Last
<1>9. Waiting(s[Len(s) - 1]) /\ (s[Len(s)].fn = "values" => Quiet(s[Len(s) - 1]))
  BY <1>7 DEF Stacked
<1> QED
  BY <1>1, <1>2, <1>6, <1>8, <1>9 DEF t

LEMMA StackedChanged ==
  ASSUME NEW s, IsSequence(s), Stacked(s), NEW i \in 1 .. Len(s), NEW g, g.fn = s[i].fn,
         i # Len(s) => g.pc = s[i].pc
  PROVE  Stacked([s EXCEPT ![i] = g]) /\ IsSequence([s EXCEPT ![i] = g]) /\ Len([s EXCEPT ![i] = g]) = Len(s)
<1> DEFINE t == [s EXCEPT ![i] = g]
<1>1. Len(s) \in Nat /\ DOMAIN s = 1 .. Len(s)
  BY DEF IsSequence
<1>2. t = [j \in 1 .. Len(s) |-> t[j]]
  BY <1>1
<1>3. IsSequence(t) /\ Len(t) = Len(s)
  BY <1>1, <1>2, FunctionIsSequence
<1>4. t[i] = g /\ \A j \in 1 .. Len(s) : j # i => t[j] = s[j]
  BY <1>1
<1> HIDE DEF t
<1>5. ASSUME NEW j \in 2 .. Len(t)
      PROVE  Waiting(t[j - 1]) /\ (t[j].fn = "values" => Quiet(t[j - 1]))
  <2>0. \A k \in Nat : \A l \in 2 .. k : l \in 1 .. k /\ l - 1 \in 1 .. k /\ l - 1 # k
    OBVIOUS
  <2>1. j \in 2 .. Len(s) /\ j \in 1 .. Len(s) /\ j - 1 \in 1 .. Len(s) /\ j - 1 # Len(s)
    BY <1>1, <1>3, <2>0
  <2>2. t[j].fn = s[j].fn /\ t[j - 1].fn = s[j - 1].fn /\ t[j - 1].pc = s[j - 1].pc
    BY <1>4, <2>1
  <2>3. Waiting(s[j - 1]) /\ (s[j].fn = "values" => Quiet(s[j - 1]))
    BY <2>1 DEF Stacked
  <2> QED
    BY <2>2, <2>3 DEF Waiting, Quiet
<1>6. Stacked(t)
  BY <1>5 DEF Stacked
<1> QED
  BY <1>3, <1>6 DEF t

\* The function at the top goes on as g.
LEMMA StackedRetopped ==
  ASSUME NEW s, IsSequence(s), s # <<>>, Stacked(s), NEW g, g.fn = Last(s).fn
  PROVE  /\ Stacked(Retopped(s, g)) /\ IsSequence(Retopped(s, g))
         /\ Retopped(s, g) # <<>> /\ Last(Retopped(s, g)) = g
<1>1. Len(s) \in Nat \ {0} /\ Last(s) = s[Len(s)]
  BY Popping DEF Last
<1>2. Len(s) \in 1 .. Len(s)
  BY <1>1
<1>3. Stacked([s EXCEPT ![Len(s)] = g])
  BY <1>1, <1>2, StackedChanged
<1>4. IsSequence(Retopped(s, g)) /\ Len(Retopped(s, g)) = Len(s) /\ Retopped(s, g)[Len(s)] = g
  BY ChangingTop
<1>5. Retopped(s, g) # <<>>
  BY <1>1, <1>4, EmptyIsSequence
<1>6. Last(Retopped(s, g)) = g
  BY <1>4 DEF Last
<1> QED
  BY <1>3, <1>4, <1>5, <1>6 DEF Retopped

-----------------------------------------------------------------------------
(***************************************************************************)
(* What the actions have in common, as to lines.                           *)
(***************************************************************************)
LEMMA FreshLines ==
  ASSUME NEW f, Fresh(f)
  PROVE  Fit(f) /\ \A n : OnLine(f, n)
<1>1. Fit(f)
  BY DEF Fresh, Fit, Quiet
<1>2. ASSUME f.nodes = <<>>
      PROVE  Behind(f.nodes) = {}
  <2>1. 1 .. Len(f.nodes) = {}
    BY <1>2, EmptyIsSequence
  <2> QED
    BY <2>1 DEF Behind
<1>3. ASSUME NEW n
      PROVE  OnLine(f, n)
  BY <1>2 DEF Fresh, OnLine, Quiet
<1> QED
  BY <1>1, <1>3

LEMMA LinesSettled ==
  ASSUME Settled(stack', ctl'), NoLines' => Held'
  PROVE  LineInv'
<1>1. ctl'.op \in {"run", "value"} /\ Stacked(stack')
  BY DEF Settled
<1>2. ASSUME ctl'.op = "run"
      PROVE  Fit(Last(stack')) /\ OnLine(Last(stack'), line_number')
  BY <1>2, FreshLines DEF Settled
<1>3. Standing(stack', ctl')
  BY <1>1, <1>2 DEF Standing, Settled
<1> QED
  BY <1>1, <1>2, <1>3 DEF LineInv

\* An error at a token that was taken is on its line.
LEMMA LinesThrown ==
  ASSUME Inv, LineInv, ctl = Run, NEW t \in Available, NEW back, Takes(t, back),
         line_number' \in {line_number, t.line}, ctl' = Throws(t)
  PROVE  LineInv'
<1>1. ctl'.op = "throw" /\ ctl'.at = t
  BY DEF Throws
<1>2. ASSUME NoLines'
      PROVE  t.line = line_number'
  BY <1>2, ReadLine, SameLineNumber
<1> QED
  BY <1>1, <1>2 DEF LineInv

\* A token is taken, and the frame at the top keeps none.
LEMMA LinesRead ==
  ASSUME Inv, LineInv, ctl = Run, NEW t \in Available, Takes(t, <<>>), t.w # "newline",
         line_number' \in {line_number, t.line}, Settled(stack', ctl') \/ ctl' = Throws(t)
  PROVE  LineInv'
<1>1. CASE ctl' = Throws(t)
  BY <1>1, LinesThrown
<1>2. CASE Settled(stack', ctl')
  <2>1. ASSUME NoLines'
        PROVE  Held'
    <3>1. line_number' = line_number
      BY <2>1, SameLineNumber
    <3> QED
      BY <2>1, <3>1, HeldWithout
  <2> QED
    BY <1>2, <2>1, LinesSettled
<1> QED
  BY <1>1, <1>2

\* A token is taken and put back.
LEMMA LinesGivenBack ==
  ASSUME Inv, LineInv, ctl = Run, NEW t \in Available, Takes(t, <<t>>),
         line_number' \in {line_number, t.line}, Settled(stack', ctl')
  PROVE  LineInv'
<1>1. ASSUME NoLines'
      PROVE  Held'
  <2>1. line_number' = line_number
    BY <1>1, SameLineNumber
  <2> QED
    BY <1>1, <2>1, HeldWithOne
<1> QED
  BY <1>1, LinesSettled

\* No token is taken.
LEMMA LinesKept ==
  ASSUME LineInv, ctl.op \in {"run", "value"}, UNCHANGED <<tokens, buffer, line_number>>
  PROVE  NoLines' => Held' /\ NoLines
<1>1. (NoLines' => NoLines) /\ (Held => Held')
  BY DEF NoLines, Held, NextLineIs, NewlineIsPutBack, LineEnds
<1> QED
  BY <1>1 DEF LineInv

\* The stack, while a function goes on.
LEMMA TopStands ==
  ASSUME Inv, LineInv, ctl.op \in {"run", "value"}, stack # <<>>
  PROVE  /\ Stacked(stack) /\ IsSequence(stack) /\ Top = Last(stack) /\ IsFrame(Top)
         /\ Top = stack[Len(stack)] /\ Len(stack) \in 1 .. Len(stack)
         /\ Fit(Top) /\ (ctl.op = "value" => Waiting(Top) /\ ctl.v.k # "token")
<1>1. /\ Stacked(stack)
      /\ ctl.op = "run" => Fit(Last(stack))
      /\ ctl.op = "value" => Waiting(Last(stack)) /\ ctl.v.k # "token"
  BY DEF LineInv, Standing
<1>2. IsSequence(stack) /\ IsFrame(Top) /\ Top = stack[Len(stack)] /\ Len(stack) \in 1 .. Len(stack)
  BY TopFacts
<1>3. Waiting(Top) => Fit(Top)
  BY DEF Waiting, Fit
<1> QED
  BY <1>1, <1>2, <1>3 DEF Top

\* consolidate_values is called by a function that keeps no tokens.
LEMMA ConsolidatingSettles ==
  ASSUME NEW fs, IsSequence(fs), fs # <<>>, Stacked(fs), Quiet(Last(fs)), NEW c, c.op = "run"
  PROVE  Settled(Consolidating(fs), c)
<1>1. Waiting(Last(fs))
  BY DEF Quiet, Waiting
<1>2. Fresh(ValuesFrame) /\ ValuesFrame.fn = "values"
  BY DEF ValuesFrame, Fresh
<1>3. Stacked(Append(fs, ValuesFrame)) /\ Append(fs, ValuesFrame) # <<>> /\ Last(Append(fs, ValuesFrame)) = ValuesFrame
  BY <1>1, <1>2, StackedPushed
<1>4. Fresh(Last(fs))
  BY DEF Fresh
<1> QED
  BY <1>2, <1>3, <1>4 DEF Consolidating, Settled

\* A function that keeps no tokens is called.
LEMMA CallSettles ==
  ASSUME NEW fs, IsSequence(fs), fs # <<>>, Stacked(fs), Waiting(Last(fs)), NEW f, Quiet(f), NEW c, c.op = "run"
  PROVE  Settled(Append(fs, f), c) /\ Stacked(Append(fs, f)) /\ Append(fs, f) # <<>> /\ Last(Append(fs, f)) = f
<1>1. f.fn # "values" /\ Fresh(f)
  BY DEF Quiet, Fresh
<1>2. Stacked(Append(fs, f)) /\ Append(fs, f) # <<>> /\ Last(Append(fs, f)) = f
  BY <1>1, StackedPushed
<1> QED
  BY <1>1, <1>2 DEF Settled

\* parse_value is called by a function that waits for it.
LEMMA ParseValueSettles ==
  ASSUME NEW fs, IsSequence(fs), fs # <<>>, Stacked(fs), Waiting(Last(fs)), NEW t, ParseValue(fs, t)
  PROVE  Settled(stack', ctl') \/ ctl' = Throws(t)
<1>0. IsSimple(t.w) => t.w \notin {"end", "open_curly", "open_square"}
  BY NoPathAssumption DEF IsSimple, KeyWords, Strings, Unquoted, Punctuation
<1>1. CASE t.w = "open_curly"
  <2> DEFINE f == ObjectFrame(<<Leaf("token", t)>>)
  <2>1. stack' = Append(fs, f)
    <3> HIDE DEF f
    <3> QED
      BY <1>1 DEF ParseValue, f
  <2>2. ctl' = Run
    BY <1>0, <1>1 DEF ParseValue
  <2>3. Quiet(f)
    BY DEF Quiet, ObjectFrame
  <2> HIDE DEF f
  <2>4. ctl'.op = "run"
    BY <2>2, Outcomes
  <2> QED
    BY <2>1, <2>3, <2>4, CallSettles
<1>2. CASE t.w = "open_square"
  <2>1. stack' = Consolidating(Append(fs, ArrayFrame(t)))
    BY <1>2 DEF ParseValue
  <2>2. ctl'.op = "run"
    BY <1>0, <1>2, Outcomes DEF ParseValue
  <2>3. Quiet(ArrayFrame(t))
    BY DEF Quiet, ArrayFrame
  <2>4. /\ Stacked(Append(fs, ArrayFrame(t))) /\ Append(fs, ArrayFrame(t)) # <<>>
        /\ Last(Append(fs, ArrayFrame(t))) = ArrayFrame(t)
    BY <2>2, <2>3, CallSettles
  <2>5. IsSequence(Append(fs, ArrayFrame(t)))
    BY Pushing
  <2>6. Settled(Consolidating(Append(fs, ArrayFrame(t))), ctl')
    BY <2>2, <2>3, <2>4, <2>5, ConsolidatingSettles
  <2> QED
    BY <2>1, <2>6
<1>3. CASE t.w \notin {"open_curly", "open_square"}
  <2>1. stack' = fs /\ ctl' = IF IsSimple(t.w) THEN Returns(Leaf("simple", t)) ELSE Throws(t)
    BY <1>3 DEF ParseValue
  <2>2. CASE IsSimple(t.w)
    <3>1. ctl' = Returns(Leaf("simple", t))
      BY <2>1, <2>2
    <3>2. ctl'.op = "value" /\ ctl'.v.k = "simple"
      BY <3>1 DEF Returns, Leaf
    <3> QED
      BY <2>1, <3>2 DEF Settled
  <2> QED
    BY <2>1, <2>2
<1> QED
  BY <1>1, <1>2, <1>3

\* The function at the top goes on as g.
LEMMA GoesOnSettled ==
  ASSUME Inv, LineInv, ctl.op \in {"run", "value"}, stack # <<>>, NEW g, g.fn = Top.fn, Fresh(g), SetTop(g)
  PROVE  Settled(stack', ctl')
<1>1. Stacked(stack) /\ IsSequence(stack) /\ Top = Last(stack)
  BY TopStands
<1>2. Stacked(Retopped(stack, g)) /\ Retopped(stack, g) # <<>> /\ Last(Retopped(stack, g)) = g
  BY <1>1, StackedRetopped
<1>3. stack' = Retopped(stack, g) /\ ctl'.op = "run"
  BY Outcomes DEF SetTop
<1> QED
  BY <1>2, <1>3 DEF Settled

\* An object or an array ends.
LEMMA LeavingSettles ==
  ASSUME Inv, LineInv, ctl = Run, stack # <<>>, Top.fn \in Noting, ~Counted(Top),
         NEW node, node.k # "token", Leave(node)
  PROVE  Settled(stack', ctl')
<1>1. ctl'.op = "value" /\ stack' # <<>> /\ stack' = Popped(stack)
  BY Leaving DEF Leave
<1>2. ctl.op = "run" /\ ctl.op \in {"run", "value"}
  BY Outcomes
<1>3. Stacked(stack) /\ IsSequence(stack)
  BY <1>2, TopStands
<1>4. Stacked(Popped(stack)) /\ Waiting(Last(Popped(stack)))
  BY <1>1, <1>3, StackedPopped
<1>5. ctl' = Returns(node)
  BY <1>1 DEF Leave, UnbalancedEquals
<1>6. ctl'.v = node
  BY <1>5 DEF Returns
<1> QED
  BY <1>1, <1>4, <1>6 DEF Settled

\* The function at the top goes on at pc.
LEMMA AtPc ==
  ASSUME NEW f, IsFrame(f), NEW pc
  PROVE  LET g == [f EXCEPT !.pc = pc] IN g.fn = f.fn /\ g.pc = pc
BY DEF IsFrame

-----------------------------------------------------------------------------
(***************************************************************************)
(* The steps keep the lines, in the order of the module.                   *)
(***************************************************************************)
LEMMA CollectLines ==
  ASSUME Inv, LineInv, Collect
  PROVE  LineInv'
<1>1. /\ ctl = Run /\ stack # <<>> /\ ctl.op = "run" /\ ctl.op \in {"run", "value"}
      /\ Top.pc \notin {"key", "more"} /\ ctl' = ctl
  BY Outcomes DEF Collect, Collecting
<1>2. PICK t \in Readable :
        /\ Takes(t, <<>>) /\ stack' = Collected(Layer(t))
        /\ line_number' = IF t.w = "newline" THEN t.line + 1 ELSE line_number
  BY DEF Collect
<1>3. t \in Available
  BY Taken
<1>4. ASSUME NoLines'
      PROVE  Held'
  <2>1. line_number' = IF t.w = "newline" THEN line_number + 1 ELSE line_number
    BY <1>1, <1>2, <1>3, <1>4, ReadLine
  <2> QED
    BY <1>1, <1>2, <1>3, <1>4, <2>1, HeldWithout
<1>5. /\ Stacked(stack) /\ IsSequence(stack) /\ Fit(Top) /\ IsFrame(Top) /\ Good(stack, equals_count)
      /\ Top = stack[Len(stack)] /\ Len(stack) \in 1 .. Len(stack) /\ Len(stack) \in Nat \ {0}
  BY <1>1, TopStands, TopFacts
<1>6. Fresh(Top)
  BY <1>1, <1>5 DEF Fit, Fresh, Quiet
<1> DEFINE i == IF Top.fn = "values" THEN Len(stack) - 1 ELSE Len(stack)
           n == Layer(t)
<1>7. i \in 1 .. Len(stack)
  <2>1. Top.fn = "values" => Len(stack) # 1
    BY <1>5 DEF Good, Shape, Roots
  <2>2. \A k \in Nat \ {0} : k # 1 => k - 1 \in 1 .. k
    OBVIOUS
  <2> QED
    BY <1>5, <2>1, <2>2
<1>8. IsFrame(stack[i])
  BY <1>5, <1>7 DEF Good, Shape
<1>9. stack' = [stack EXCEPT ![i] = AddTo(stack[i], n)]
  BY <1>2 DEF Collected
<1>10. Top.fn = "values" => i # Len(stack)
  BY <1>5
<1>11. Top.fn # "values" => i = Len(stack)
  OBVIOUS
<1> HIDE DEF i, n
<1>12. AddTo(stack[i], n).fn = stack[i].fn /\ AddTo(stack[i], n).pc = stack[i].pc
  BY <1>8, AddedTo DEF Alike
<1>13. Stacked(stack') /\ IsSequence(stack') /\ Len(stack') = Len(stack)
  BY <1>5, <1>7, <1>9, <1>12, StackedChanged
<1>14. Fresh(Last(stack'))
  <2>1. Last(stack') = stack'[Len(stack)]
    BY <1>13 DEF Last
  <2>2. DOMAIN stack = 1 .. Len(stack)
    BY <1>5 DEF IsSequence
  <2>3. CASE Top.fn = "values"
    BY <1>5, <1>6, <1>9, <1>10, <2>1, <2>2, <2>3
  <2>4. CASE Top.fn # "values"
    <3>1. Last(stack') = AddTo(stack[i], n) /\ stack[i] = Top
      BY <1>5, <1>9, <1>11, <2>1, <2>2, <2>4
    <3> QED
      BY <1>6, <1>12, <2>4, <3>1 DEF Fresh, Quiet
  <2> QED
    BY <2>3, <2>4
<1>15. Settled(stack', ctl')
  <2>1. stack' # <<>>
    BY <1>5, <1>13, EmptyIsSequence
  <2> QED
    BY <1>1, <1>13, <1>14, <2>1 DEF Settled
<1> QED
  BY <1>4, <1>15, LinesSettled

LEMMA NotInJsonLines ==
  ASSUME Inv, LineInv, NotJson
  PROVE  LineInv'
<1>1. PICK t \in Available : Got(t, <<>>) /\ ctl' = Throws(t)
  BY DEF NotJson
<1> QED
  BY <1>1, TakenOnALine, LinesThrown DEF NotJson

LEMMA RootLines ==
  ASSUME Inv, LineInv, Root
  PROVE  LineInv'
<1>1. /\ ctl = Run /\ stack # <<>> /\ ctl.op = "run" /\ ctl.op \in {"run", "value"} /\ Top.fn = "parse"
  BY Outcomes DEF Root, At
<1>2. Stacked(stack) /\ IsSequence(stack) /\ Top = Last(stack) /\ IsFrame(Top)
  BY <1>1, TopStands
<1> DEFINE g == [Top EXCEPT !.pc = "root"]
<1>3. PICK t \in Tokens :
        IF t.w \in {"open_curly", "open_square"} THEN GotNext(t, <<>>) /\ ParseValue(Retopped(stack, g), t)
        ELSE IF flavor = "JSON" THEN GotNext(t, <<>>) /\ Fail(t)
        ELSE GotNext(t, <<t>>) /\ stack' = Append(Retopped(stack, g), ObjectFrame(<<>>)) /\ UNCHANGED ctl
  BY DEF Root
<1>4. g.fn = "parse" /\ Waiting(g) /\ g.fn = Last(stack).fn
  BY <1>1, <1>2, AtPc DEF Waiting
<1> HIDE DEF g
<1>5. /\ Stacked(Retopped(stack, g)) /\ IsSequence(Retopped(stack, g))
      /\ Retopped(stack, g) # <<>> /\ Last(Retopped(stack, g)) = g
  BY <1>1, <1>2, <1>4, StackedRetopped
<1>6. t \in Available /\ t.w # "newline"
  BY Taken DEF Tokens, Layout
<1>7. CASE t.w \in {"open_curly", "open_square"} \/ flavor = "JSON"
  <2>1. GotNext(t, <<>>) /\ (ParseValue(Retopped(stack, g), t) \/ ctl' = Throws(t))
    BY <1>3, <1>7 DEF Fail
  <2>2. Settled(stack', ctl') \/ ctl' = Throws(t)
    BY <1>4, <1>5, <2>1, ParseValueSettles
  <2> QED
    BY <1>1, <1>6, <2>1, <2>2, TakenOnALine, LinesRead
<1>8. CASE ~(t.w \in {"open_curly", "open_square"} \/ flavor = "JSON")
  <2>1. GotNext(t, <<t>>) /\ stack' = Append(Retopped(stack, g), ObjectFrame(<<>>)) /\ ctl'.op = "run"
    BY <1>1, <1>3, <1>8
  <2>2. Quiet(ObjectFrame(<<>>))
    BY DEF Quiet, ObjectFrame
  <2>3. Settled(stack', ctl')
    BY <1>4, <1>5, <2>1, <2>2, CallSettles
  <2> QED
    BY <1>1, <1>6, <2>1, <2>3, TakenOnALine, LinesGivenBack
<1> QED
  BY <1>7, <1>8

LEMMA TrailingLines ==
  ASSUME Inv, LineInv, Trailing \/ SingleEnds
  PROVE  LineInv'
<1>1. ctl = Run
  BY DEF Trailing, SingleEnds, At
<1>2. PICK t \in Readable :
        /\ Got(t, <<>>) \/ GotNext(t, <<>>)
        /\ (t.w = "end" /\ stack' = <<>> /\ ctl'.op = "value") \/ ctl' = Throws(t)
  BY Taken, Outcomes DEF Trailing, SingleEnds, Fail
<1>3. t \in Available /\ Takes(t, <<>>) /\ line_number' \in {line_number, t.line}
  BY <1>2, Taken, TakenOnALine
<1>4. CASE ctl' = Throws(t)
  BY <1>1, <1>3, <1>4, LinesThrown
<1>5. CASE t.w = "end" /\ stack' = <<>> /\ ctl'.op = "value"
  <2>1. 2 .. Len(<<>>) = {}
    BY EmptyIsSequence
  <2>2. Settled(stack', ctl')
    BY <1>5, <2>1 DEF Settled, Stacked
  <2> QED
    BY <1>1, <1>3, <1>5, <2>2, LinesRead
<1> QED
  BY <1>2, <1>4, <1>5

LEMMA SingleLines ==
  ASSUME Inv, LineInv, Single
  PROVE  LineInv'
<1>1. /\ ctl = Run /\ stack # <<>> /\ ctl.op = "run" /\ ctl.op \in {"run", "value"}
      /\ Top.fn = "parse_single_value"
  BY Outcomes DEF Single, At
<1>2. Stacked(stack) /\ IsSequence(stack) /\ Top = Last(stack) /\ IsFrame(Top)
  BY <1>1, TopStands
<1> DEFINE g == [Top EXCEPT !.pc = "last"]
<1>3. PICK t \in Readable :
        IF t.w \in Layout \cup {"end"} THEN Got(t, <<>>) /\ Fail(t)
        ELSE IF flavor = "JSON" THEN Got(t, <<>>) /\ ParseValue(Retopped(stack, g), t)
        ELSE Got(t, <<t>>) /\ stack' = Consolidating(Retopped(stack, g)) /\ UNCHANGED ctl
  BY DEF Single
<1>4. g.fn = "parse_single_value" /\ Waiting(g) /\ Quiet(g) /\ g.fn = Last(stack).fn
  BY <1>1, <1>2, AtPc DEF Waiting, Quiet
<1> HIDE DEF g
<1>5. /\ Stacked(Retopped(stack, g)) /\ IsSequence(Retopped(stack, g))
      /\ Retopped(stack, g) # <<>> /\ Last(Retopped(stack, g)) = g
  BY <1>1, <1>2, <1>4, StackedRetopped
<1>6. t \in Available
  BY Taken
<1>7. CASE t.w \in Layout \cup {"end"}
  BY <1>1, <1>3, <1>6, <1>7, TakenOnALine, LinesThrown DEF Fail
<1>8. CASE t.w \notin Layout \cup {"end"} /\ flavor = "JSON"
  <2>1. Got(t, <<>>) /\ ParseValue(Retopped(stack, g), t) /\ t.w # "newline"
    BY <1>3, <1>8 DEF Layout
  <2>2. Settled(stack', ctl') \/ ctl' = Throws(t)
    BY <1>4, <1>5, <2>1, ParseValueSettles
  <2> QED
    BY <1>1, <1>6, <2>1, <2>2, TakenOnALine, LinesRead
<1>9. CASE t.w \notin Layout \cup {"end"} /\ flavor # "JSON"
  <2>1. Got(t, <<t>>) /\ stack' = Consolidating(Retopped(stack, g)) /\ ctl'.op = "run"
    BY <1>1, <1>3, <1>9
  <2>2. Settled(stack', ctl')
    BY <1>4, <1>5, <2>1, ConsolidatingSettles
  <2> QED
    BY <1>1, <1>6, <2>1, <2>2, TakenOnALine, LinesGivenBack
<1> QED
  BY <1>7, <1>8, <1>9

\* The first token of a key is the key so far, and the line is its line.
LEMMA MemberLines ==
  ASSUME Inv, LineInv, Member
  PROVE  LineInv'
<1>1. /\ ctl = Run /\ stack # <<>> /\ ctl.op = "run" /\ ctl.op \in {"run", "value"}
      /\ Top.fn = "object" /\ Top.pc = "member"
  BY Outcomes DEF Member, At
<1>2. Stacked(stack) /\ IsSequence(stack) /\ Top = Last(stack) /\ IsFrame(Top)
  BY <1>1, TopStands
<1>3. ~Counted(Top)
  BY <1>1, <1>2 DEF IsFrame
<1>4. PICK t \in Tokens :
        CASE t.w = "close_curly" ->
               /\ GotNext(t, <<>>)
               /\ IF (flavor = "JSON" /\ Top.after_comma) \/ ~HasBraces(Top) THEN Fail(t)
                  ELSE Leave(Node("object", Append(Top.nodes, Leaf("token", t))))
          [] t.w = "end" /\ ~HasBraces(Top) ->
               GotNext(t, <<t>>) /\ Leave(Node("root", Top.nodes))
          [] t.w = "include" /\ flavor # "JSON" ->
               GotNext(t, <<>>) /\ stack' = Append(stack, IncludeFrame(t)) /\ UNCHANGED ctl
          [] OTHER ->
               /\ GotNext(t, <<>>)
               /\ IF flavor = "JSON"
                  THEN IF t.w \in Strings
                       THEN SetTop([Top EXCEPT !.pc = "after_key", !.key = <<t.w>>,
                                               !.field = <<Node("path", <<Leaf("token", t)>>)>>])
                       ELSE Fail(t)
                  ELSE IF t.w \in KeyWords THEN SetTop([Top EXCEPT !.pc = "key", !.key = <<t>>]) ELSE Fail(t)
  BY DEF Member
<1>5. t \in Available /\ t.w # "newline"
  BY Taken DEF Tokens, Layout
<1>6. CASE t.w = "close_curly"
  <2> DEFINE node == Node("object", Append(Top.nodes, Leaf("token", t)))
  <2>1. GotNext(t, <<>>) /\ (ctl' = Throws(t) \/ Leave(node))
    BY <1>4, <1>6 DEF Fail
  <2>2. node.k # "token"
    BY DEF Node
  <2> HIDE DEF node
  <2>3. Settled(stack', ctl') \/ ctl' = Throws(t)
    BY <1>1, <1>3, <2>1, <2>2, LeavingSettles DEF Noting
  <2> QED
    BY <1>1, <1>5, <2>1, <2>3, TakenOnALine, LinesRead
<1>7. CASE t.w = "end" /\ ~HasBraces(Top)
  <2>1. GotNext(t, <<t>>) /\ Leave(Node("root", Top.nodes))
    BY <1>4, <1>7
  <2>2. Node("root", Top.nodes).k # "token"
    BY DEF Node
  <2>3. Settled(stack', ctl')
    BY <1>1, <1>3, <2>1, <2>2, LeavingSettles DEF Noting
  <2> QED
    BY <1>1, <1>5, <2>1, <2>3, TakenOnALine, LinesGivenBack
<1>8. CASE t.w = "include" /\ flavor # "JSON"
  <2>1. GotNext(t, <<>>) /\ stack' = Append(stack, IncludeFrame(t)) /\ ctl'.op = "run"
    BY <1>1, <1>4, <1>8
  <2>2. Quiet(IncludeFrame(t))
    BY DEF Quiet, IncludeFrame
  <2>3. Waiting(Last(stack))
    BY <1>1, <1>2 DEF Waiting
  <2>4. Settled(stack', ctl')
    BY <1>1, <1>2, <2>1, <2>2, <2>3, CallSettles
  <2> QED
    BY <1>1, <1>5, <2>1, <2>4, TakenOnALine, LinesRead
<1>9. CASE /\ t.w # "close_curly" /\ ~(t.w = "end" /\ ~HasBraces(Top))
           /\ ~(t.w = "include" /\ flavor # "JSON")
  <2> DEFINE field == <<Node("path", <<Leaf("token", t)>>)>>
             json  == <<t.w>>
             key   == <<t>>
             g == [Top EXCEPT !.pc = "after_key", !.key = json, !.field = field]
             h == [Top EXCEPT !.pc = "key", !.key = key]
  <2>1. GotNext(t, <<>>) /\ (ctl' = Throws(t) \/ SetTop(g) \/ SetTop(h))
    BY <1>4, <1>9 DEF Fail
  <2>2. IsSequence(key) /\ key # <<>> /\ Len(key) = 1 /\ key[1] = t
    BY DEF IsSequence
  <2> HIDE DEF field, json, key
  <2>3. DOMAIN Top = {"fn", "pc", "nodes", "field", "key", "keys", "after_comma",
                      "inside_equals", "newline", "equals"}
    BY <1>1, <1>2 DEF IsFrame
  <2>4. g.fn = "object" /\ g.pc = "after_key"
    BY <1>1, <2>3
  <2>5. h.fn = "object" /\ h.pc = "key" /\ h.key = key
    BY <1>1, <2>3
  <2> HIDE DEF g, h
  <2>6. CASE ctl' = Throws(t)
    BY <1>1, <1>5, <2>1, <2>6, TakenOnALine, LinesRead
  <2>7. CASE SetTop(g)
    <3>1. Fresh(g)
      BY <2>4 DEF Fresh, Quiet
    <3>2. Settled(stack', ctl')
      BY <1>1, <2>4, <2>7, <3>1, GoesOnSettled
    <3> QED
      BY <1>1, <1>5, <2>1, <3>2, TakenOnALine, LinesRead
  <2>8. CASE SetTop(h)
    <3>1. Stacked(Retopped(stack, h)) /\ Last(Retopped(stack, h)) = h
      BY <1>1, <1>2, <2>5, StackedRetopped
    <3>2. stack' = Retopped(stack, h) /\ ctl'.op = "run"
      BY <2>8, Outcomes DEF SetTop
    <3>3. Standing(stack', ctl')
      BY <2>5, <3>1, <3>2 DEF Standing, Fit
    <3>4. Takes(t, <<>>) /\ line_number' \in {line_number, t.line}
      BY <2>1, TakenOnALine
    <3>5. ASSUME NoLines'
          PROVE  Held' /\ OnLine(h, line_number')
      <4>1. line_number' = line_number /\ t.line = line_number
        BY <1>1, <1>5, <3>4, <3>5, SameLineNumber, ReadLine
      <4>2. Held'
        BY <1>1, <1>5, <3>4, <3>5, <4>1, HeldWithout
      <4>3. \A i \in 1 .. Len(key) : key[i].line = line_number'
        <5>1. \A i \in 1 .. 1 : i = 1
          OBVIOUS
        <5> QED
          BY <2>2, <4>1, <5>1
      <4> QED
        BY <2>2, <2>5, <4>2, <4>3 DEF OnLine
    <3> QED
      BY <3>1, <3>2, <3>3, <3>5 DEF LineInv
  <2> QED
    BY <2>1, <2>6, <2>7, <2>8
<1> QED
  BY <1>6, <1>7, <1>8, <1>9

\* The tokens of a key are on one line.
LEMMA KeyLines ==
  ASSUME Inv, LineInv, Key
  PROVE  LineInv'
<1>1. /\ ctl = Run /\ stack # <<>> /\ ctl.op = "run" /\ ctl.op \in {"run", "value"}
      /\ Top.fn = "object" /\ Top.pc = "key"
  BY Outcomes DEF Key, At
<1>2. Stacked(stack) /\ IsSequence(stack) /\ Top = Last(stack) /\ IsFrame(Top)
  BY <1>1, TopStands
<1>3. DOMAIN Top = {"fn", "pc", "nodes", "field", "key", "keys", "after_comma",
                    "inside_equals", "newline", "equals"}
  BY <1>1, <1>2 DEF IsFrame
<1> DEFINE field == <<Node("path", [i \in DOMAIN Top.key |-> Leaf("token", Top.key[i])])>>
           after == [Top EXCEPT !.pc = "after_key", !.field = field]
<1>4. PICK t \in Readable :
        IF t.w \in KeyWords THEN Got(t, <<>>) /\ SetTop([Top EXCEPT !.key = Append(@, t)])
        ELSE Got(t, <<t>>) /\ (ctl' = NullOrigin \/ SetTop(after))
  BY DEF Key, AfterKey
<1>5. t \in Available
  BY Taken
<1>6. ASSUME NoLines'
      PROVE  \A back : Got(t, back) =>
               /\ line_number' = line_number /\ t.line = line_number
               /\ IsSequence(Top.key) /\ Top.key # <<>>
               /\ \A i \in 1 .. Len(Top.key) : Top.key[i].line = line_number
  <2> SUFFICES ASSUME NEW back, Got(t, back)
               PROVE  /\ line_number' = line_number /\ t.line = line_number
                      /\ IsSequence(Top.key) /\ Top.key # <<>>
                      /\ \A i \in 1 .. Len(Top.key) : Top.key[i].line = line_number
    OBVIOUS
  <2>1. Takes(t, back) /\ line_number' \in {line_number, t.line}
    BY TakenOnALine
  <2>2. line_number' = line_number
    BY <1>1, <1>5, <1>6, <2>1, SameLineNumber
  <2>3. t.line = line_number /\ OnLine(Top, line_number)
    BY <1>1, <1>2, <1>5, <1>6, <2>1, ReadLine
  <2> QED
    BY <1>1, <2>2, <2>3 DEF OnLine
<1>7. CASE t.w \in KeyWords
  <2> DEFINE key == Append(Top.key, t)
             g == [Top EXCEPT !.key = key]
  <2>1. Got(t, <<>>) /\ SetTop(g)
    BY <1>4, <1>7
  <2>2. t.w # "newline"
    BY <1>7, NoPathAssumption DEF KeyWords, Strings, Unquoted, Layout
  <2>3. ASSUME NoLines'
        PROVE  /\ IsSequence(key) /\ key # <<>> /\ line_number' = line_number
               /\ \A i \in 1 .. Len(key) : key[i].line = line_number'
    <3>1. /\ line_number' = line_number /\ t.line = line_number
          /\ IsSequence(Top.key)
          /\ \A i \in 1 .. Len(Top.key) : Top.key[i].line = line_number
      BY <1>6, <2>1, <2>3
    <3>2. /\ IsSequence(key) /\ Len(key) = Len(Top.key) + 1 /\ key[Len(Top.key) + 1] = t
          /\ \A i \in 1 .. Len(Top.key) : key[i] = Top.key[i]
      BY <3>1, Pushing
    <3>3. Len(Top.key) \in Nat
      BY <3>1 DEF IsSequence
    <3> HIDE DEF key
    <3>4. key # <<>>
      BY <3>2, <3>3, EmptyIsSequence
    <3>5. ASSUME NEW i \in 1 .. Len(key)
          PROVE  key[i].line = line_number
      <4>1. i \in 1 .. Len(Top.key) \/ i = Len(Top.key) + 1
        BY <3>2, <3>3
      <4> QED
        BY <3>1, <3>2, <4>1
    <3> QED
      BY <3>1, <3>2, <3>4, <3>5
  <2> HIDE DEF key
  <2>4. g.fn = "object" /\ g.pc = "key" /\ g.key = key
    BY <1>1, <1>3
  <2> HIDE DEF g
  <2>5. Stacked(Retopped(stack, g)) /\ Last(Retopped(stack, g)) = g
    BY <1>1, <1>2, <2>4, StackedRetopped
  <2>6. stack' = Retopped(stack, g) /\ ctl'.op = "run"
    BY <2>1, Outcomes DEF SetTop
  <2>7. Standing(stack', ctl')
    BY <2>4, <2>5, <2>6 DEF Standing, Fit
  <2>8. ASSUME NoLines'
        PROVE  Held' /\ OnLine(g, line_number')
    <3>1. Takes(t, <<>>)
      BY <2>1, TakenOnALine
    <3>2. Held'
      BY <1>1, <1>5, <2>2, <2>3, <2>8, <3>1, HeldWithout
    <3> QED
      BY <2>3, <2>4, <2>8, <3>2 DEF OnLine
  <2> QED
    BY <2>5, <2>6, <2>7, <2>8 DEF LineInv
<1>8. CASE t.w \notin KeyWords
  <2>1. Got(t, <<t>>) /\ (ctl' = NullOrigin \/ SetTop(after))
    BY <1>4, <1>8
  <2> HIDE DEF field
  <2>2. after.fn = "object" /\ after.pc = "after_key"
    BY <1>1, <1>3
  <2> HIDE DEF after
  <2>3. CASE ctl' = NullOrigin
    BY <2>3, Outcomes DEF LineInv
  <2>4. CASE SetTop(after)
    <3>1. Fresh(after)
      BY <2>2 DEF Fresh, Quiet
    <3>2. Settled(stack', ctl')
      BY <1>1, <2>2, <2>4, <3>1, GoesOnSettled
    <3> QED
      BY <1>1, <1>5, <2>1, <3>2, TakenOnALine, LinesGivenBack
  <2> QED
    BY <2>1, <2>3, <2>4
<1> QED
  BY <1>7, <1>8

LEMMA SeparatorLines ==
  ASSUME Inv, LineInv, Separator
  PROVE  LineInv'
<1>1. /\ ctl = Run /\ stack # <<>> /\ ctl.op = "run" /\ ctl.op \in {"run", "value"}
      /\ Top.fn = "object" /\ Top.pc = "after_key"
  BY Outcomes DEF Separator, At
<1>2. Stacked(stack) /\ IsSequence(stack) /\ Top = Last(stack) /\ IsFrame(Top)
  BY <1>1, TopStands
<1>3. DOMAIN Top = {"fn", "pc", "nodes", "field", "key", "keys", "after_comma",
                    "inside_equals", "newline", "equals"}
  BY <1>1, <1>2 DEF IsFrame
<1> DEFINE waiting == [Top EXCEPT !.pc = "value"]
<1>4. PICK t \in Tokens :
        /\ GotNext(t, <<>>)
        /\ IF flavor = "CONF" /\ t.w = "open_curly"
           THEN ParseValue(Retopped(stack, waiting), t)
           ELSE IF ~IsSeparator(t) THEN Fail(t)
           ELSE /\ stack' = Consolidating(Retopped(stack,
                     [waiting EXCEPT !.field = Append(@, Leaf("token", t)), !.inside_equals = t.w = "equals"]))
                /\ UNCHANGED ctl
  BY DEF Separator
<1> DEFINE field == Append(waiting.field, Leaf("token", t))
           equal == t.w = "equals"
           g == [waiting EXCEPT !.field = field, !.inside_equals = equal]
<1>5. \/ ParseValue(Retopped(stack, waiting), t)
      \/ ctl' = Throws(t)
      \/ stack' = Consolidating(Retopped(stack, g)) /\ ctl' = ctl
  BY <1>4 DEF Fail
<1> HIDE DEF field, equal
<1>6. waiting.fn = "object" /\ waiting.pc = "value" /\ g.fn = "object" /\ g.pc = "value"
  BY <1>1, <1>3
<1> HIDE DEF waiting, g
<1>7. t \in Available /\ t.w # "newline"
  BY Taken DEF Tokens, Layout
<1>8. CASE ParseValue(Retopped(stack, waiting), t)
  <2>1. /\ Stacked(Retopped(stack, waiting)) /\ IsSequence(Retopped(stack, waiting))
        /\ Retopped(stack, waiting) # <<>> /\ Last(Retopped(stack, waiting)) = waiting
    BY <1>1, <1>2, <1>6, StackedRetopped
  <2>2. Waiting(waiting)
    BY <1>6 DEF Waiting
  <2>3. Settled(stack', ctl') \/ ctl' = Throws(t)
    BY <1>8, <2>1, <2>2, ParseValueSettles
  <2> QED
    BY <1>1, <1>4, <1>7, <2>3, TakenOnALine, LinesRead
<1>9. CASE ctl' = Throws(t)
  BY <1>1, <1>4, <1>7, <1>9, TakenOnALine, LinesRead
<1>10. CASE stack' = Consolidating(Retopped(stack, g)) /\ ctl' = ctl
  <2>1. /\ Stacked(Retopped(stack, g)) /\ IsSequence(Retopped(stack, g))
        /\ Retopped(stack, g) # <<>> /\ Last(Retopped(stack, g)) = g
    BY <1>1, <1>2, <1>6, StackedRetopped
  <2>2. Quiet(g)
    BY <1>6 DEF Quiet
  <2>3. Settled(stack', ctl')
    BY <1>1, <1>10, <2>1, <2>2, ConsolidatingSettles
  <2> QED
    BY <1>1, <1>4, <1>7, <2>3, TakenOnALine, LinesRead
<1> QED
  BY <1>5, <1>8, <1>9, <1>10

LEMMA FieldValueLines ==
  ASSUME Inv, LineInv, FieldValue
  PROVE  LineInv'
<1>1. /\ ctl = Run /\ stack # <<>> /\ ctl.op = "run" /\ ctl.op \in {"run", "value"} /\ Top.fn = "object"
  BY Outcomes DEF FieldValue, At
<1>2. Stacked(stack) /\ IsSequence(stack) /\ Waiting(Last(stack))
  BY <1>1, TopStands DEF Waiting
<1>3. PICK t \in Tokens : GotNext(t, <<>>) /\ ParseValue(stack, t)
  BY DEF FieldValue
<1>4. t \in Available /\ t.w # "newline"
  BY Taken DEF Tokens, Layout
<1>5. Settled(stack', ctl') \/ ctl' = Throws(t)
  BY <1>1, <1>2, <1>3, ParseValueSettles
<1> QED
  BY <1>1, <1>3, <1>4, <1>5, TakenOnALine, LinesRead

LEMMA CloseLines ==
  ASSUME Inv, LineInv, CloseObject \/ CloseArray
  PROVE  LineInv'
<1>1. /\ ctl = Run /\ stack # <<>> /\ ctl.op = "run" /\ Top.fn \in Noting /\ Top.pc = "close"
  BY Outcomes DEF CloseObject, CloseArray, At, Noting
<1>2. ~Counted(Top)
  BY <1>1, TopFacts DEF IsFrame
<1>3. \A k, kids : Node(k, kids).k = k
  BY DEF Node
<1>4. PICK t \in Tokens :
        \/ GotNext(t, <<>>) /\ ctl' = Throws(t)
        \/ GotNext(t, <<>>) /\ \E node : node.k # "token" /\ Leave(node)
        \/ GotNext(t, <<t>>) /\ \E node : node.k # "token" /\ Leave(node)
  BY <1>3 DEF CloseObject, CloseArray, Fail
<1>5. t \in Available /\ t.w # "newline"
  BY Taken DEF Tokens, Layout
<1>6. (\E node : node.k # "token" /\ Leave(node)) => Settled(stack', ctl')
  BY <1>1, <1>2, LeavingSettles
<1>7. CASE GotNext(t, <<>>) /\ (ctl' = Throws(t) \/ Settled(stack', ctl'))
  BY <1>1, <1>5, <1>7, TakenOnALine, LinesRead
<1>8. CASE GotNext(t, <<t>>) /\ Settled(stack', ctl')
  BY <1>1, <1>5, <1>8, TakenOnALine, LinesGivenBack
<1> QED
  BY <1>4, <1>6, <1>7, <1>8

LEMMA IncludeLines ==
  ASSUME Inv, LineInv, Include
  PROVE  LineInv'
<1>1. /\ ctl = Run /\ stack # <<>> /\ ctl.op = "run" /\ ctl.op \in {"run", "value"}
      /\ Top.fn = "include"
  BY Outcomes DEF Include, At
<1>2. /\ Len(stack) \in 1 .. Len(stack) /\ Top = stack[Len(stack)] /\ IsFrame(Top)
      /\ Good(stack, equals_count) /\ IsSequence(stack)
  BY <1>1, TopFacts
<1>3. Stacked(stack)
  BY <1>1, TopStands
<1>4. PICK t \in Tokens :
        /\ GotNext(t, <<>>)
        /\ \/ \E f : stack' = Included(f) /\ ctl' = ctl
           \/ \E pc, nodes : SetTop([Top EXCEPT !.pc = pc, !.nodes = nodes])
           \/ ctl' = Throws(t)
  <2>1. PICK t \in Tokens :
          /\ GotNext(t, <<>>)
          /\ CASE Top.pc = "what" /\ t.w \in Strings ->
                    stack' = Included(Node("include", Append(Top.nodes, Leaf("simple", t)))) /\ UNCHANGED ctl
               [] Top.pc = "what" /\ t.w = "file_open" ->
                    SetTop([Top EXCEPT !.pc = "name", !.nodes = Append(@, Leaf("token", t))])
               [] Top.pc = "name" /\ t.w \in Strings ->
                    SetTop([Top EXCEPT !.pc = "close", !.nodes = Append(@, Leaf("simple", t))])
               [] Top.pc = "close" /\ t.w = "close_paren" ->
                    stack' = Included(Node("include", Top.nodes)) /\ UNCHANGED ctl
               [] OTHER -> Fail(t)
    BY DEF Include
  <2>2. t.w \in Strings => t.w \notin {"file_open", "close_paren"}
    BY DEF Strings
  <2>3. CASE Top.pc = "what" /\ t.w \in Strings
    BY <2>1, <2>2, <2>3
  <2>4. CASE Top.pc = "what" /\ t.w = "file_open"
    BY <2>1, <2>2, <2>4
  <2>5. CASE Top.pc = "name" /\ t.w \in Strings
    BY <2>1, <2>2, <2>5
  <2>6. CASE Top.pc = "close" /\ t.w = "close_paren"
    BY <2>1, <2>6
  <2>7. CASE /\ ~(Top.pc = "what" /\ t.w \in Strings) /\ ~(Top.pc = "what" /\ t.w = "file_open")
             /\ ~(Top.pc = "name" /\ t.w \in Strings) /\ ~(Top.pc = "close" /\ t.w = "close_paren")
    BY <2>1, <2>7 DEF Fail
  <2> QED
    BY <2>3, <2>4, <2>5, <2>6, <2>7
<1>5. t \in Available /\ t.w # "newline" /\ Takes(t, <<>>) /\ line_number' \in {line_number, t.line}
  BY <1>4, Taken, TakenOnALine DEF Tokens, Layout
<1>6. ASSUME NEW f, stack' = Included(f), ctl' = ctl
      PROVE  Settled(stack', ctl')
  <2> DEFINE below == stack[Len(stack) - 1]
             nodes == Append(below.nodes, f)
             g == [below EXCEPT !.nodes = nodes, !.pc = "separator", !.newline = FALSE, !.after_comma = FALSE]
  <2>1. Good(Popped(stack), equals_count) /\ Popped(stack) # <<>>
    BY <1>1, <1>2, GoodPopped DEF Roots, Counted
  <2>2. Stacked(Popped(stack)) /\ IsSequence(Popped(stack)) /\ Last(Popped(stack)) = below
    BY <1>1, <1>2, <1>3, <2>1, StackedPopped
  <2>3. below.fn = "object"
    BY <1>1, <1>2 DEF Good, Shape
  <2>4. IsFrame(below)
    <3>1. Len(Popped(stack)) \in Nat \ {0}
      BY <2>1, <2>2, Popping
    <3>2. Len(Popped(stack)) \in 1 .. Len(Popped(stack)) /\ Last(Popped(stack)) = Popped(stack)[Len(Popped(stack))]
      BY <3>1 DEF Last
    <3>3. IsFrame(Last(Popped(stack)))
      BY <2>1, <3>2 DEF Good, Shape
    <3> QED
      BY <2>2, <3>3
  <2>5. stack' = Retopped(Popped(stack), g)
    BY <1>6 DEF Included
  <2> HIDE DEF below, nodes
  <2>6. DOMAIN below = {"fn", "pc", "nodes", "field", "key", "keys", "after_comma",
                        "inside_equals", "newline", "equals"}
    BY <2>3, <2>4 DEF IsFrame
  <2>7. g.fn = "object" /\ g.pc = "separator"
    BY <2>3, <2>6
  <2> HIDE DEF g
  <2>8. Fresh(g)
    BY <2>7 DEF Fresh, Quiet
  <2>9. /\ Stacked(Retopped(Popped(stack), g)) /\ Retopped(Popped(stack), g) # <<>>
        /\ Last(Retopped(Popped(stack), g)) = g
    BY <2>1, <2>2, <2>3, <2>7, StackedRetopped
  <2> QED
    BY <1>1, <1>6, <2>5, <2>8, <2>9 DEF Settled
<1>7. ASSUME NEW pc, NEW nodes, SetTop([Top EXCEPT !.pc = pc, !.nodes = nodes])
      PROVE  Settled(stack', ctl')
  <2> DEFINE g == [Top EXCEPT !.pc = pc, !.nodes = nodes]
  <2>1. g.fn = "include"
    BY <1>1, <1>2 DEF IsFrame
  <2>2. SetTop(g)
    BY <1>7
  <2> HIDE DEF g
  <2>3. Fresh(g)
    BY <2>1 DEF Fresh, Quiet
  <2> QED
    BY <1>1, <2>1, <2>2, <2>3, GoesOnSettled
<1>8. Settled(stack', ctl') \/ ctl' = Throws(t)
  BY <1>4, <1>6, <1>7
<1> QED
  BY <1>1, <1>5, <1>8, LinesRead

\* A function that is at a separator is parse_object or parse_array.
LEMMA AtSeparator ==
  ASSUME Inv, LineInv, ctl = Run, stack # <<>>, Top.pc = "separator"
  PROVE  Top.fn # "values"
<1>1. Fit(Top)
  BY TopStands, Outcomes
<1> QED
  BY <1>1 DEF Fit

LEMMA SeparatorLayoutLines ==
  ASSUME Inv, LineInv, SeparatorLayout
  PROVE  LineInv'
<1>1. /\ ctl = Run /\ stack # <<>> /\ ctl.op = "run" /\ ctl.op \in {"run", "value"} /\ Top.pc = "separator"
  BY Outcomes DEF SeparatorLayout
<1>2. IsFrame(Top) /\ Top.fn # "values"
  BY <1>1, TopStands, AtSeparator
<1>3. PICK t \in Readable :
        /\ Takes(t, <<>>) /\ line_number' = NextLine(t)
        /\ SetTop([AddTo(Top, Layer(t)) EXCEPT !.newline = @ \/ t.w = "newline"])
  BY DEF SeparatorLayout
<1>4. t \in Available
  BY Taken
<1> DEFINE f == AddTo(Top, Layer(t))
           newline == f.newline \/ t.w = "newline"
           g == [f EXCEPT !.newline = newline]
<1>5. SetTop(g)
  BY <1>3
<1>6. IsFrame(f) /\ f.fn = Top.fn /\ f.pc = Top.pc
  BY <1>2, AddedTo DEF Alike
<1> HIDE DEF f, newline
<1>7. g.fn = Top.fn /\ g.pc = "separator"
  BY <1>1, <1>6 DEF IsFrame
<1> HIDE DEF g
<1>8. Fresh(g)
  BY <1>2, <1>7 DEF Fresh, Quiet
<1>9. Settled(stack', ctl')
  BY <1>1, <1>5, <1>7, <1>8, GoesOnSettled
<1>10. NoLines' => Held'
  BY <1>1, <1>3, <1>4, HeldWithout DEF NextLine
<1> QED
  BY <1>9, <1>10, LinesSettled

\* There is a separator or there is not.
LEMMA SeparatedSettles ==
  ASSUME Inv, LineInv, ctl = Run, stack # <<>>, NEW f, IsFrame(f), f.fn = Top.fn, Top.fn # "values",
         Separated(f) \/ NotSeparated(f)
  PROVE  Settled(stack', ctl')
<1> DEFINE member  == [f EXCEPT !.pc = "member", !.after_comma = TRUE]
           element == [f EXCEPT !.pc = "element"]
           close   == [f EXCEPT !.pc = "close"]
<1>1. ctl.op = "run" /\ ctl.op \in {"run", "value"}
  BY Outcomes
<1>2. \/ f.fn = "object" /\ SetTop(member)
      \/ stack' = Consolidating(Retopped(stack, element)) /\ ctl' = Run
      \/ SetTop(close)
  BY DEF Separated, NotSeparated
<1>3. f.fn = "object" => member.fn = f.fn /\ member.pc = "member"
  <2> SUFFICES ASSUME f.fn = "object"
               PROVE  member.fn = f.fn /\ member.pc = "member"
    OBVIOUS
  <2>1. DOMAIN f = {"fn", "pc", "nodes", "field", "key", "keys", "after_comma",
                    "inside_equals", "newline", "equals"}
    BY DEF IsFrame
  <2> QED
    BY <2>1
<1>4. element.fn = f.fn /\ element.pc = "element" /\ close.fn = f.fn /\ close.pc = "close"
  BY AtPc
<1> HIDE DEF member, element, close
<1>5. CASE f.fn = "object" /\ SetTop(member)
  BY <1>1, <1>3, <1>5, GoesOnSettled DEF Fresh, Quiet
<1>6. CASE stack' = Consolidating(Retopped(stack, element)) /\ ctl' = Run
  <2>1. Stacked(stack) /\ IsSequence(stack) /\ Top = Last(stack)
    BY <1>1, TopStands
  <2>2. /\ Stacked(Retopped(stack, element)) /\ IsSequence(Retopped(stack, element))
        /\ Retopped(stack, element) # <<>> /\ Last(Retopped(stack, element)) = element
    BY <1>4, <2>1, StackedRetopped
  <2>3. Quiet(element)
    BY <1>4 DEF Quiet
  <2> QED
    BY <1>6, <2>2, <2>3, ConsolidatingSettles, Outcomes
<1>7. CASE SetTop(close)
  BY <1>1, <1>4, <1>7, GoesOnSettled DEF Fresh, Quiet
<1> QED
  BY <1>2, <1>5, <1>6, <1>7

LEMMA ElementSeparatorLines ==
  ASSUME Inv, LineInv, ElementSeparator
  PROVE  LineInv'
<1>1. /\ ctl = Run /\ stack # <<>> /\ ctl.op = "run" /\ ctl.op \in {"run", "value"} /\ Top.pc = "separator"
  BY Outcomes DEF ElementSeparator
<1>2. IsFrame(Top) /\ Top.fn # "values"
  BY <1>1, TopStands, AtSeparator
<1>3. PICK t \in Tokens :
        /\ IF t.w = "comma"
           THEN Takes(t, <<>>) /\ Separated(AddTo(Top, Leaf("token", t)))
           ELSE Takes(t, <<t>>) /\ IF flavor = "CONF" /\ Top.newline THEN Separated(Top) ELSE NotSeparated(Top)
        /\ line_number' = IF flavor = "JSON" /\ HasLine(t) THEN t.line ELSE line_number
  BY DEF ElementSeparator
<1>4. t \in Available /\ t.w # "newline" /\ line_number' \in {line_number, t.line}
  BY <1>3, Taken DEF Tokens, Layout
<1>5. CASE t.w = "comma"
  <2> DEFINE f == AddTo(Top, Leaf("token", t))
  <2>1. Takes(t, <<>>) /\ Separated(f)
    BY <1>3, <1>5
  <2>2. IsFrame(f) /\ f.fn = Top.fn
    BY <1>2, AddedTo DEF Alike
  <2> HIDE DEF f
  <2>3. Settled(stack', ctl')
    BY <1>1, <1>2, <2>1, <2>2, SeparatedSettles
  <2> QED
    BY <1>1, <1>4, <2>1, <2>3, LinesRead
<1>6. CASE t.w # "comma"
  <2>1. Takes(t, <<t>>) /\ (Separated(Top) \/ NotSeparated(Top))
    BY <1>3, <1>6
  <2>2. Settled(stack', ctl')
    BY <1>1, <1>2, <2>1, SeparatedSettles
  <2> QED
    BY <1>1, <1>4, <2>1, <2>2, LinesGivenBack
<1> QED
  BY <1>5, <1>6

LEMMA ElementLines ==
  ASSUME Inv, LineInv, Element
  PROVE  LineInv'
<1>1. /\ ctl = Run /\ stack # <<>> /\ ctl.op = "run" /\ ctl.op \in {"run", "value"} /\ Top.fn = "array"
  BY Outcomes DEF Element, At
<1>2. Stacked(stack) /\ IsSequence(stack) /\ Top = Last(stack) /\ IsFrame(Top) /\ Waiting(Last(stack)) /\ ~Counted(Top)
  BY <1>1, TopStands DEF Waiting, Counted
<1> DEFINE g == [Top EXCEPT !.pc = "separator", !.newline = FALSE]
<1>3. PICK t \in Tokens :
        \/ GotNext(t, <<>>) /\ ParseValue(stack, t)
        \/ GotNext(t, <<>>) /\ \E node : node.k # "token" /\ Leave(node)
        \/ GotNext(t, <<t>>) /\ SetTop(g)
        \/ GotNext(t, <<>>) /\ ctl' = Throws(t)
  <2>1. PICK t \in Tokens :
          CASE t.w \in ValueWords -> GotNext(t, <<>>) /\ ParseValue(stack, t)
            [] t.w = "close_square" /\ Top.pc = "only" ->
                 GotNext(t, <<>>) /\ Leave(Node("array", Append(Top.nodes, Leaf("token", t))))
            [] t.w = "close_square" /\ Top.pc = "element" /\ TrailingIsAllowed -> GotNext(t, <<t>>) /\ SetTop(g)
            [] OTHER -> GotNext(t, <<>>) /\ Fail(t)
    BY DEF Element, AfterTrailing
  <2>2. t.w \in ValueWords => t.w # "close_square"
    BY NoPathAssumption DEF ValueWords, KeyWords, Strings, Unquoted, Punctuation
  <2> DEFINE node == Node("array", Append(Top.nodes, Leaf("token", t)))
  <2> HIDE DEF g
  <2>3. CASE t.w \in ValueWords
    BY <2>1, <2>2, <2>3
  <2>4. CASE t.w = "close_square" /\ Top.pc = "only"
    <3>1. GotNext(t, <<>>) /\ Leave(node)
      BY <2>1, <2>2, <2>4
    <3>2. node.k # "token"
      BY DEF Node
    <3> HIDE DEF node
    <3> QED
      BY <3>1, <3>2
  <2>5. CASE t.w = "close_square" /\ Top.pc = "element" /\ TrailingIsAllowed
    BY <2>1, <2>2, <2>5
  <2>6. CASE /\ t.w \notin ValueWords /\ ~(t.w = "close_square" /\ Top.pc = "only")
             /\ ~(t.w = "close_square" /\ Top.pc = "element" /\ TrailingIsAllowed)
    BY <2>1, <2>6 DEF Fail
  <2> QED
    BY <2>3, <2>4, <2>5, <2>6
<1>4. t \in Available /\ t.w # "newline"
  BY Taken DEF Tokens, Layout
<1>5. g.fn = "array" /\ g.pc = "separator"
  BY <1>1, <1>2 DEF IsFrame
<1> HIDE DEF g
<1>6. CASE GotNext(t, <<>>) /\ (ParseValue(stack, t) \/ ctl' = Throws(t))
  <2>1. Settled(stack', ctl') \/ ctl' = Throws(t)
    BY <1>1, <1>2, <1>6, ParseValueSettles
  <2> QED
    BY <1>1, <1>4, <1>6, <2>1, TakenOnALine, LinesRead
<1>7. CASE GotNext(t, <<>>) /\ \E node : node.k # "token" /\ Leave(node)
  <2>1. Settled(stack', ctl')
    BY <1>1, <1>2, <1>7, LeavingSettles DEF Noting
  <2> QED
    BY <1>1, <1>4, <1>7, <2>1, TakenOnALine, LinesRead
<1>8. CASE GotNext(t, <<t>>) /\ SetTop(g)
  <2>1. Settled(stack', ctl')
    BY <1>1, <1>5, <1>8, GoesOnSettled DEF Fresh, Quiet
  <2> QED
    BY <1>1, <1>4, <1>8, <2>1, TakenOnALine, LinesGivenBack
<1> QED
  BY <1>3, <1>6, <1>7, <1>8

LEMMA ValueLines ==
  ASSUME Inv, LineInv, Value
  PROVE  LineInv'
<1>1. /\ ctl = Run /\ stack # <<>> /\ ctl.op = "run" /\ ctl.op \in {"run", "value"} /\ Top.fn = "values"
  BY Outcomes DEF Value, At
<1>2. Stacked(stack) /\ IsSequence(stack) /\ Top = Last(stack) /\ IsFrame(Top)
  BY <1>1, TopStands
<1> DEFINE g == [Top EXCEPT !.pc = "more"]
<1>3. PICK t \in Readable :
        /\ GotNext(t, <<>>) \/ Got(t, <<>>)
        /\ t.w \in ValueWords /\ ParseValue(Retopped(stack, g), t)
  BY DEF Value
<1>4. t \in Available /\ t.w # "newline"
  BY <1>3, Taken, NoPathAssumption DEF ValueWords, KeyWords, Strings, Unquoted, Layout
<1>5. g.fn = "values" /\ g.pc = "more"
  BY <1>1, <1>2, AtPc
<1> HIDE DEF g
<1>6. Waiting(g)
  BY <1>5 DEF Waiting
<1>7. /\ Stacked(Retopped(stack, g)) /\ IsSequence(Retopped(stack, g))
      /\ Retopped(stack, g) # <<>> /\ Last(Retopped(stack, g)) = g
  BY <1>1, <1>2, <1>5, StackedRetopped
<1>8. Settled(stack', ctl') \/ ctl' = Throws(t)
  BY <1>3, <1>6, <1>7, ParseValueSettles
<1> QED
  BY <1>1, <1>3, <1>4, <1>8, TakenOnALine, LinesRead

-----------------------------------------------------------------------------
(***************************************************************************)
(* The layout behind the values of a line.                                 *)
(***************************************************************************)
LEMMA LastValueIs ==
  ASSUME NEW values, IsSequence(values)
  PROVE  /\ Len(values) \in Nat /\ LastValue(values) \in 0 .. Len(values)
         /\ LastValue(values) # 0 => IsValue(values[LastValue(values)])
         /\ \A j \in 1 .. Len(values) : j > LastValue(values) => ~IsValue(values[j])
<1> DEFINE I == {i \in 1 .. Len(values) : IsValue(values[i])}
           m == LastValue(values)
<1>1. Len(values) \in Nat
  BY DEF IsSequence
<1>2. m = IF I # {} THEN Max(I) ELSE 0
  BY DEF LastValue, SelectLastInSeq
<1>3. I # {} => Max(I) \in I /\ \A j \in I : Max(I) >= j
  BY <1>1, Greatest
<1>4. m \in 0 .. Len(values)
  BY LastValueIsThere
<1> HIDE DEF m
<1>5. CASE I = {}
  BY <1>1, <1>2, <1>4, <1>5 DEF m
<1>6. CASE I # {}
  <2>1. m \in I /\ \A j \in I : m >= j
    BY <1>2, <1>3, <1>6
  <2>2. ASSUME NEW j \in 1 .. Len(values), j > m
        PROVE  ~IsValue(values[j])
    <3>1. ~(m >= j)
      BY <1>1, <1>4, <2>2
    <3> QED
      BY <2>1, <3>1
  <2> QED
    BY <1>1, <1>4, <2>1, <2>2 DEF m
<1> QED
  BY <1>5, <1>6

\* A value leaves nothing behind the values; other nodes are added to that.
LEMMA BehindAdded ==
  ASSUME NEW values, IsSequence(values), NEW v
  PROVE  /\ v.k # "token" => Behind(Append(values, v)) = {}
         /\ v.k = "token" => Behind(Append(values, v)) \subseteq Behind(values) \cup {v.t}
<1> DEFINE more == Append(values, v)
           n == Len(values)
           m == LastValue(values)
           l == LastValue(more)
<1>1. /\ IsSequence(more) /\ Len(more) = n + 1 /\ more[n + 1] = v
      /\ \A i \in 1 .. n : more[i] = values[i]
  BY Pushing
<1>2. /\ n \in Nat /\ m \in 0 .. n /\ (m # 0 => IsValue(values[m]))
      /\ \A j \in 1 .. n : j > m => ~IsValue(values[j])
  BY LastValueIs
<1> HIDE DEF more
<1>3. /\ l \in 0 .. n + 1 /\ (l # 0 => IsValue(more[l]))
      /\ \A j \in 1 .. n + 1 : j > l => ~IsValue(more[j])
  BY <1>1, LastValueIs
<1>4. Behind(more) = {more[i].t : i \in {j \in 1 .. n + 1 : j > l}}
  BY <1>1 DEF Behind
<1>5. Behind(values) = {values[i].t : i \in {j \in 1 .. n : j > m}}
  BY DEF Behind
<1> HIDE DEF n, m, l
<1>6. n + 1 \in 1 .. n + 1
  BY <1>2
<1>7. ASSUME v.k # "token"
      PROVE  Behind(more) = {}
  <2>1. IsValue(more[n + 1])
    BY <1>1, <1>7 DEF IsValue
  <2>2. ~(n + 1 > l)
    BY <1>3, <1>6, <2>1
  <2>3. \A j \in 1 .. n + 1 : ~(j > l)
    BY <1>2, <1>3, <2>2
  <2> QED
    BY <1>4, <2>3
<1>8. ASSUME v.k = "token"
      PROVE  Behind(more) \subseteq Behind(values) \cup {v.t}
  <2>1. ~IsValue(more[n + 1])
    BY <1>1, <1>8 DEF IsValue
  <2>2. l # n + 1
    <3>1. n + 1 # 0
      BY <1>2
    <3> QED
      BY <1>3, <2>1, <3>1
  <2>3. ~(m > l)
    <3> SUFFICES ASSUME m > l
                 PROVE  FALSE
      OBVIOUS
    <3>1. m \in 1 .. n /\ m \in 1 .. n + 1 /\ m # 0
      BY <1>2, <1>3
    <3> QED
      BY <1>1, <1>2, <1>3, <3>1
  <2>4. \A j \in 1 .. n + 1 : j > l => j = n + 1 \/ (j \in 1 .. n /\ j > m)
    BY <1>2, <1>3, <2>3
  <2>5. ASSUME NEW j \in 1 .. n + 1, j > l
        PROVE  more[j].t \in Behind(values) \cup {v.t}
    <3>1. CASE j = n + 1
      BY <1>1, <3>1
    <3>2. CASE j \in 1 .. n /\ j > m
      <4>1. more[j] = values[j]
        BY <1>1, <3>2 DEF n
      <4> QED
        BY <1>5, <3>2, <4>1
    <3> QED
      BY <2>4, <2>5, <3>1, <3>2
  <2> QED
    BY <1>4, <2>5
<1> QED
  BY <1>7, <1>8 DEF more

\* What is put back is behind the values.
LEMMA PutBackIsBehind ==
  ASSUME NEW values, IsSequence(values)
  PROVE  \A i \in 1 .. Len(PutBack(values)) : PutBack(values)[i] \in Behind(values)
<1> DEFINE n == Len(values)
           m == LastValue(values)
           rest == SubSeq(values, m + 1, n)
           behind == TokensOfLayout(rest)
<1>1. n \in Nat /\ m \in 0 .. n
  BY LastValueIs
<1>2. n - m \in Nat
  BY <1>1
<1>3. /\ DOMAIN rest = 1 .. n - m
      /\ \A i \in 1 .. n - m : rest[i] = values[m + i]
  <2> DEFINE S == {values[i] : i \in 1 .. Len(values)}
  <2>1. values \in Seq(S)
    BY SequenceOverElements
  <2> HIDE DEF S, m
  <2>2. Len(rest) = n - m /\ DOMAIN rest = 1 .. n - m
    BY <1>1, <2>1
  <2>3. ASSUME NEW i \in 1 .. n - m
        PROVE  rest[i] = values[m + i]
    <3>1. rest[i] = values[(m + 1) + i - 1]
      BY <1>1, <2>1, <2>2
    <3>2. (m + 1) + i - 1 = m + i
      BY <1>1
    <3> QED
      BY <3>1, <3>2
  <2> QED
    BY <2>2, <2>3
<1> HIDE DEF rest
<1>4. \A i \in 1 .. n - m : behind[i] \in Behind(values)
  <2> SUFFICES ASSUME NEW i \in 1 .. n - m
               PROVE  behind[i] \in Behind(values)
    OBVIOUS
  <2>1. behind[i] = values[m + i].t
    BY <1>3 DEF TokensOfLayout
  <2>2. m + i \in 1 .. n /\ m + i > m
    BY <1>1
  <2> HIDE DEF n, m, behind
  <2>3. m + i \in {j \in 1 .. n : j > m}
    BY <2>2
  <2> QED
    BY <2>1, <2>3 DEF Behind, n, m
<1>5. behind = [i \in 1 .. n - m |-> behind[i]]
  BY <1>3 DEF TokensOfLayout
<1>6. IsSequence(behind) /\ Len(behind) = n - m
  BY <1>2, <1>5, FunctionIsSequence
<1> HIDE DEF behind
<1>7. /\ Len(Reverse(behind)) = n - m
      /\ \A i \in 1 .. n - m : Reverse(behind)[i] = behind[n - m - i + 1]
  <2>1. Reverse(behind) = [i \in 1 .. n - m |-> behind[(n - m) - i + 1]]
    BY <1>6 DEF Reverse
  <2>2. Reverse(behind) = [i \in 1 .. n - m |-> Reverse(behind)[i]]
    BY <2>1
  <2>3. Len(Reverse(behind)) = n - m
    BY <1>2, <2>2, FunctionIsSequence
  <2> QED
    BY <2>1, <2>3
<1>8. \A i \in 1 .. n - m : n - m - i + 1 \in 1 .. n - m
  <2>1. \A k \in Nat : \A i \in 1 .. k : k - i + 1 \in 1 .. k
    OBVIOUS
  <2> QED
    BY <1>2, <2>1
<1>9. PutBack(values) \in {behind, Reverse(behind)}
  BY DEF PutBack, behind, rest
<1>10. CASE PutBack(values) = behind
  BY <1>4, <1>6, <1>10
<1>11. CASE PutBack(values) = Reverse(behind)
  BY <1>4, <1>7, <1>8, <1>11
<1> QED
  BY <1>9, <1>10, <1>11

\* What is kept ends with a value.
LEMMA OneKept ==
  ASSUME NEW values, IsSequence(values)
  PROVE  \A kept : kept = SubSeq(values, 1, LastValue(values)) /\ Len(kept) = 1 => kept[1].k # "token"
<1> DEFINE S == {values[i] : i \in 1 .. Len(values)}
<1>1. PICK m : m = LastValue(values)
  OBVIOUS
<1>2. m \in 0 .. Len(values) /\ Len(values) \in Nat /\ (m # 0 => IsValue(values[m]))
  BY <1>1, LastValueIs
<1>3. m \in Int /\ m \in Nat /\ \A i \in 1 .. m : i \in 1 .. Len(values)
  BY <1>2
<1>4. \A i \in 1 .. m : values[i] \in S
  BY <1>3
<1> HIDE DEF S
<1>5. /\ Len(SubSeq(values, 1, m)) = IF 1 <= m THEN m - 1 + 1 ELSE 0
      /\ \A i \in 1 .. m - 1 + 1 : SubSeq(values, 1, m)[i] = values[1 + i - 1]
  BY <1>3, <1>4, SubSeqProperties
<1>6. ASSUME NEW kept, kept = SubSeq(values, 1, m), Len(kept) = 1
      PROVE  kept[1].k # "token"
  <2>1. (IF 1 <= m THEN m - 1 + 1 ELSE 0) = 1
    BY <1>5, <1>6, Zenon
  <2>2. m = 1
    BY <1>3, <2>1
  <2>3. 1 \in 1 .. 1 - 1 + 1 /\ 1 + 1 - 1 = 1
    OBVIOUS
  <2>4. kept[1] = values[1]
    BY <1>5, <1>6, <2>2, <2>3, Zenon
  <2>5. IsValue(values[1])
    BY <1>2, <2>2, 1 # 0, Zenon
  <2> QED
    BY <2>4, <2>5, Zenon DEF IsValue
<1> QED
  BY <1>1, <1>6

\* The layout between values is kept on its line.
LEMMA BetweenLines ==
  ASSUME Inv, LineInv, Between
  PROVE  LineInv'
<1>1. /\ ctl = Run /\ stack # <<>> /\ ctl.op = "run" /\ ctl.op \in {"run", "value"}
      /\ Top.fn = "values" /\ Top.pc = "more"
  BY Outcomes DEF Between, At
<1>2. Stacked(stack) /\ IsSequence(stack) /\ Top = Last(stack) /\ IsFrame(Top)
  BY <1>1, TopStands
<1>3. PICK t \in Readable : t.w = "ignored" /\ Got(t, <<>>) /\ SetTop(AddTo(Top, Leaf("token", t)))
  BY DEF Between
<1> DEFINE n == Leaf("token", t)
           g == AddTo(Top, n)
<1>4. t \in Available /\ Takes(t, <<>>) /\ line_number' \in {line_number, t.line}
  BY <1>3, Taken, TakenOnALine
<1>5. n.k = "token" /\ n.t = t
  BY DEF Leaf
<1> HIDE DEF n
<1>6. g.fn = "values" /\ g.pc = "more"
  BY <1>1, <1>2, AddedTo DEF Alike
<1>7. g.nodes = Append(Top.nodes, n)
  <2>1. DOMAIN Top = {"fn", "pc", "nodes"}
    BY <1>1, <1>2 DEF IsFrame
  <2>2. g = [Top EXCEPT !.nodes = Append(Top.nodes, n)]
    BY <1>1 DEF AddTo
  <2> HIDE DEF g
  <2> QED
    BY <2>1, <2>2
<1>8. SetTop(g)
  BY <1>3 DEF n
<1> HIDE DEF g
<1>9. Stacked(Retopped(stack, g)) /\ Last(Retopped(stack, g)) = g
  BY <1>1, <1>2, <1>6, StackedRetopped
<1>10. stack' = Retopped(stack, g) /\ ctl'.op = "run"
  BY <1>8, Outcomes DEF SetTop
<1>11. Standing(stack', ctl')
  BY <1>6, <1>9, <1>10 DEF Standing, Fit
<1>12. ASSUME NoLines'
       PROVE  Held' /\ OnLine(g, line_number')
  <2>1. line_number' = line_number /\ t.line = line_number /\ OnLine(Top, line_number)
    BY <1>1, <1>2, <1>4, <1>12, SameLineNumber, ReadLine
  <2>2. Held'
    BY <1>1, <1>3, <1>4, <1>12, <2>1, HeldWithout
  <2>3. IsSequence(Top.nodes)
    BY <1>1, <1>2 DEF IsFrame
  <2>4. Behind(g.nodes) \subseteq Behind(Top.nodes) \cup {t}
    BY <1>5, <1>7, <2>3, BehindAdded
  <2>5. \A x \in Behind(Top.nodes) : x.w = "ignored" /\ x.line = line_number
    BY <1>1, <2>1 DEF OnLine
  <2>6. OnLine(g, line_number')
    BY <1>3, <1>6, <2>1, <2>4, <2>5 DEF OnLine
  <2> QED
    BY <2>2, <2>6
<1> QED
  BY <1>9, <1>10, <1>11, <1>12 DEF LineInv

\* What consolidate_values puts back is on the line it was read on.
LEMMA ConsolidatedLines ==
  ASSUME Inv, LineInv, Consolidated
  PROVE  LineInv'
<1>1. /\ ctl = Run /\ stack # <<>> /\ ctl.op = "run" /\ ctl.op \in {"run", "value"}
      /\ Top.fn = "values" /\ stack' = Popped(stack)
  BY Outcomes DEF Consolidated, At
<1>2. /\ Stacked(stack) /\ IsSequence(stack) /\ Top = Last(stack) /\ IsFrame(Top)
      /\ Top = stack[Len(stack)] /\ Good(stack, equals_count)
  BY <1>1, TopStands, TopFacts
<1>3. IsSequence(Top.nodes)
  BY <1>1, <1>2 DEF IsFrame
<1> DEFINE others == PutBack(Top.nodes)
<1>4. IsSequence(others) /\ \A i \in 1 .. Len(others) : others[i] \in Behind(Top.nodes)
  BY <1>3, PutBackIsSequence, PutBackIsBehind
<1>5. PICK kept : kept = SubSeq(Top.nodes, 1, LastValue(Top.nodes))
  OBVIOUS
<1>6. PICK t \in Readable :
        /\ GotNext(t, <<t>> \o others) \/ Got(t, <<t>> \o others)
        /\ ctl' = CASE kept = <<>> -> Run
                    [] Len(kept) = 1 -> Returns(kept[1])
                    [] OTHER -> Returns(Node("concat", kept))
  BY <1>5 DEF Consolidated
<1> HIDE DEF others
<1>7. t \in Available
  BY Taken
<1> DEFINE back == <<t>> \o others
<1>8. Takes(t, back) /\ line_number' \in {line_number, t.line}
  BY <1>6, TakenOnALine
<1>9. /\ IsSequence(back) /\ Len(back) = 1 + Len(others) /\ back[1] = t /\ back # <<>> /\ Len(others) \in Nat
      /\ \A i \in 1 .. Len(others) : back[1 + i] = others[i]
  <2>1. IsSequence(<<t>>) /\ Len(<<t>>) = 1 /\ <<t>>[1] = t
    BY DEF IsSequence
  <2>2. 1 \in 1 .. 1
    OBVIOUS
  <2>3. /\ IsSequence(back) /\ Len(back) = 1 + Len(others) /\ back[1] = t
        /\ \A i \in 1 .. Len(others) : back[1 + i] = others[i]
    BY <1>4, <2>1, <2>2, Joining
  <2>4. Len(others) \in Nat
    BY <1>4 DEF IsSequence
  <2> HIDE DEF back
  <2>5. back # <<>>
    BY <2>3, <2>4, EmptyIsSequence
  <2> QED
    BY <2>3, <2>4, <2>5
<1> HIDE DEF back
<1>10. ASSUME NoLines'
       PROVE  Held'
  <2>1. line_number' = line_number /\ OnLine(Top, line_number)
    BY <1>1, <1>2, <1>7, <1>8, <1>10, SameLineNumber, ReadLine
  <2>2. \A i \in 1 .. Len(others) : others[i].w = "ignored" /\ others[i].line = line_number
    BY <1>1, <1>4, <2>1 DEF OnLine
  <2>3. ASSUME NEW i \in 2 .. Len(back)
        PROVE  back[i].w = "ignored" /\ back[i].line = line_number
    <3>1. PICK j \in 1 .. Len(others) : i = 1 + j
      <4>1. i - 1 \in 1 .. Len(others) /\ i = 1 + (i - 1)
        BY <1>9
      <4> QED
        BY <4>1
    <3>2. back[i] = others[j]
      BY <1>9, <3>1
    <3> QED
      BY <2>2, <3>2
  <2> QED
    BY <1>1, <1>7, <1>8, <1>9, <1>10, <2>1, <2>3, HeldWith
<1>11. Good(Popped(stack), equals_count) /\ Popped(stack) # <<>>
  BY <1>1, <1>2, GoodPopped DEF Roots, Counted
<1>12. /\ Stacked(Popped(stack)) /\ Waiting(Last(Popped(stack))) /\ Quiet(Last(Popped(stack)))
  BY <1>1, <1>2, <1>11, StackedPopped
<1>13. ctl'.op = "run" \/ (ctl'.op = "value" /\ ctl'.v.k # "token")
  <2>1. kept = <<>> => Len(kept) # 1
    <3>1. Len(<<>>) # 1
      BY EmptyIsSequence
    <3> QED
      BY <3>1
  <2>2. CASE kept = <<>>
    <3>1. ctl' = Run
      BY <1>6, <2>1, <2>2
    <3> QED
      BY <3>1, Outcomes
  <2>3. CASE kept # <<>> /\ Len(kept) = 1
    <3>1. ctl' = Returns(kept[1])
      BY <1>6, <2>3
    <3>2. kept[1].k # "token"
      BY <1>3, <1>5, <2>3, OneKept
    <3> QED
      BY <3>1, <3>2 DEF Returns
  <2>4. CASE kept # <<>> /\ Len(kept) # 1
    <3>1. ctl' = Returns(Node("concat", kept))
      BY <1>6, <2>4
    <3> QED
      BY <3>1 DEF Returns, Node
  <2> QED
    BY <2>2, <2>3, <2>4
<1>14. Settled(stack', ctl')
  BY <1>1, <1>11, <1>12, <1>13 DEF Settled, Fresh
<1> QED
  BY <1>10, <1>14, LinesSettled

\* A value is returned: no token is read.
LEMMA ReturnedLines ==
  ASSUME Inv, LineInv, ctl.op = "value", UNCHANGED <<tokens, buffer, line_number>>, Settled(stack', ctl')
  PROVE  LineInv'
BY LinesKept, LinesSettled

LEMMA RootParsedLines ==
  ASSUME Inv, LineInv, stack # <<>>, RootParsed
  PROVE  LineInv'
<1> DEFINE nodes == Top.nodes \o IF ctl.v.k = "root" THEN ctl.v.kids ELSE <<ctl.v>>
           g == [Top EXCEPT !.pc = "trailing", !.nodes = nodes]
<1>1. Top.fn = "parse" /\ ctl.op = "value" /\ UNCHANGED <<tokens, buffer, line_number>>
  BY DEF RootParsed
<1>2. SetTop(g)
  BY DEF RootParsed
<1> HIDE DEF nodes
<1>3. g.fn = "parse"
  BY <1>1, TopStands DEF IsFrame
<1> HIDE DEF g
<1>4. Settled(stack', ctl')
  BY <1>1, <1>2, <1>3, GoesOnSettled DEF Fresh, Quiet
<1> QED
  BY <1>1, <1>4, ReturnedLines

LEMMA SingleParsedLines ==
  ASSUME Inv, LineInv, stack # <<>>, SingleParsed
  PROVE  LineInv'
<1> DEFINE g == AddTo(Top, ctl.v)
<1>1. Top.fn = "parse_single_value" /\ ctl.op = "value" /\ UNCHANGED <<tokens, buffer, line_number>> /\ SetTop(g)
  BY DEF SingleParsed
<1>2. g.fn = Top.fn
  BY <1>1, TopStands, AddedTo DEF Alike
<1> HIDE DEF g
<1>3. Settled(stack', ctl')
  BY <1>1, <1>2, GoesOnSettled DEF Fresh, Quiet
<1> QED
  BY <1>1, <1>3, ReturnedLines

LEMMA ElementParsedLines ==
  ASSUME Inv, LineInv, stack # <<>>, ElementParsed
  PROVE  LineInv'
<1> DEFINE nodes == Append(Top.nodes, ctl.v)
           g == [Top EXCEPT !.pc = "separator", !.newline = FALSE, !.nodes = nodes]
<1>1. Top.fn = "array" /\ ctl.op = "value" /\ SetTop(g) /\ UNCHANGED <<tokens, buffer, line_number>>
  BY DEF ElementParsed
<1> HIDE DEF nodes
<1>2. g.fn = "array"
  BY <1>1, TopStands DEF IsFrame
<1>3. g.pc = "separator"
  BY <1>1, TopStands DEF IsFrame
<1> HIDE DEF g
<1>4. Settled(stack', ctl')
  BY <1>1, <1>2, <1>3, GoesOnSettled DEF Fresh, Quiet
<1> QED
  BY <1>1, <1>4, ReturnedLines

\* A key that is there twice is reported on the line that is at hand.
LEMMA FieldParsedLines ==
  ASSUME Inv, LineInv, stack # <<>>, FieldParsed
  PROVE  LineInv'
<1> DEFINE keys  == IF flavor = "JSON" THEN Top.keys \cup {Top.key[1]} ELSE Top.keys
           nodes == Append(Top.nodes, Node("field", Append(Top.field, ctl.v)))
           g == [Top EXCEPT !.pc = "separator", !.field = <<>>, !.key = <<>>, !.after_comma = FALSE,
                            !.newline = FALSE, !.inside_equals = FALSE, !.keys = keys, !.nodes = nodes]
           error == [w |-> "duplicate", line |-> line_number]
<1>1. Top.fn = "object" /\ ctl.op = "value" /\ UNCHANGED <<tokens, buffer, line_number>>
  BY DEF FieldParsed
<1>2. ctl' = Throws(error) \/ SetTop(g)
  BY DEF FieldParsed, Fail
<1> HIDE DEF keys, nodes
<1>3. DOMAIN Top = {"fn", "pc", "nodes", "field", "key", "keys", "after_comma",
                    "inside_equals", "newline", "equals"}
  BY <1>1, TopStands DEF IsFrame
<1>4. g.fn = "object" /\ g.pc = "separator"
  BY <1>1, <1>3
<1> HIDE DEF g
<1>5. CASE SetTop(g)
  <2>1. Settled(stack', ctl')
    BY <1>1, <1>4, <1>5, GoesOnSettled DEF Fresh, Quiet
  <2> QED
    BY <1>1, <2>1, ReturnedLines
<1>6. CASE ctl' = Throws(error)
  <2>1. ctl'.op = "throw" /\ ctl'.at.line = line_number
    BY <1>6 DEF Throws
  <2> QED
    BY <1>1, <2>1 DEF LineInv
<1> QED
  BY <1>2, <1>5, <1>6

\* After a value nothing is kept behind the values.
LEMMA ValueParsedLines ==
  ASSUME Inv, LineInv, stack # <<>>, ValueParsed
  PROVE  LineInv'
<1> DEFINE g == AddTo(Top, ctl.v)
<1>1. Top.fn = "values" /\ ctl.op = "value" /\ UNCHANGED <<tokens, buffer, line_number>> /\ SetTop(g)
  BY DEF ValueParsed
<1>2. /\ Stacked(stack) /\ IsSequence(stack) /\ Top = Last(stack) /\ IsFrame(Top)
      /\ Waiting(Top) /\ ctl.v.k # "token"
  BY <1>1, TopStands
<1>3. g.fn = "values" /\ g.pc = "more"
  BY <1>1, <1>2, AddedTo DEF Alike, Waiting
<1>4. g.nodes = Append(Top.nodes, ctl.v)
  <2>1. DOMAIN Top = {"fn", "pc", "nodes"}
    BY <1>1, <1>2 DEF IsFrame
  <2>2. g = [Top EXCEPT !.nodes = Append(Top.nodes, ctl.v)]
    BY <1>1 DEF AddTo
  <2> HIDE DEF g
  <2> QED
    BY <2>1, <2>2
<1> HIDE DEF g
<1>5. Behind(g.nodes) = {}
  BY <1>1, <1>2, <1>4, BehindAdded DEF IsFrame
<1>6. Stacked(Retopped(stack, g)) /\ Last(Retopped(stack, g)) = g
  BY <1>1, <1>2, <1>3, StackedRetopped
<1>7. stack' = Retopped(stack, g) /\ ctl'.op = "run"
  BY <1>1, Outcomes DEF SetTop
<1>8. Standing(stack', ctl') /\ OnLine(g, line_number')
  BY <1>3, <1>5, <1>6, <1>7 DEF Standing, Fit, OnLine
<1>9. NoLines' => Held'
  BY <1>1, LinesKept
<1> QED
  BY <1>6, <1>7, <1>8, <1>9 DEF LineInv

LEMMA LineInit == Init => LineInv
<1> SUFFICES ASSUME Init
             PROVE  LineInv
  OBVIOUS
<1>1. PICK fn \in Entries : stack = <<DocumentFrame(fn, "first")>>
  BY DEF Init
<1>2. fn # "values" /\ fn # "object"
  BY EntriesAssumption
<1> DEFINE f == DocumentFrame(fn, "first")
<1>3. f.fn = fn
  BY DEF DocumentFrame
<1> HIDE DEF f
<1>4. Len(stack) = 1 /\ stack[1] = f /\ Last(stack) = f /\ ctl.op = "run"
  BY <1>1, Outcomes DEF Last, Init, f
<1>5. Fit(f) /\ OnLine(f, line_number)
  BY <1>2, <1>3 DEF Fit, OnLine
<1>6. Stacked(stack)
  <2>1. 2 .. 1 = {}
    OBVIOUS
  <2> QED
    BY <1>4, <2>1 DEF Stacked
<1>7. Held
  <2>1. line_number = 1 /\ tokens = <<>> /\ buffer = <<>> /\ Len(<<>>) = 0 /\ DOMAIN <<>> = {}
    BY EmptyIsSequence DEF Init
  <2>2. LineEnds = {} /\ Cardinality({}) = 0
    BY <2>1, FS_EmptySet DEF LineEnds
  <2>3. ~NewlineIsPutBack /\ 1 .. Len(buffer) = {} /\ 2 .. Len(buffer) = {}
    BY <2>1 DEF NewlineIsPutBack
  <2> QED
    BY <2>1, <2>2, <2>3 DEF Held, NextLineIs
<1> QED
  BY <1>4, <1>5, <1>6, <1>7 DEF LineInv, Standing

\* Every step keeps the lines.
LEMMA LineNext == Inv /\ LineInv /\ [Next]_vars => LineInv'
<1> SUFFICES ASSUME Inv, LineInv, [Next]_vars
             PROVE  LineInv'
  OBVIOUS
<1>1. CASE Collect
  BY <1>1, CollectLines
<1>2. CASE NotJson
  BY <1>2, NotInJsonLines
<1>3. CASE Root
  BY <1>3, RootLines
<1>4. CASE Trailing \/ SingleEnds
  BY <1>4, TrailingLines
<1>5. CASE Single
  BY <1>5, SingleLines
<1>6. CASE Member
  BY <1>6, MemberLines
<1>7. CASE Key
  BY <1>7, KeyLines
<1>8. CASE Separator
  BY <1>8, SeparatorLines
<1>9. CASE FieldValue
  BY <1>9, FieldValueLines
<1>10. CASE CloseObject \/ CloseArray
  BY <1>10, CloseLines
<1>11. CASE Include
  BY <1>11, IncludeLines
<1>12. CASE SeparatorLayout
  BY <1>12, SeparatorLayoutLines
<1>13. CASE ElementSeparator
  BY <1>13, ElementSeparatorLines
<1>14. CASE Element
  BY <1>14, ElementLines
<1>15. CASE Value
  BY <1>15, ValueLines
<1>16. CASE Between
  BY <1>16, BetweenLines
<1>17. CASE Consolidated
  BY <1>17, ConsolidatedLines
<1>18. CASE stack # <<>> /\ (RootParsed \/ SingleParsed \/ FieldParsed \/ ElementParsed \/ ValueParsed)
  BY <1>18, RootParsedLines, SingleParsedLines, FieldParsedLines, ElementParsedLines, ValueParsedLines
<1>19. CASE UNCHANGED vars
  <2>1. UNCHANGED <<tokens, buffer, stack, ctl, line_number>>
    BY <1>19 DEF vars
  <2>2. (NoLines' <=> NoLines) /\ (Held' <=> Held)
    BY <2>1 DEF NoLines, Held, NextLineIs, NewlineIsPutBack, LineEnds
  <2> QED
    BY <2>1, <2>2 DEF LineInv
<1> QED
  BY <1>1, <1>2, <1>3, <1>4, <1>5, <1>6, <1>7, <1>8, <1>9, <1>10, <1>11, <1>12, <1>13, <1>14, <1>15,
     <1>16, <1>17, <1>18, <1>19 DEF Next

\* An error that is reported is on the line of the token it is about, in every
\* text without strings of several lines, though the parser reads ahead over the ends
\* of lines and puts back what it read (put_back, next_token_collecting_whitespace,
\* check_element_separator, parse_key, consolidate_values).
THEOREM ErrorsAreLocated == Spec => []ErrorsAreOnTheirLine
<1>1. Spec => []LineInv
  BY InvInit, InvNext, LineInit, LineNext, PTL DEF Spec
<1>2. Inv /\ LineInv => ErrorsAreOnTheirLine
  <2> SUFFICES ASSUME Inv, LineInv, ctl.op = "throw", \A i \in DOMAIN tokens : tokens[i].w # "lines"
               PROVE  line_number = ctl.at.line
    BY DEF ErrorsAreOnTheirLine
  <2>1. DOMAIN tokens = 1 .. Len(tokens)
    BY DEF Inv, IsSequence
  <2>2. NoLines
    BY <2>1 DEF NoLines
  <2> QED
    BY <2>2 DEF LineInv
<1> QED
  BY <1>1, <1>2, ParserInvariant, PTL
=============================================================================
