-------------------------- MODULE DocumentTextProofs --------------------------
(***************************************************************************)
(* What is proved of the nodes of a document: they hold the tokens of the  *)
(* text, each once and in its order, however deep they are nested, but for *)
(* the parenthesis that ends an include.                                   *)
(***************************************************************************)
EXTENDS DocumentParserProofs

-----------------------------------------------------------------------------
(***************************************************************************)
(* The text of nodes and of frames.                                        *)
(***************************************************************************)
IsNodes(ns) == IsSequence(ns) /\ \A i \in 1 .. Len(ns) : IsSequence(ns[i].text)
IsTree(n)   == IsSequence(n.text) /\ (n.k = "root" => IsNodes(n.kids) /\ n.text = TextOf(n.kids))

\* consolidate_values has layout between values only, one token of it.
IsLayout(n)     == n.k = "token" => n.text = <<n.t>> /\ n.t.w = "ignored"
AreValues(ns)   == /\ \A i \in 1 .. Len(ns) : IsTree(ns[i]) /\ IsLayout(ns[i])
                   /\ \A i \in 2 .. Len(ns) : ~(ns[i - 1].k = "token" /\ ns[i].k = "token")

\* A function is at its field only between its key and its value.
HasField(f) == f.pc \in {"after_key", "value"}
Holds(f) ==
  /\ IsNodes(f.nodes)
  /\ f.fn = "object" => /\ IsNodes(f.field) /\ (~HasField(f) => f.field = <<>>)
                        /\ f.pc = "key" => IsSequence(f.key)
  /\ f.fn = "values" => AreValues(f.nodes)

\* Only the function at the top may be at a key.
AtKey(f) == f.fn = "object" /\ f.pc = "key"
NoKey(s) == s # <<>> => ~AtKey(Last(s))
Full(s)  == IsSequence(s) /\ \A i \in 1 .. Len(s) : Holds(s[i]) /\ (i # Len(s) => ~AtKey(s[i]))

\* g has the text of f, and x behind it.
Gains(f, g, x) == Holds(g) /\ FrameText(g) = FrameText(f) \o x

Total(s, c) == StackText(s) \o IF c.op = "value" THEN c.v.text ELSE <<>>

\* The texts of nodes.
LEMMA Parts ==
  ASSUME NEW ns, IsNodes(ns)
  PROVE  /\ AreSequences([i \in DOMAIN ns |-> ns[i].text])
         /\ Len([i \in DOMAIN ns |-> ns[i].text]) = Len(ns)
         /\ DOMAIN ns = 1 .. Len(ns) /\ Len(ns) \in Nat
         /\ IsSequence(TextOf(ns))
<1> DEFINE ss == [i \in DOMAIN ns |-> ns[i].text]
<1>1. Len(ns) \in Nat /\ DOMAIN ns = 1 .. Len(ns)
  BY DEF IsNodes, IsSequence
<1>2. ss = [i \in 1 .. Len(ns) |-> ss[i]] /\ \A i \in 1 .. Len(ns) : ss[i] = ns[i].text
  BY <1>1
<1> HIDE DEF ss
<1>3. IsSequence(ss) /\ Len(ss) = Len(ns)
  BY <1>1, <1>2, FunctionIsSequence
<1>4. AreSequences(ss)
  BY <1>2, <1>3 DEF AreSequences, IsNodes
<1>5. IsSequence(FlattenSeq(ss))
  BY <1>4, FlattenedIsSequence
<1> QED
  BY <1>1, <1>3, <1>4, <1>5 DEF TextOf, ss

\* No nodes have no text.
LEMMA NoParts == IsNodes(<<>>) /\ TextOf(<<>>) = <<>> /\ IsSequence(<<>>)
<1>1. IsSequence(<<>>) /\ Len(<<>>) = 0 /\ DOMAIN <<>> = {} /\ 1 .. 0 = {}
  BY EmptyIsSequence
<1>2. IsNodes(<<>>)
  BY <1>1 DEF IsNodes
<1>3. AreSequences([i \in DOMAIN <<>> |-> <<>>[i].text]) /\ Len([i \in DOMAIN <<>> |-> <<>>[i].text]) = Len(<<>>)
  BY <1>2, Parts
<1>4. [i \in DOMAIN <<>> |-> <<>>[i].text] = <<>>
  BY <1>1, <1>3, NoElements DEF AreSequences
<1> QED
  BY <1>1, <1>2, <1>4, FlattenedNothing DEF TextOf

\* One more node.
LEMMA PartAdded ==
  ASSUME NEW ns, IsNodes(ns), NEW n, IsSequence(n.text)
  PROVE  IsNodes(Append(ns, n)) /\ TextOf(Append(ns, n)) = TextOf(ns) \o n.text
<1> DEFINE ss == [i \in DOMAIN ns |-> ns[i].text]
           more == Append(ns, n)
           tt == [i \in DOMAIN more |-> more[i].text]
<1>1. AreSequences(ss) /\ Len(ss) = Len(ns) /\ Len(ns) \in Nat /\ DOMAIN ns = 1 .. Len(ns)
  BY Parts
<1>2. /\ IsSequence(more) /\ Len(more) = Len(ns) + 1 /\ more[Len(ns) + 1] = n
      /\ \A i \in 1 .. Len(ns) : more[i] = ns[i]
  BY Pushing DEF IsNodes
<1> HIDE DEF more
<1>3. IsNodes(more)
  <2> SUFFICES ASSUME NEW i \in 1 .. Len(ns) + 1
               PROVE  IsSequence(more[i].text)
    BY <1>2 DEF IsNodes
  <2>1. CASE i = Len(ns) + 1
    BY <1>2, <2>1
  <2>2. CASE i \in 1 .. Len(ns)
    BY <1>2, <2>2 DEF IsNodes
  <2> QED
    BY <1>1, <2>1, <2>2
<1>4. AreSequences(tt) /\ Len(tt) = Len(ns) + 1 /\ DOMAIN more = 1 .. Len(ns) + 1
  BY <1>2, <1>3, Parts
<1>5. tt[Len(ns) + 1] = n.text /\ \A i \in 1 .. Len(ns) : tt[i] = ss[i]
  BY <1>1, <1>2, <1>4
<1> HIDE DEF ss, tt
<1>6. FlattenSeq(tt) = FlattenSeq(ss) \o n.text
  BY <1>1, <1>4, <1>5, FlattenedLonger DEF AreSequences
<1> QED
  BY <1>3, <1>6 DEF TextOf, ss, tt, more

\* The nodes of both.
LEMMA PartsJoined ==
  ASSUME NEW ns, NEW ms, IsNodes(ns), IsNodes(ms)
  PROVE  IsNodes(ns \o ms) /\ TextOf(ns \o ms) = TextOf(ns) \o TextOf(ms)
<1> DEFINE ss == [i \in DOMAIN ns |-> ns[i].text]
           tt == [i \in DOMAIN ms |-> ms[i].text]
           more == ns \o ms
           uu == [i \in DOMAIN more |-> more[i].text]
<1>1. AreSequences(ss) /\ Len(ss) = Len(ns) /\ Len(ns) \in Nat /\ DOMAIN ns = 1 .. Len(ns)
  BY Parts
<1>2. AreSequences(tt) /\ Len(tt) = Len(ms) /\ Len(ms) \in Nat /\ DOMAIN ms = 1 .. Len(ms)
  BY Parts
<1>3. /\ IsSequence(more) /\ Len(more) = Len(ns) + Len(ms)
      /\ \A i \in 1 .. Len(ns) : more[i] = ns[i]
      /\ \A i \in 1 .. Len(ms) : more[Len(ns) + i] = ms[i]
  BY Joining DEF IsNodes
<1> HIDE DEF more
<1>4. IsNodes(more)
  <2> SUFFICES ASSUME NEW i \in 1 .. Len(ns) + Len(ms)
               PROVE  IsSequence(more[i].text)
    BY <1>3 DEF IsNodes
  <2>1. CASE i \in 1 .. Len(ns)
    BY <1>3, <2>1 DEF IsNodes
  <2>2. CASE i \notin 1 .. Len(ns)
    <3>1. i - Len(ns) \in 1 .. Len(ms) /\ Len(ns) + (i - Len(ns)) = i
      BY <1>1, <1>2, <2>2
    <3> QED
      BY <1>3, <3>1 DEF IsNodes
  <2> QED
    BY <2>1, <2>2
<1>5. AreSequences(uu) /\ Len(uu) = Len(ns) + Len(ms) /\ DOMAIN more = 1 .. Len(ns) + Len(ms)
  BY <1>3, <1>4, Parts
<1>6. \A i \in 1 .. Len(ns) : uu[i] = ss[i]
  BY <1>1, <1>2, <1>3, <1>5
<1>7. \A i \in 1 .. Len(ms) : uu[Len(ns) + i] = tt[i]
  <2> SUFFICES ASSUME NEW i \in 1 .. Len(ms)
               PROVE  uu[Len(ns) + i] = tt[i]
    OBVIOUS
  <2>1. Len(ns) + i \in 1 .. Len(ns) + Len(ms)
    BY <1>1, <1>2
  <2> QED
    BY <1>2, <1>3, <1>5, <2>1
<1> HIDE DEF ss, tt, uu
<1>8. uu = ss \o tt
  BY <1>1, <1>2, <1>5, <1>6, <1>7, SameParts DEF AreSequences
<1>9. FlattenSeq(uu) = FlattenSeq(ss) \o FlattenSeq(tt)
  BY <1>1, <1>2, <1>8, FlattenedJoin
<1> QED
  BY <1>4, <1>9 DEF TextOf, ss, tt, uu, more

\* A token is a node with itself as text; a node has the text of its children.
LEMMA Leaves ==
  ASSUME NEW k, k # "root", NEW t
  PROVE  IsTree(Leaf(k, t)) /\ Leaf(k, t).text = <<t>> /\ Leaf(k, t).k = k /\ Leaf(k, t).t = t
<1>1. IsSequence(<<t>>)
  BY DEF IsSequence
<1> QED
  BY <1>1 DEF Leaf, IsTree

LEMMA Nodes ==
  ASSUME NEW k, NEW kids, IsNodes(kids)
  PROVE  IsTree(Node(k, kids)) /\ Node(k, kids).text = TextOf(kids)
BY Parts DEF Node, IsTree

-----------------------------------------------------------------------------
(* The text of the stack.                                                  *)

LEMMA FrameIsText ==
  ASSUME NEW f, Holds(f)
  PROVE  IsSequence(FrameText(f))
<1>1. IsSequence(TextOf(f.nodes)) /\ IsSequence(<<>>)
  BY Parts, NoParts DEF Holds
<1>2. f.fn = "object" => IsSequence(TextOf(f.field)) /\ IsSequence(IF f.pc = "key" THEN f.key ELSE <<>>)
  BY <1>1, Parts DEF Holds
<1>3. f.fn = "object" => IsSequence(TextOf(f.field) \o (IF f.pc = "key" THEN f.key ELSE <<>>))
  BY <1>2, Joining
<1> QED
  BY <1>1, <1>3, Joining DEF FrameText

LEMMA Frames ==
  ASSUME NEW s, Full(s)
  PROVE  /\ AreSequences([i \in DOMAIN s |-> FrameText(s[i])])
         /\ Len([i \in DOMAIN s |-> FrameText(s[i])]) = Len(s)
         /\ DOMAIN s = 1 .. Len(s) /\ Len(s) \in Nat
         /\ IsSequence(StackText(s))
<1> DEFINE ss == [i \in DOMAIN s |-> FrameText(s[i])]
<1>1. Len(s) \in Nat /\ DOMAIN s = 1 .. Len(s)
  BY DEF Full, IsSequence
<1>2. ss = [i \in 1 .. Len(s) |-> ss[i]] /\ \A i \in 1 .. Len(s) : ss[i] = FrameText(s[i])
  BY <1>1
<1> HIDE DEF ss
<1>3. IsSequence(ss) /\ Len(ss) = Len(s)
  BY <1>1, <1>2, FunctionIsSequence
<1>4. AreSequences(ss)
  BY <1>2, <1>3, FrameIsText DEF AreSequences, Full
<1>5. IsSequence(FlattenSeq(ss))
  BY <1>4, FlattenedIsSequence
<1> QED
  BY <1>1, <1>3, <1>4, <1>5 DEF StackText, ss

LEMMA NoFrames == Full(<<>>) /\ StackText(<<>>) = <<>>
<1>1. IsSequence(<<>>) /\ Len(<<>>) = 0 /\ DOMAIN <<>> = {} /\ 1 .. 0 = {}
  BY EmptyIsSequence
<1>2. Full(<<>>)
  BY <1>1 DEF Full
<1>3. [i \in DOMAIN <<>> |-> FrameText(<<>>[i])] = <<>>
  BY <1>1, <1>2, Frames, NoElements DEF AreSequences
<1> QED
  BY <1>2, <1>3, FlattenedNothing DEF StackText

\* A function is called.
LEMMA TextPushed ==
  ASSUME NEW s, Full(s), NoKey(s), NEW f, Holds(f)
  PROVE  Full(Append(s, f)) /\ StackText(Append(s, f)) = StackText(s) \o FrameText(f)
<1> DEFINE ss == [i \in DOMAIN s |-> FrameText(s[i])]
           more == Append(s, f)
           tt == [i \in DOMAIN more |-> FrameText(more[i])]
<1>1. AreSequences(ss) /\ Len(ss) = Len(s) /\ Len(s) \in Nat /\ DOMAIN s = 1 .. Len(s)
  BY Frames
<1>2. /\ IsSequence(more) /\ Len(more) = Len(s) + 1 /\ more[Len(s) + 1] = f
      /\ \A i \in 1 .. Len(s) : more[i] = s[i]
  BY Pushing DEF Full
<1> HIDE DEF more
<1>3. Full(more)
  <2> SUFFICES ASSUME NEW i \in 1 .. Len(s) + 1
               PROVE  Holds(more[i]) /\ (i # Len(s) + 1 => ~AtKey(more[i]))
    BY <1>2 DEF Full
  <2>1. CASE i = Len(s) + 1
    BY <1>2, <2>1
  <2>2. CASE i \in 1 .. Len(s)
    <3>1. Len(s) # 0 /\ s # <<>>
      BY <1>1, <2>2, EmptyIsSequence
    <3>2. ~AtKey(s[Len(s)])
      BY <3>1 DEF NoKey, Last
    <3> QED
      BY <1>2, <2>2, <3>2 DEF Full
  <2> QED
    BY <1>1, <2>1, <2>2
<1>4. AreSequences(tt) /\ Len(tt) = Len(s) + 1 /\ DOMAIN more = 1 .. Len(s) + 1
  BY <1>2, <1>3, Frames
<1>5. tt[Len(s) + 1] = FrameText(f) /\ \A i \in 1 .. Len(s) : tt[i] = ss[i]
  BY <1>1, <1>2, <1>4
<1>6. IsSequence(FrameText(f))
  BY FrameIsText
<1> HIDE DEF ss, tt
<1>7. FlattenSeq(tt) = FlattenSeq(ss) \o FrameText(f)
  BY <1>1, <1>4, <1>5, <1>6, FlattenedLonger DEF AreSequences
<1> QED
  BY <1>3, <1>7 DEF StackText, ss, tt, more

\* The function at the top, and those below it.
LEMMA TextApart ==
  ASSUME NEW s, Full(s), s # <<>>
  PROVE  /\ Full(Popped(s)) /\ Holds(Last(s)) /\ s = Append(Popped(s), Last(s)) /\ NoKey(Popped(s))
         /\ StackText(s) = StackText(Popped(s)) \o FrameText(Last(s))
<1>1. /\ Len(s) \in Nat \ {0} /\ IsSequence(Popped(s)) /\ Len(Popped(s)) = Len(s) - 1
      /\ \A i \in 1 .. Len(s) - 1 : Popped(s)[i] = s[i]
  BY Popping DEF Full
<1>2. Full(Popped(s)) /\ Holds(Last(s)) /\ NoKey(Popped(s))
  <2>1. \A i \in 1 .. Len(s) - 1 : i \in 1 .. Len(s) /\ i # Len(s)
    BY <1>1
  <2>2. Len(s) \in 1 .. Len(s)
    BY <1>1
  <2>3. Full(Popped(s)) /\ Holds(Last(s))
    BY <1>1, <2>1, <2>2 DEF Full, Last
  <2>4. ASSUME Popped(s) # <<>>
        PROVE  ~AtKey(Last(Popped(s)))
    <3>1. Len(Popped(s)) # 0
      BY <1>1, <2>4, NoElements
    <3>2. Len(s) - 1 \in 1 .. Len(s) - 1
      BY <1>1, <3>1
    <3>3. Last(Popped(s)) = s[Len(s) - 1]
      BY <1>1, <3>2 DEF Last
    <3> QED
      BY <2>1, <3>2, <3>3 DEF Full
  <2> QED
    BY <2>3, <2>4 DEF NoKey
<1>3. s = Append(Popped(s), Last(s))
  <2>1. PICK n \in Nat : Len(s) = n + 1
    <3>1. Len(s) - 1 \in Nat /\ Len(s) = (Len(s) - 1) + 1
      BY <1>1
    <3> QED
      BY <3>1
  <2>2. Len(s) - 1 = n
    BY <2>1
  <2>3. s = Append([i \in 1 .. n |-> s[i]], s[n + 1])
    BY <2>1, LastApart DEF Full
  <2> QED
    BY <2>1, <2>2, <2>3 DEF Popped, Last
<1> QED
  BY <1>2, <1>3, TextPushed

\* The function at the top goes on as g.
LEMMA TextReplaced ==
  ASSUME NEW s, Full(s), s # <<>>, NEW g, Holds(g)
  PROVE  /\ Full(Retopped(s, g)) /\ StackText(Retopped(s, g)) = StackText(Popped(s)) \o FrameText(g)
         /\ Last(Retopped(s, g)) = g /\ Retopped(s, g) # <<>> /\ Popped(Retopped(s, g)) = Popped(s)
<1>1. Full(Popped(s)) /\ NoKey(Popped(s)) /\ Len(s) \in Nat \ {0} /\ DOMAIN s = 1 .. Len(s) /\ Len(Popped(s)) = Len(s) - 1 /\ IsSequence(s)
  BY TextApart, Frames, Popping DEF Full
<1>2. Retopped(s, g) = Append(Popped(s), g)
  <2> DEFINE n == Len(s)
             p == Popped(s)
             t == Retopped(s, g)
             u == Append(p, g)
  <2>1. /\ IsSequence(t) /\ Len(t) = n /\ t[n] = g
        /\ \A i \in 1 .. n - 1 : t[i] = s[i]
    BY <1>1, ChangingTop
  <2>2. IsSequence(p) /\ Len(p) = n - 1 /\ \A i \in 1 .. n - 1 : p[i] = s[i]
    BY <1>1, Popping
  <2>3. n \in Nat \ {0}
    BY <1>1
  <2> HIDE DEF p, n, t
  <2>4. /\ IsSequence(u) /\ Len(u) = Len(p) + 1 /\ u[Len(p) + 1] = g
        /\ \A i \in 1 .. Len(p) : u[i] = p[i]
    BY <2>2, Pushing
  <2>5. Len(p) + 1 = n
    BY <2>2, <2>3
  <2> HIDE DEF u
  <2>6. \A i \in 1 .. n : t[i] = u[i]
    <3> SUFFICES ASSUME NEW i \in 1 .. n
                 PROVE  t[i] = u[i]
      OBVIOUS
    <3>1. CASE i = n
      BY <2>1, <2>4, <2>5, <3>1
    <3>2. CASE i # n
      <4>1. i \in 1 .. n - 1 /\ i \in 1 .. Len(p)
        BY <2>2, <2>3, <3>2
      <4> QED
        BY <2>1, <2>2, <2>4, <4>1
    <3> QED
      BY <3>1, <3>2
  <2>7. t = u
    BY <2>1, <2>4, <2>5, <2>6, SameElements
  <2> QED
    BY <2>7 DEF t, u, p
<1>3. Full(Retopped(s, g)) /\ StackText(Retopped(s, g)) = StackText(Popped(s)) \o FrameText(g)
  BY <1>1, <1>2, TextPushed
<1>4. /\ Append(Popped(s), g) # <<>> /\ Last(Append(Popped(s), g)) = g
      /\ Popped(Append(Popped(s), g)) = Popped(s)
  <2> DEFINE p == Popped(s)
             u == Append(p, g)
  <2>1. IsSequence(p) /\ Len(p) \in Nat
    BY <1>1 DEF Full, IsSequence
  <2> HIDE DEF p
  <2>2. /\ u # <<>> /\ u[Len(u)] = g /\ Len(u) = Len(p) + 1 /\ IsSequence(u)
        /\ \A i \in 1 .. Len(p) : u[i] = p[i]
    BY <2>1, PushedIsLast, Pushing
  <2> HIDE DEF u
  <2>3. /\ IsSequence(Popped(u)) /\ Len(Popped(u)) = Len(u) - 1 /\ \A i \in 1 .. Len(u) - 1 : Popped(u)[i] = u[i]
    BY <2>2, Popping
  <2>4. Len(u) - 1 = Len(p)
    BY <2>1, <2>2
  <2>5. Popped(u) = p
    BY <2>1, <2>2, <2>3, <2>4, SameElements
  <2> QED
    BY <2>2, <2>5 DEF Last, u, p
<1> QED
  BY <1>2, <1>3, <1>4

\* The function at the top goes on with more text.
LEMMA TextGained ==
  ASSUME NEW s, Full(s), s # <<>>, NEW g, NEW x, IsSequence(x), Gains(Last(s), g, x)
  PROVE  /\ Full(Retopped(s, g)) /\ StackText(Retopped(s, g)) = StackText(s) \o x
         /\ Last(Retopped(s, g)) = g /\ Retopped(s, g) # <<>>
<1>1. Holds(g) /\ FrameText(g) = FrameText(Last(s)) \o x
  BY DEF Gains
<1>2. /\ Full(Retopped(s, g)) /\ StackText(Retopped(s, g)) = StackText(Popped(s)) \o FrameText(g)
      /\ Last(Retopped(s, g)) = g /\ Retopped(s, g) # <<>>
  BY <1>1, TextReplaced
<1>3. /\ IsSequence(StackText(Popped(s))) /\ IsSequence(FrameText(Last(s)))
      /\ StackText(s) = StackText(Popped(s)) \o FrameText(Last(s))
  BY TextApart, Frames, FrameIsText
<1> DEFINE below == StackText(Popped(s))
           text  == FrameText(Last(s))
<1> HIDE DEF below, text
<1>4. (below \o text) \o x = below \o (text \o x)
  BY <1>3, JoiningThree DEF below, text
<1>5. StackText(Retopped(s, g)) = StackText(s) \o x
  BY <1>1, <1>2, <1>3, <1>4 DEF below, text
<1> QED
  BY <1>1, <1>2, <1>5

-----------------------------------------------------------------------------
(***************************************************************************)
(* What was read and is not put back: the first of the tokens.             *)
(***************************************************************************)
ReadUpTo == Len(tokens) - Len(buffer)

Segment ==
  /\ \A i \in 1 .. Len(tokens) : tokens[i].id = i
  /\ \A i \in 2 .. Len(tokens) : ~(tokens[i - 1].w = "ignored" /\ tokens[i].w = "ignored")
  /\ Len(buffer) <= Len(tokens)
  /\ \A i \in 1 .. Len(buffer) : buffer[i] = tokens[Len(tokens) - i + 1]

\* c are the first n of ts, in their order, but for those that get no node.
NoNode(t, s, z) == t \in z \/ (s = <<>> /\ t.w = "end")
InOrder(c, ts, n, s, z) ==
  /\ IsSequence(c)
  /\ \A i, j \in 1 .. Len(c) : i < j => c[i].id < c[j].id
  /\ \A i \in 1 .. Len(c) : \E j \in 1 .. n : c[i] = ts[j]
  /\ \A j \in 1 .. n : NoNode(ts[j], s, z) \/ \E i \in 1 .. Len(c) : c[i] = ts[j]

Numbered(ts, n) == \A i \in 1 .. n : ts[i].id = i

\* A token more is in the nodes.
LEMMA OneMore ==
  ASSUME NEW n \in Nat, NEW c, NEW ts, NEW s, NEW z, InOrder(c, ts, n, s, z), s # <<>>, NEW us, Numbered(us, n + 1),
         \A i \in 1 .. n : us[i] = ts[i], NEW t, us[n + 1] = t, NEW s2, NEW z2, z \subseteq z2
  PROVE  InOrder(c \o <<t>>, us, n + 1, s2, z2)
<1> DEFINE d == c \o <<t>>
<1>1. IsSequence(c) /\ Len(c) \in Nat /\ IsSequence(<<t>>) /\ Len(<<t>>) = 1 /\ <<t>>[1] = t
  BY JoiningOne DEF InOrder, IsSequence
<1>2. IsSequence(d) /\ Len(d) = Len(c) + 1 /\ (\A i \in 1 .. Len(c) : d[i] = c[i]) /\ d[Len(c) + 1] = t
  <2>1. /\ IsSequence(d) /\ Len(d) = Len(c) + Len(<<t>>) /\ \A i \in 1 .. Len(c) : d[i] = c[i]
        /\ \A i \in 1 .. Len(<<t>>) : d[Len(c) + i] = <<t>>[i]
    BY <1>1, Joining
  <2> HIDE DEF d
  <2>2. 1 \in 1 .. Len(<<t>>)
    BY <1>1
  <2>3. d[Len(c) + 1] = t
    BY <1>1, <2>1, <2>2
  <2> QED
    BY <1>1, <2>1, <2>3
<1> HIDE DEF d
<1>3. t.id = n + 1 /\ n + 1 \in 1 .. n + 1
  BY DEF Numbered
<1>4. \A i \in 1 .. Len(c) : \E j \in 1 .. n : c[i] = us[j] /\ c[i].id = j
  <2> SUFFICES ASSUME NEW i \in 1 .. Len(c)
               PROVE  \E j \in 1 .. n : c[i] = us[j] /\ c[i].id = j
    OBVIOUS
  <2>1. PICK j \in 1 .. n : c[i] = ts[j]
    BY DEF InOrder
  <2>2. us[j] = ts[j] /\ us[j].id = j
    BY DEF Numbered
  <2> QED
    BY <2>1, <2>2
<1>5. \A i \in 1 .. Len(d) : i \in 1 .. Len(c) \/ i = Len(c) + 1
  BY <1>1, <1>2
<1>6. \A i, j \in 1 .. Len(d) : i < j => d[i].id < d[j].id
  <2> SUFFICES ASSUME NEW i \in 1 .. Len(d), NEW j \in 1 .. Len(d), i < j
               PROVE  d[i].id < d[j].id
    OBVIOUS
  <2>1. i \in 1 .. Len(c) /\ d[i] = c[i]
    BY <1>1, <1>2, <1>5
  <2>2. CASE j \in 1 .. Len(c)
    BY <1>2, <2>1, <2>2 DEF InOrder
  <2>3. CASE j = Len(c) + 1
    <3>1. PICK m \in 1 .. n : c[i].id = m
      BY <1>4, <2>1
    <3>2. d[j].id = n + 1 /\ d[i].id = m
      BY <1>2, <1>3, <2>1, <2>3, <3>1
    <3> QED
      BY <3>2
  <2> QED
    BY <1>5, <2>2, <2>3
<1>7. \A i \in 1 .. Len(d) : \E j \in 1 .. n + 1 : d[i] = us[j]
  <2> SUFFICES ASSUME NEW i \in 1 .. Len(d)
               PROVE  \E j \in 1 .. n + 1 : d[i] = us[j]
    OBVIOUS
  <2>1. CASE i \in 1 .. Len(c)
    <3>1. PICK j \in 1 .. n : c[i] = us[j]
      BY <1>4, <2>1
    <3>2. j \in 1 .. n + 1
      OBVIOUS
    <3> QED
      BY <1>2, <2>1, <3>1, <3>2
  <2>2. CASE i = Len(c) + 1
    BY <1>2, <1>3, <2>2
  <2> QED
    BY <1>5, <2>1, <2>2
<1>8. \A j \in 1 .. n + 1 : NoNode(us[j], s2, z2) \/ \E i \in 1 .. Len(d) : d[i] = us[j]
  <2> SUFFICES ASSUME NEW j \in 1 .. n + 1
               PROVE  NoNode(us[j], s2, z2) \/ \E i \in 1 .. Len(d) : d[i] = us[j]
    OBVIOUS
  <2>1. CASE j \in 1 .. n
    <3>1. us[j] = ts[j] /\ (NoNode(ts[j], s, z) \/ \E i \in 1 .. Len(c) : c[i] = ts[j])
      BY <2>1 DEF InOrder
    <3>2. CASE NoNode(ts[j], s, z)
      BY <3>1, <3>2 DEF NoNode
    <3>3. CASE \E i \in 1 .. Len(c) : c[i] = ts[j]
      <4>1. PICK i \in 1 .. Len(c) : c[i] = ts[j]
        BY <3>3
      <4>2. i \in 1 .. Len(d) /\ d[i] = us[j]
        BY <1>1, <1>2, <3>1, <4>1
      <4> QED
        BY <4>2
    <3> QED
      BY <3>1, <3>2, <3>3
  <2>2. CASE j = n + 1
    <3>1. Len(c) + 1 \in 1 .. Len(d)
      BY <1>1, <1>2
    <3> QED
      BY <1>2, <2>2, <3>1
  <2> QED
    BY <2>1, <2>2
<1> QED
  BY <1>2, <1>6, <1>7, <1>8 DEF InOrder, d

\* Nothing more is read, or what gets no node.
LEMMA NoneMore ==
  ASSUME NEW n \in Nat, NEW m \in Nat, n <= m, NEW c, NEW ts, NEW s, NEW z, InOrder(c, ts, n, s, z), s # <<>>, NEW us,
         \A i \in 1 .. n : us[i] = ts[i], NEW s2, NEW z2, z \subseteq z2,
         \A i \in n + 1 .. m : NoNode(us[i], s2, z2)
  PROVE  InOrder(c, us, m, s2, z2)
<1>1. ASSUME NEW i \in 1 .. Len(c)
      PROVE  \E j \in 1 .. m : c[i] = us[j]
  <2>1. PICK j \in 1 .. n : c[i] = ts[j]
    BY DEF InOrder
  <2>2. j \in 1 .. m
    OBVIOUS
  <2> QED
    BY <2>1, <2>2
<1>2. ASSUME NEW j \in 1 .. m
      PROVE  NoNode(us[j], s2, z2) \/ \E i \in 1 .. Len(c) : c[i] = us[j]
  <2>1. CASE j \in 1 .. n
    <3>1. us[j] = ts[j] /\ (NoNode(ts[j], s, z) \/ \E i \in 1 .. Len(c) : c[i] = ts[j])
      BY <2>1 DEF InOrder
    <3>2. NoNode(ts[j], s, z) => NoNode(us[j], s2, z2)
      BY <3>1 DEF NoNode
    <3> QED
      BY <3>1, <3>2
  <2>2. CASE j \in n + 1 .. m
    BY <2>2
  <2> QED
    BY <2>1, <2>2
<1> QED
  BY <1>1, <1>2 DEF InOrder

\* The last token is given back.
LEMMA OneLess ==
  ASSUME NEW n \in Nat \ {0}, NEW c, NEW ts, NEW s, NEW z, InOrder(c, ts, n, s, z), s # <<>>, Numbered(ts, n), NEW us,
         \A i \in 1 .. n : us[i] = ts[i], NEW d, IsSequence(d), c = d \o <<ts[n]>>, NEW s2, NEW z2, z \subseteq z2
  PROVE  InOrder(d, us, n - 1, s2, z2)
<1> DEFINE t == ts[n]
<1>1. Len(d) \in Nat /\ IsSequence(<<t>>) /\ Len(<<t>>) = 1 /\ <<t>>[1] = t /\ n \in 1 .. n /\ t.id = n
  <2>1. IsSequence(<<t>>) /\ Len(<<t>>) = 1 /\ <<t>>[1] = t
    BY JoiningOne
  <2>2. n \in 1 .. n
    OBVIOUS
  <2> QED
    BY <2>1, <2>2 DEF IsSequence, Numbered
<1>2. Len(c) = Len(d) + 1 /\ (\A i \in 1 .. Len(d) : c[i] = d[i]) /\ c[Len(d) + 1] = t
  <2>1. /\ Len(c) = Len(d) + Len(<<t>>) /\ \A i \in 1 .. Len(d) : c[i] = d[i]
        /\ \A i \in 1 .. Len(<<t>>) : c[Len(d) + i] = <<t>>[i]
    BY <1>1, Joining
  <2>2. 1 \in 1 .. Len(<<t>>)
    BY <1>1
  <2>3. c[Len(d) + 1] = t
    BY <1>1, <2>1, <2>2
  <2> QED
    BY <1>1, <2>1, <2>3
<1> HIDE DEF t
<1>3. \A i \in 1 .. Len(d) : i \in 1 .. Len(c) /\ Len(d) + 1 \in 1 .. Len(c) /\ i < Len(d) + 1
  BY <1>1, <1>2
<1>4. \A i, j \in 1 .. Len(d) : i < j => d[i].id < d[j].id
  BY <1>2, <1>3 DEF InOrder
<1>5. ASSUME NEW i \in 1 .. Len(d)
      PROVE  \E j \in 1 .. n - 1 : d[i] = us[j]
  <2>1. PICK j \in 1 .. n : c[i] = ts[j]
    BY <1>3 DEF InOrder
  <2>2. c[i].id = j
    BY <2>1 DEF Numbered
  <2>3. c[i].id < c[Len(d) + 1].id
    BY <1>3 DEF InOrder
  <2>4. j < n
    BY <1>1, <1>2, <2>2, <2>3
  <2>5. j \in 1 .. n - 1
    BY <2>4
  <2> QED
    BY <1>2, <2>1, <2>5
<1>6. ASSUME NEW j \in 1 .. n - 1
      PROVE  NoNode(us[j], s2, z2) \/ \E i \in 1 .. Len(d) : d[i] = us[j]
  <2>1. j \in 1 .. n /\ us[j] = ts[j] /\ ts[j].id = j /\ j # n
    BY DEF Numbered
  <2>2. NoNode(ts[j], s, z) \/ \E i \in 1 .. Len(c) : c[i] = ts[j]
    BY <2>1 DEF InOrder
  <2>3. CASE NoNode(ts[j], s, z)
    BY <2>1, <2>3 DEF NoNode
  <2>4. CASE \E i \in 1 .. Len(c) : c[i] = ts[j]
    <3>1. PICK i \in 1 .. Len(c) : c[i] = ts[j]
      BY <2>4
    <3>2. c[i].id = j
      BY <2>1, <3>1
    <3>3. i # Len(d) + 1
      BY <1>1, <1>2, <2>1, <3>2
    <3>4. i \in 1 .. Len(d)
      BY <1>1, <1>2, <3>3
    <3> QED
      BY <1>2, <2>1, <3>1, <3>4
  <2> QED
    BY <2>2, <2>3, <2>4
<1> QED
  BY <1>4, <1>5, <1>6 DEF InOrder

\* A token is taken, and it and those before it are put back.
LEMMA TextTaken ==
  ASSUME Inv, Segment, NEW t \in Available, NEW back, IsSequence(back), Takes(t, back), Len(back) <= ReadUpTo + 1,
         \A i \in 1 .. Len(back) : back[i] = IF i = 1 THEN t ELSE tokens[ReadUpTo + 2 - i]
  PROVE  /\ Segment' /\ ReadUpTo \in Nat /\ ReadUpTo' = ReadUpTo + 1 - Len(back)
         /\ \A i \in 1 .. ReadUpTo : tokens'[i] = tokens[i]
         /\ tokens'[ReadUpTo + 1] = t /\ Numbered(tokens', ReadUpTo + 1) /\ Numbered(tokens, ReadUpTo)
         /\ ReadUpTo # 0 /\ t.w = "ignored" => tokens[ReadUpTo].w # "ignored"
<1> DEFINE n == Len(tokens)
           m == Len(back)
           r == ReadUpTo
<1>1. /\ n \in Nat /\ m \in Nat /\ Len(buffer) \in Nat /\ r \in Nat /\ r = n - Len(buffer)
      /\ Len(buffer) <= n /\ IsSequence(tokens) /\ DOMAIN tokens = 1 .. n
  BY DEF Inv, IsSequence, Segment, ReadUpTo
<1>2. PICK k \in Nat :
        /\ Len(buffer') = k + m
        /\ \A i \in 1 .. k : buffer'[i] = buffer[i]
        /\ \A i \in 1 .. m : buffer'[k + i] = back[i]
        /\ \/ buffer = <<>> /\ Len(buffer) = 0 /\ k = 0 /\ t \in Following /\ tokens' = Append(tokens, t)
           \/ buffer # <<>> /\ Len(buffer) = k + 1 /\ t = buffer[k + 1] /\ tokens' = tokens
  BY Buffered
<1> DEFINE us == tokens'
           n2 == Len(tokens')
<1> HIDE DEF n, r, us, n2
<1>3. CASE buffer = <<>> /\ Len(buffer) = 0 /\ k = 0 /\ t \in Following /\ tokens' = Append(tokens, t)
  <2>1. r = n
    BY <1>1, <1>3
  <2>2. n2 = n + 1 /\ us[n + 1] = t /\ \A i \in 1 .. n : us[i] = tokens[i]
    BY <1>1, <1>3, Pushing DEF n, us, n2
  <2>3. t.id = n + 1 /\ CanFollow(Words, t.w)
    BY <1>3 DEF Following, n
  <2>4. n # 0 /\ t.w = "ignored" => tokens[n].w # "ignored"
    <3> SUFFICES ASSUME n # 0, t.w = "ignored"
                 PROVE  tokens[n].w # "ignored"
      OBVIOUS
    <3>1. n \in 1 .. n
      BY <1>1
    <3>2. Words = [i \in 1 .. n |-> tokens[i].w]
      BY <1>1 DEF Words
    <3>3. IsSequence(Words) /\ Len(Words) = n /\ Words[n] = tokens[n].w
      <4>1. Words = [i \in 1 .. n |-> Words[i]] /\ Words[n] = tokens[n].w
        BY <3>1, <3>2
      <4> QED
        BY <1>1, <4>1, FunctionIsSequence
    <3>4. Words # <<>>
      BY <3>3, EmptyIsSequence
    <3> QED
      BY <2>3, <3>3, <3>4 DEF CanFollow
  <2>5. \A i \in 1 .. n + 1 : i \in 1 .. n \/ i = n + 1
    BY <1>1
  <2>6. \A i \in 1 .. n2 : us[i].id = i
    BY <2>2, <2>3, <2>5 DEF Segment, n
  <2>7. \A i \in 2 .. n2 : ~(us[i - 1].w = "ignored" /\ us[i].w = "ignored")
    <3> SUFFICES ASSUME NEW i \in 2 .. n2
                 PROVE  ~(us[i - 1].w = "ignored" /\ us[i].w = "ignored")
      OBVIOUS
    <3>1. CASE i = n + 1
      <4>1. i - 1 = n /\ n \in 1 .. n /\ n # 0
        BY <1>1, <3>1
      <4> QED
        BY <2>2, <2>4, <3>1, <4>1
    <3>2. CASE i # n + 1
      <4>1. i \in 2 .. n /\ i \in 1 .. n /\ i - 1 \in 1 .. n
        BY <1>1, <2>2, <3>2
      <4> QED
        BY <2>2, <4>1 DEF Segment, n
    <3> QED
      BY <3>1, <3>2
  <2>8. m <= n + 1 /\ Len(buffer') = m
    BY <1>1, <1>2, <1>3, <2>1 DEF r
  <2>9. \A i \in 1 .. m : buffer'[i] = us[n2 - i + 1]
    <3> SUFFICES ASSUME NEW i \in 1 .. m
                 PROVE  buffer'[i] = us[n2 - i + 1]
      OBVIOUS
    <3>1. buffer'[i] = back[i]
      BY <1>1, <1>2, <1>3
    <3>2. n2 - i + 1 = n + 2 - i
      BY <1>1, <2>2
    <3>3. CASE i = 1
      <4>1. n2 - i + 1 = n + 1
        BY <1>1, <3>2, <3>3
      <4> QED
        BY <2>2, <3>1, <3>3, <4>1
    <3>4. CASE i # 1
      <4>1. n + 2 - i \in 1 .. n
        BY <1>1, <2>8, <3>4
      <4>2. back[i] = tokens[n + 2 - i]
        BY <2>1, <3>4 DEF r
      <4> QED
        BY <2>2, <3>1, <3>2, <4>1, <4>2
    <3> QED
      BY <3>3, <3>4
  <2>10. Segment'
    BY <1>1, <2>2, <2>6, <2>7, <2>8, <2>9 DEF Segment, us, n2
  <2>11. ReadUpTo' = r + 1 - m
    BY <1>1, <2>1, <2>2, <2>8 DEF ReadUpTo, n2
  <2>12. Numbered(us, r + 1) /\ Numbered(tokens, r)
    BY <2>1, <2>2, <2>6 DEF Numbered, Segment, n
  <2> QED
    BY <1>1, <2>1, <2>2, <2>4, <2>10, <2>11, <2>12 DEF us, r
<1>4. CASE buffer # <<>> /\ Len(buffer) = k + 1 /\ t = buffer[k + 1] /\ tokens' = tokens
  <2>1. r = n - k - 1 /\ n2 = n /\ us = tokens /\ r + 1 \in 1 .. n
    BY <1>1, <1>4 DEF n, us, n2
  <2>2. t = tokens[r + 1]
    <3>1. k + 1 \in 1 .. Len(buffer) /\ n - (k + 1) + 1 = r + 1
      BY <1>1, <1>4, <2>1
    <3> QED
      BY <1>4, <3>1 DEF Segment, n
  <2>3. Len(buffer') <= n
    BY <1>1, <1>2, <2>1 DEF r
  <2>4. \A i \in 1 .. Len(buffer') : buffer'[i] = tokens[n - i + 1]
    <3> SUFFICES ASSUME NEW i \in 1 .. Len(buffer')
                 PROVE  buffer'[i] = tokens[n - i + 1]
      OBVIOUS
    <3>1. CASE i \in 1 .. k
      <4>1. i \in 1 .. Len(buffer)
        BY <1>4, <3>1
      <4> QED
        BY <1>2, <3>1, <4>1 DEF Segment, n
    <3>2. CASE i \notin 1 .. k
      <4>1. i - k \in 1 .. m /\ k + (i - k) = i
        BY <1>1, <1>2, <3>2
      <4>2. buffer'[i] = back[i - k]
        BY <1>2, <4>1
      <4>3. CASE i - k = 1
        <5>1. n - i + 1 = r + 1
          BY <1>1, <2>1, <4>3
        <5> QED
          BY <2>2, <4>1, <4>2, <4>3, <5>1
      <4>4. CASE i - k # 1
        <5>1. n - i + 1 = r + 2 - (i - k)
          <6>1. n \in Int /\ k \in Int /\ i \in Int
            BY <1>1, <1>2
          <6>2. \A a, b, c \in Int : a - c + 1 = (a - b - 1) + 2 - (c - b)
            OBVIOUS
          <6>3. n - i + 1 = (n - k - 1) + 2 - (i - k)
            BY <6>1, <6>2
          <6> QED
            BY <2>1, <6>3
        <5>2. back[i - k] = tokens[r + 2 - (i - k)]
          BY <4>1, <4>4 DEF r
        <5> QED
          BY <4>2, <5>1, <5>2
      <4> QED
        BY <4>3, <4>4
    <3> QED
      BY <3>1, <3>2
  <2>5. Segment'
    BY <1>1, <2>1, <2>3, <2>4 DEF Segment, us, n2, n
  <2>6. ReadUpTo' = r + 1 - m
    <3>1. Len(tokens') = n /\ Len(buffer') = k + m
      BY <1>2, <2>1 DEF n2
    <3>2. n - (k + m) = r + 1 - m
      <4>1. n \in Nat /\ m \in Nat /\ k \in Nat /\ r = n - k - 1
        BY <1>1, <2>1
      <4> HIDE DEF m
      <4> QED
        BY <4>1
    <3>3. ReadUpTo' = Len(tokens') - Len(buffer')
      BY DEF ReadUpTo
    <3> QED
      BY <3>1, <3>2, <3>3
  <2>7. \A i \in 1 .. n : tokens[i].id = i
    BY DEF Segment, n
  <2>8. Numbered(us, r + 1) /\ Numbered(tokens, r)
    <3>1. \A i \in 1 .. r + 1 : i \in 1 .. n
      BY <1>1, <2>1
    <3>2. \A i \in 1 .. r : i \in 1 .. n
      BY <1>1, <2>1
    <3> QED
      BY <2>1, <2>7, <3>1, <3>2 DEF Numbered
  <2>9. r # 0 /\ t.w = "ignored" => tokens[r].w # "ignored"
    <3> SUFFICES ASSUME r # 0, t.w = "ignored"
                 PROVE  tokens[r].w # "ignored"
      OBVIOUS
    <3>1. r + 1 \in 2 .. n /\ (r + 1) - 1 = r
      BY <1>1, <2>1
    <3>2. ~(tokens[(r + 1) - 1].w = "ignored" /\ tokens[r + 1].w = "ignored")
      BY <3>1 DEF Segment, n
    <3> QED
      BY <2>2, <3>1, <3>2
  <2> QED
    BY <1>1, <2>1, <2>2, <2>5, <2>6, <2>8, <2>9 DEF us, r
<1> QED
  BY <1>2, <1>3, <1>4

-----------------------------------------------------------------------------
(***************************************************************************)
(* The invariant, and what a step has to show.                             *)
(***************************************************************************)
\* The values in progress do not end with layout, or with that token.
Loose(f)       == f.fn = "values" /\ f.nodes # <<>> => Last(f.nodes).k # "token"
EndsWith(f, t) == Loose(f) \/ Last(f.nodes).t = t

Sound(s, c) == Full(s) /\ (c.op = "value" => IsTree(c.v) /\ NoKey(s))

TextInv ==
  ctl.op \in {"run", "value"} =>
    /\ Segment /\ Sound(stack, ctl)
    /\ ctl.op = "run" => Loose(Last(stack)) \/ (ReadUpTo # 0 /\ EndsWith(Last(stack), tokens[ReadUpTo]))
    /\ InOrder(Total(stack, ctl), tokens, ReadUpTo, stack, closed)

LEMMA TotalOf ==
  ASSUME NEW s, NEW c, Sound(s, c)
  PROVE  /\ c.op = "value" => Total(s, c) = StackText(s) \o c.v.text /\ IsSequence(c.v.text)
         /\ c.op # "value" => Total(s, c) = StackText(s)
         /\ IsSequence(Total(s, c)) /\ IsSequence(StackText(s))
<1>1. IsSequence(StackText(s))
  BY Frames DEF Sound
<1>2. c.op = "value" => Total(s, c) = StackText(s) \o c.v.text /\ IsSequence(c.v.text)
  BY DEF Sound, Total, IsTree
<1>3. c.op # "value" => Total(s, c) = StackText(s) \o <<>>
  BY DEF Total
<1>4. StackText(s) \o <<>> = StackText(s)
  BY <1>1, JoiningNothing
<1>5. IsSequence(Total(s, c))
  <2>1. CASE c.op = "value"
    <3>1. IsSequence(StackText(s) \o c.v.text)
      BY <1>1, <1>2, <2>1, Joining
    <3> QED
      BY <1>2, <2>1, <3>1
  <2>2. CASE c.op # "value"
    BY <1>1, <1>3, <1>4, <2>2
  <2> QED
    BY <2>1, <2>2
<1> QED
  BY <1>1, <1>2, <1>3, <1>4, <1>5

LEMMA TextFacts ==
  ASSUME Inv, TextInv, ctl.op \in {"run", "value"}
  PROVE  /\ Segment /\ Sound(stack, ctl) /\ Full(stack) /\ IsSequence(StackText(stack))
         /\ InOrder(Total(stack, ctl), tokens, ReadUpTo, stack, closed)
         /\ ctl.op = "run" => Total(stack, ctl) = StackText(stack) /\ stack # <<>>
         /\ ReadUpTo \in Nat /\ Numbered(tokens, ReadUpTo)
<1>1. Segment /\ Sound(stack, ctl) /\ InOrder(Total(stack, ctl), tokens, ReadUpTo, stack, closed)
  BY DEF TextInv
<1>2. Len(tokens) \in Nat /\ Len(buffer) \in Nat /\ Len(buffer) <= Len(tokens)
  BY <1>1 DEF Inv, IsSequence, Segment
<1>3. ReadUpTo \in Nat
  BY <1>2 DEF ReadUpTo
<1>4. Numbered(tokens, ReadUpTo)
  <2>1. \A i \in 1 .. ReadUpTo : i \in 1 .. Len(tokens)
    BY <1>2, <1>3 DEF ReadUpTo
  <2> QED
    BY <1>1, <2>1 DEF Numbered, Segment
<1>5. ctl.op = "run" => stack # <<>>
  BY DEF Inv
<1>6. Full(stack)
  BY <1>1 DEF Sound
<1>7. IsSequence(StackText(stack)) /\ (ctl.op = "run" => Total(stack, ctl) = StackText(stack))
  BY <1>1, TotalOf
<1> QED
  BY <1>1, <1>3, <1>4, <1>5, <1>6, <1>7

\* A token is taken: it is in a node now, or gets none.
LEMMA ReadsOne ==
  ASSUME Inv, TextInv, closed \subseteq closed', ctl.op = "run", NEW t \in Available, Takes(t, <<>>),
         ctl'.op \in {"run", "value"} =>
           /\ Sound(stack', ctl') /\ (ctl'.op = "run" => EndsWith(Last(stack'), t))
           /\ \/ Total(stack', ctl') = StackText(stack) \o <<t>>
              \/ Total(stack', ctl') = StackText(stack) /\ NoNode(t, stack', closed')
  PROVE  TextInv'
<1> SUFFICES ASSUME ctl'.op \in {"run", "value"}
             PROVE  TextInv'
  BY DEF TextInv
<1>1. /\ Segment /\ stack # <<>> /\ ReadUpTo \in Nat
      /\ InOrder(StackText(stack), tokens, ReadUpTo, stack, closed)
  BY TextFacts
<1>2. IsSequence(<<>>) /\ Len(<<>>) = 0 /\ Len(<<>>) <= ReadUpTo + 1
  BY <1>1, EmptyIsSequence
<1>3. /\ Segment' /\ ReadUpTo' = ReadUpTo + 1 - Len(<<>>)
      /\ \A i \in 1 .. ReadUpTo : tokens'[i] = tokens[i]
      /\ tokens'[ReadUpTo + 1] = t /\ Numbered(tokens', ReadUpTo + 1)
  <2>1. PICK back : back = <<>>
    OBVIOUS
  <2>2. \A i \in 1 .. Len(back) : back[i] = IF i = 1 THEN t ELSE tokens[ReadUpTo + 2 - i]
    BY <1>2, <2>1
  <2> QED
    BY <1>1, <1>2, <2>1, <2>2, TextTaken
<1>4. ReadUpTo' = ReadUpTo + 1
  BY <1>1, <1>2, <1>3
<1>5. InOrder(Total(stack', ctl'), tokens', ReadUpTo', stack', closed')
  <2>1. CASE Total(stack', ctl') = StackText(stack) \o <<t>>
    BY <1>1, <1>3, <1>4, <2>1, OneMore
  <2>2. CASE Total(stack', ctl') = StackText(stack) /\ NoNode(t, stack', closed')
    <3>1. \A i \in ReadUpTo + 1 .. ReadUpTo + 1 : NoNode(tokens'[i], stack', closed')
      BY <1>1, <1>3, <2>2
    <3>2. ReadUpTo + 1 \in Nat /\ ReadUpTo <= ReadUpTo + 1
      BY <1>1
    <3> QED
      BY <1>1, <1>3, <1>4, <2>2, <3>1, <3>2, NoneMore
  <2> QED
    BY <2>1, <2>2
<1>6. ReadUpTo' # 0 /\ tokens'[ReadUpTo'] = t
  BY <1>1, <1>3, <1>4
<1> QED
  BY <1>3, <1>5, <1>6 DEF TextInv

\* A token is taken and put back.
LEMMA GivesBackOne ==
  ASSUME Inv, TextInv, closed \subseteq closed', ctl.op = "run", NEW t \in Available, Takes(t, <<t>>),
         ctl'.op \in {"run", "value"} =>
           /\ Sound(stack', ctl') /\ (ctl'.op = "run" => Loose(Last(stack')))
           /\ Total(stack', ctl') = StackText(stack)
  PROVE  TextInv'
<1> SUFFICES ASSUME ctl'.op \in {"run", "value"}
             PROVE  TextInv'
  BY DEF TextInv
<1>1. /\ Segment /\ stack # <<>> /\ ReadUpTo \in Nat
      /\ InOrder(StackText(stack), tokens, ReadUpTo, stack, closed)
  BY TextFacts
<1>2. IsSequence(<<t>>) /\ Len(<<t>>) = 1 /\ <<t>>[1] = t
  BY EmptyIsSequence, JoiningOne
<1>3. /\ Segment' /\ ReadUpTo' = ReadUpTo + 1 - 1
      /\ \A i \in 1 .. ReadUpTo : tokens'[i] = tokens[i]
  <2>1. PICK back : back = <<t>>
    OBVIOUS
  <2>2. \A i \in 1 .. Len(back) : back[i] = IF i = 1 THEN t ELSE tokens[ReadUpTo + 2 - i]
    BY <1>2, <2>1
  <2>3. Len(back) <= ReadUpTo + 1 /\ Len(back) = 1 /\ Takes(t, back) /\ IsSequence(back)
    BY <1>1, <1>2, <2>1
  <2>4. ReadUpTo' = ReadUpTo + 1 - Len(back)
    BY <1>1, <2>2, <2>3, TextTaken
  <2> QED
    BY <1>1, <2>2, <2>3, <2>4, TextTaken
<1>4. ReadUpTo' = ReadUpTo
  BY <1>1, <1>3
<1>5. InOrder(Total(stack', ctl'), tokens', ReadUpTo', stack', closed')
  <2>1. \A i \in ReadUpTo + 1 .. ReadUpTo : NoNode(tokens'[i], stack', closed')
    BY <1>1
  <2>2. ReadUpTo <= ReadUpTo
    BY <1>1
  <2> QED
    BY <1>1, <1>3, <1>4, <2>1, <2>2, NoneMore
<1> QED
  BY <1>3, <1>5 DEF TextInv

\* A token is taken; it and the one before are put back.
LEMMA GivesBackTwo ==
  ASSUME Inv, TextInv, closed \subseteq closed',
         ctl.op = "run", NEW t \in Available, ReadUpTo # 0, NEW u, u = tokens[ReadUpTo],
         Takes(t, <<t, u>>),
         ctl'.op \in {"run", "value"} =>
           /\ Sound(stack', ctl') /\ (ctl'.op = "run" => Loose(Last(stack')))
           /\ StackText(stack) = Total(stack', ctl') \o <<u>>
  PROVE  TextInv'
<1> SUFFICES ASSUME ctl'.op \in {"run", "value"}
             PROVE  TextInv'
  BY DEF TextInv
<1>1. /\ Segment /\ stack # <<>> /\ ReadUpTo \in Nat /\ Numbered(tokens, ReadUpTo)
      /\ InOrder(StackText(stack), tokens, ReadUpTo, stack, closed)
  BY TextFacts
<1>2. PICK back : back = <<t, u>> /\ IsSequence(back) /\ Len(back) = 2 /\ back[1] = t /\ back[2] = u
  BY DEF IsSequence
<1>3. /\ Segment' /\ ReadUpTo' = ReadUpTo + 1 - Len(back)
      /\ \A i \in 1 .. ReadUpTo : tokens'[i] = tokens[i]
  <2>1. \A i \in 1 .. Len(back) : i = 1 \/ i = 2
    BY <1>2
  <2>2. \A i \in 1 .. Len(back) : back[i] = IF i = 1 THEN t ELSE tokens[ReadUpTo + 2 - i]
    <3>1. ReadUpTo + 2 - 2 = ReadUpTo
      BY <1>1
    <3> QED
      BY <1>2, <2>1, <3>1
  <2>3. Len(back) <= ReadUpTo + 1 /\ Takes(t, back)
    BY <1>1, <1>2
  <2> QED
    BY <1>1, <1>2, <2>2, <2>3, TextTaken
<1>4. ReadUpTo' = ReadUpTo - 1 /\ ReadUpTo \in Nat \ {0}
  BY <1>1, <1>2, <1>3
<1>5. IsSequence(Total(stack', ctl'))
  BY TotalOf
<1>6. InOrder(Total(stack', ctl'), tokens', ReadUpTo', stack', closed')
  <2> DEFINE c  == StackText(stack)
             d  == Total(stack', ctl')
             s  == stack
             z  == closed
             z2 == closed'
  <2>1. ReadUpTo \in Nat \ {0} /\ InOrder(c, tokens, ReadUpTo, s, z) /\ s # <<>> /\ Numbered(tokens, ReadUpTo)
    BY <1>1, <1>4
  <2>2. IsSequence(d) /\ c = d \o <<tokens[ReadUpTo]>> /\ z \subseteq z2
    BY <1>4, <1>5
  <2> HIDE DEF c, d, s, z, z2
  <2>3. InOrder(d, tokens', ReadUpTo - 1, stack', z2)
    BY <1>3, <2>1, <2>2, OneLess
  <2> QED
    BY <1>4, <2>3 DEF d, z2
<1> QED
  BY <1>3, <1>6 DEF TextInv

\* No token is taken.
LEMMA ReadsNothing ==
  ASSUME Inv, TextInv, closed \subseteq closed', ctl.op = "value", stack # <<>>, UNCHANGED <<tokens, buffer>>,
         ctl'.op \in {"run", "value"} =>
           /\ Sound(stack', ctl') /\ (ctl'.op = "run" => Loose(Last(stack')))
           /\ Total(stack', ctl') = Total(stack, ctl)
  PROVE  TextInv'
<1> SUFFICES ASSUME ctl'.op \in {"run", "value"}
             PROVE  TextInv'
  BY DEF TextInv
<1>1. Segment /\ ReadUpTo \in Nat /\ InOrder(Total(stack, ctl), tokens, ReadUpTo, stack, closed)
  BY TextFacts
<1>2. Segment' /\ ReadUpTo' = ReadUpTo
  BY <1>1 DEF Segment, ReadUpTo
<1>3. InOrder(Total(stack', ctl'), tokens', ReadUpTo', stack', closed')
  <2>1. \A i \in ReadUpTo + 1 .. ReadUpTo : NoNode(tokens'[i], stack', closed')
    BY <1>1
  <2>2. ReadUpTo <= ReadUpTo
    BY <1>1
  <2> QED
    BY <1>1, <1>2, <2>1, <2>2, NoneMore
<1> QED
  BY <1>2, <1>3 DEF TextInv

-----------------------------------------------------------------------------
(***************************************************************************)
(* How the text of a frame changes.                                        *)
(***************************************************************************)
\* Apart from a field or a key in progress, the text is that of the nodes.
LEMMA FrameTexts ==
  ASSUME NEW f, Holds(f)
  PROVE  /\ IsSequence(TextOf(f.nodes))
         /\ (f.fn = "object" => ~HasField(f) /\ f.pc # "key") => FrameText(f) = TextOf(f.nodes)
         /\ f.fn = "object" /\ f.pc # "key" =>
              IsSequence(TextOf(f.field)) /\ FrameText(f) = TextOf(f.nodes) \o TextOf(f.field)
         /\ f.fn = "object" /\ f.pc = "key" =>
              IsSequence(f.key) /\ FrameText(f) = TextOf(f.nodes) \o f.key
<1>1. IsSequence(TextOf(f.nodes)) /\ IsSequence(<<>>)
  BY Parts, NoParts DEF Holds
<1>2. TextOf(f.nodes) \o <<>> = TextOf(f.nodes)
  BY <1>1, JoiningNothing
<1>3. CASE f.fn # "object"
  BY <1>1, <1>2, <1>3 DEF FrameText
<1>4. CASE f.fn = "object"
  <2>1. IsSequence(TextOf(f.field)) /\ (~HasField(f) => TextOf(f.field) = <<>>)
    BY <1>4, Parts, NoParts DEF Holds
  <2>2. CASE f.pc = "key"
    <3>1. IsSequence(f.key) /\ TextOf(f.field) = <<>>
      BY <1>4, <2>1, <2>2 DEF Holds, HasField
    <3>2. <<>> \o f.key = f.key
      BY <3>1, JoiningNothing
    <3>3. FrameText(f) = TextOf(f.nodes) \o (TextOf(f.field) \o f.key)
      BY <1>4, <2>2 DEF FrameText
    <3> QED
      BY <1>1, <1>4, <2>2, <3>1, <3>2, <3>3
  <2>3. CASE f.pc # "key"
    <3>1. TextOf(f.field) \o <<>> = TextOf(f.field)
      BY <2>1, JoiningNothing
    <3>2. FrameText(f) = TextOf(f.nodes) \o (TextOf(f.field) \o <<>>)
      BY <1>4, <2>3 DEF FrameText
    <3> QED
      BY <1>1, <1>2, <1>4, <2>1, <2>3, <3>1, <3>2
  <2> QED
    BY <2>2, <2>3
<1> QED
  BY <1>3, <1>4

\* The frame goes on elsewhere with the same nodes.
LEMMA SameText ==
  ASSUME NEW f, Holds(f), NEW g, g.fn = f.fn, g.nodes = f.nodes,
         f.fn = "object" => /\ g.field = f.field /\ (HasField(g) \/ g.field = <<>>)
                            /\ f.pc # "key" /\ g.pc # "key"
  PROVE  Holds(g) /\ FrameText(g) = FrameText(f)
<1>1. Holds(g)
  BY DEF Holds
<1>2. CASE f.fn # "object"
  BY <1>1, <1>2, FrameTexts
<1>3. CASE f.fn = "object"
  BY <1>1, <1>3, FrameTexts
<1> QED
  BY <1>1, <1>2, <1>3

\* The frame goes on elsewhere with a node more.
LEMMA NodeAdded ==
  ASSUME NEW f, Holds(f), NEW n, IsSequence(n.text), NEW g, g.fn = f.fn, g.nodes = Append(f.nodes, n),
         f.fn # "values", f.fn = "object" => ~HasField(f) /\ ~HasField(g) /\ f.pc # "key" /\ g.pc # "key" /\ g.field = <<>>
  PROVE  Gains(f, g, n.text)
<1>1. IsNodes(g.nodes) /\ TextOf(g.nodes) = TextOf(f.nodes) \o n.text
  BY PartAdded DEF Holds
<1>2. Holds(g)
  BY <1>1, NoParts DEF Holds
<1>3. FrameText(f) = TextOf(f.nodes) /\ FrameText(g) = TextOf(g.nodes)
  BY <1>2, FrameTexts
<1> QED
  BY <1>1, <1>2, <1>3 DEF Gains

\* A node is added to the frame where it is.
LEMMA AddedText ==
  ASSUME NEW f, Holds(f), IsFrame(f), NEW n, IsSequence(n.text), f.fn # "values", f.fn = "object" => f.pc # "key"
  PROVE  Gains(f, AddTo(f, n), n.text) /\ AddTo(f, n).fn = f.fn
<1> DEFINE g == AddTo(f, n)
<1>1. CASE f.fn = "object" /\ f.pc \in {"after_key", "value"}
  <2>1. /\ g.fn = f.fn /\ g.pc = f.pc /\ g.nodes = f.nodes /\ g.field = Append(f.field, n)
    BY <1>1 DEF IsFrame, AddTo
  <2> HIDE DEF g
  <2>2. IsNodes(f.field) /\ IsNodes(g.field) /\ TextOf(g.field) = TextOf(f.field) \o n.text
    BY <1>1, <2>1, PartAdded DEF Holds
  <2>3. HasField(g)
    BY <1>1, <2>1 DEF HasField
  <2>4. Holds(g)
    BY <1>1, <2>1, <2>2, <2>3 DEF Holds
  <2>5. /\ FrameText(f) = TextOf(f.nodes) \o TextOf(f.field) /\ IsSequence(TextOf(f.nodes)) /\ IsSequence(TextOf(f.field))
        /\ FrameText(g) = TextOf(f.nodes) \o TextOf(g.field)
    BY <1>1, <2>1, <2>4, FrameTexts
  <2>6. (TextOf(f.nodes) \o TextOf(f.field)) \o n.text = TextOf(f.nodes) \o (TextOf(f.field) \o n.text)
    <3> DEFINE a == TextOf(f.nodes)
               b == TextOf(f.field)
               c == n.text
    <3>1. IsSequence(a) /\ IsSequence(b) /\ IsSequence(c)
      BY <2>5
    <3> HIDE DEF a, b, c
    <3>2. (a \o b) \o c = a \o (b \o c)
      BY <3>1, JoiningThree
    <3> QED
      BY <3>2 DEF a, b, c
  <2> QED
    BY <2>1, <2>2, <2>4, <2>5, <2>6 DEF Gains, g
<1>2. CASE ~(f.fn = "object" /\ f.pc \in {"after_key", "value"})
  <2>1. /\ g.fn = f.fn /\ g.pc = f.pc /\ g.nodes = Append(f.nodes, n)
        /\ f.fn = "object" => g.field = f.field
    BY <1>2 DEF IsFrame, AddTo
  <2> HIDE DEF g
  <2>2. f.fn = "object" => ~HasField(f) /\ ~HasField(g) /\ f.pc # "key" /\ g.pc # "key" /\ g.field = <<>>
    BY <1>2, <2>1 DEF HasField, Holds
  <2>3. Gains(f, g, n.text)
    BY <2>1, <2>2, NodeAdded
  <2> QED
    BY <2>1, <2>3 DEF g
<1> QED
  BY <1>1, <1>2

LEMMA OnePart ==
  ASSUME NEW n, IsSequence(n.text)
  PROVE  IsNodes(<<n>>) /\ TextOf(<<n>>) = n.text
<1>1. IsNodes(Append(<<>>, n)) /\ TextOf(Append(<<>>, n)) = <<>> \o n.text
  BY NoParts, PartAdded
<1>2. <<>> \o n.text = n.text
  BY JoiningNothing
<1>3. Append(<<>>, n) = <<n>>
  OBVIOUS
<1> QED
  BY <1>1, <1>2, <1>3

\* The frames of functions that were just called.
LEMMA NewTexts ==
  ASSUME NEW t
  PROVE  /\ Holds(ObjectFrame(<<Leaf("token", t)>>)) /\ FrameText(ObjectFrame(<<Leaf("token", t)>>)) = <<t>>
         /\ Holds(ObjectFrame(<<>>)) /\ FrameText(ObjectFrame(<<>>)) = <<>>
         /\ Holds(ArrayFrame(t)) /\ FrameText(ArrayFrame(t)) = <<t>>
         /\ Holds(IncludeFrame(t)) /\ FrameText(IncludeFrame(t)) = <<t>>
         /\ Holds(ValuesFrame) /\ FrameText(ValuesFrame) = <<>>
         /\ \A open : Loose(ObjectFrame(open)) /\ ~AtKey(ObjectFrame(open))
         /\ Loose(ArrayFrame(t)) /\ Loose(IncludeFrame(t)) /\ Loose(ValuesFrame)
         /\ ~AtKey(ArrayFrame(t))
<1> DEFINE n == Leaf("token", t)
<1>1. IsSequence(n.text) /\ n.text = <<t>>
  BY Leaves DEF IsTree
<1> HIDE DEF n
<1>2. IsNodes(<<n>>) /\ TextOf(<<n>>) = <<t>>
  BY <1>1, OnePart
<1>3. AreValues(<<>>)
  BY EmptyIsSequence DEF AreValues
<1>4. ASSUME NEW open, IsNodes(open)
      PROVE  Holds(ObjectFrame(open)) /\ FrameText(ObjectFrame(open)) = TextOf(open)
  <2>1. /\ ObjectFrame(open).fn = "object" /\ ObjectFrame(open).pc = "member"
        /\ ObjectFrame(open).nodes = open /\ ObjectFrame(open).field = <<>>
    BY DEF ObjectFrame
  <2>2. Holds(ObjectFrame(open))
    BY <1>4, <2>1, NoParts DEF Holds
  <2> QED
    BY <2>1, <2>2, FrameTexts DEF HasField
<1>5. ASSUME NEW f, f.fn \in {"array", "include"}, f.nodes = <<n>>
      PROVE  Holds(f) /\ FrameText(f) = <<t>> /\ Loose(f)
  <2>1. Holds(f) /\ Loose(f)
    BY <1>2, <1>5 DEF Holds, Loose
  <2> QED
    BY <1>2, <1>5, <2>1, FrameTexts
<1>6. Holds(ValuesFrame) /\ FrameText(ValuesFrame) = <<>> /\ Loose(ValuesFrame)
  <2>1. ValuesFrame.fn = "values" /\ ValuesFrame.nodes = <<>>
    BY DEF ValuesFrame
  <2>2. Holds(ValuesFrame) /\ Loose(ValuesFrame)
    BY <1>3, <2>1, NoParts DEF Holds, Loose
  <2> QED
    BY <2>1, <2>2, FrameTexts, NoParts
<1>7. /\ \A open : Loose(ObjectFrame(open)) /\ ~AtKey(ObjectFrame(open))
      /\ ~AtKey(ArrayFrame(t))
  BY DEF Loose, ObjectFrame, ArrayFrame, AtKey
<1>8. /\ ArrayFrame(t).fn = "array" /\ ArrayFrame(t).nodes = <<n>>
      /\ IncludeFrame(t).fn = "include" /\ IncludeFrame(t).nodes = <<n>>
  BY DEF ArrayFrame, IncludeFrame, n
<1>9. Holds(ArrayFrame(t)) /\ FrameText(ArrayFrame(t)) = <<t>> /\ Loose(ArrayFrame(t))
  BY <1>5, <1>8
<1>10. Holds(IncludeFrame(t)) /\ FrameText(IncludeFrame(t)) = <<t>> /\ Loose(IncludeFrame(t))
  BY <1>5, <1>8
<1>11. Holds(ObjectFrame(<<n>>)) /\ FrameText(ObjectFrame(<<n>>)) = <<t>>
  BY <1>2, <1>4
<1>12. Holds(ObjectFrame(<<>>)) /\ FrameText(ObjectFrame(<<>>)) = <<>>
  BY <1>4, NoParts
<1> QED
  BY <1>6, <1>7, <1>9, <1>10, <1>11, <1>12 DEF n

\* consolidate_values is called, or not.
LEMMA ConsolidatingText ==
  ASSUME NEW s, Full(s), s # <<>>, Loose(Last(s)), NoKey(s)
  PROVE  Full(Consolidating(s)) /\ StackText(Consolidating(s)) = StackText(s) /\ Loose(Last(Consolidating(s)))
<1>1. Holds(ValuesFrame) /\ FrameText(ValuesFrame) = <<>> /\ Loose(ValuesFrame)
  BY NewTexts
<1>2. Full(Append(s, ValuesFrame)) /\ StackText(Append(s, ValuesFrame)) = StackText(s) \o <<>>
  BY <1>1, TextPushed
<1>3. StackText(s) \o <<>> = StackText(s)
  BY Frames, JoiningNothing
<1>4. Last(Append(s, ValuesFrame)) = ValuesFrame
  <2>1. IsSequence(s)
    BY DEF Full
  <2>2. PICK u : u = Append(s, ValuesFrame)
    OBVIOUS
  <2>3. u[Len(u)] = ValuesFrame
    BY <2>1, <2>2, PushedIsLast
  <2> QED
    BY <2>2, <2>3 DEF Last
<1> QED
  BY <1>1, <1>2, <1>3, <1>4 DEF Consolidating

-----------------------------------------------------------------------------
(***************************************************************************)
(* What the actions have in common.                                        *)
(***************************************************************************)
LEMMA PushedFrame ==
  ASSUME NEW s, Full(s), NEW f
  PROVE  Append(s, f) # <<>> /\ Last(Append(s, f)) = f
<1>1. IsSequence(s)
  BY DEF Full
<1>2. PICK u : u = Append(s, f)
  OBVIOUS
<1>3. u # <<>> /\ u[Len(u)] = f
  BY <1>1, <1>2, PushedIsLast
<1> QED
  BY <1>2, <1>3 DEF Last

\* parse_value(t), called with the frames fs, has t: in a new frame or in the value.
LEMMA ParseValueText ==
  ASSUME NEW fs, Full(fs), fs # <<>>, NoKey(fs), NEW t, ParseValue(fs, t), ctl'.op \in {"run", "value"}
  PROVE  /\ Sound(stack', ctl') /\ (ctl'.op = "run" => EndsWith(Last(stack'), t))
         /\ Total(stack', ctl') = StackText(fs) \o <<t>>
<1>0. IsSimple(t.w) => t.w \notin {"open_curly", "open_square"}
  BY NoPathAssumption DEF IsSimple, KeyWords, Strings, Unquoted, Punctuation
<1>1. ASSUME Full(stack'), StackText(stack') = StackText(fs) \o <<t>>, ctl' = Run, Loose(Last(stack'))
      PROVE  /\ Sound(stack', ctl') /\ (ctl'.op = "run" => EndsWith(Last(stack'), t))
             /\ Total(stack', ctl') = StackText(fs) \o <<t>>
  <2>1. ctl'.op = "run"
    BY <1>1, Outcomes
  <2>2. Sound(stack', ctl') /\ EndsWith(Last(stack'), t)
    BY <1>1, <2>1 DEF Sound, EndsWith
  <2>3. Total(stack', ctl') = StackText(stack')
    BY <2>1, <2>2, TotalOf
  <2> QED
    BY <1>1, <2>2, <2>3
<1>2. CASE t.w = "open_curly"
  <2> DEFINE f == ObjectFrame(<<Leaf("token", t)>>)
  <2>1. stack' = Append(fs, f) /\ ctl' = Run
    <3>1. ctl' = Run
      BY <1>0, <1>2 DEF ParseValue
    <3> HIDE DEF f
    <3>2. stack' = Append(fs, f)
      BY <1>2 DEF ParseValue, f
    <3> QED
      BY <3>1, <3>2
  <2>2. Holds(f) /\ FrameText(f) = <<t>> /\ Loose(f)
    BY NewTexts
  <2> HIDE DEF f
  <2>3. Full(stack') /\ StackText(stack') = StackText(fs) \o <<t>> /\ Last(stack') = f
    BY <2>1, <2>2, TextPushed, PushedFrame
  <2> QED
    BY <1>1, <2>1, <2>2, <2>3
<1>3. CASE t.w = "open_square"
  <2> DEFINE f == ArrayFrame(t)
             s == Append(fs, f)
  <2>1. stack' = Consolidating(s) /\ ctl' = Run
    BY <1>0, <1>3 DEF ParseValue
  <2>2. Holds(f) /\ FrameText(f) = <<t>> /\ Loose(f) /\ ~AtKey(f)
    BY NewTexts
  <2> HIDE DEF f
  <2>3. Full(s) /\ StackText(s) = StackText(fs) \o <<t>> /\ Last(s) = f /\ s # <<>> /\ NoKey(s)
    BY <2>2, TextPushed, PushedFrame DEF NoKey
  <2> HIDE DEF s
  <2>4. Full(stack') /\ StackText(stack') = StackText(fs) \o <<t>> /\ Loose(Last(stack'))
    BY <2>1, <2>2, <2>3, ConsolidatingText
  <2> QED
    BY <1>1, <2>1, <2>4
<1>4. CASE t.w \notin {"open_curly", "open_square"}
  <2>1. stack' = fs /\ ctl' = (IF IsSimple(t.w) THEN Returns(Leaf("simple", t)) ELSE Throws(t))
    BY <1>4 DEF ParseValue
  <2>2. ctl' = Returns(Leaf("simple", t))
    BY <2>1, Outcomes
  <2>3. ctl'.op = "value" /\ ctl'.v = Leaf("simple", t)
    BY <2>2 DEF Returns
  <2>4. IsTree(ctl'.v) /\ ctl'.v.text = <<t>>
    <3>1. "simple" # "root"
      OBVIOUS
    <3>2. IsTree(Leaf("simple", t)) /\ Leaf("simple", t).text = <<t>>
      BY <3>1, Leaves
    <3> QED
      BY <2>3, <3>2
  <2>5. Sound(stack', ctl')
    BY <2>1, <2>4 DEF Sound
  <2> QED
    BY <2>1, <2>3, <2>4, <2>5, TotalOf
<1> QED
  BY <1>2, <1>3, <1>4

\* The function at the top goes on, and has the text x more.
LEMMA GoesOnText ==
  ASSUME Full(stack), stack # <<>>, NEW g, NEW x, IsSequence(x), Gains(Top, g, x), SetTop(g)
  PROVE  /\ ctl'.op = "run" /\ Sound(stack', ctl') /\ Last(stack') = g
         /\ Total(stack', ctl') = StackText(stack) \o x
<1>1. stack' = Retopped(stack, g) /\ ctl'.op = "run"
  BY Outcomes DEF SetTop
<1>2. Full(stack') /\ StackText(stack') = StackText(stack) \o x /\ Last(stack') = g
  BY <1>1, TextGained DEF Top
<1>3. Sound(stack', ctl')
  BY <1>1, <1>2 DEF Sound
<1> QED
  BY <1>1, <1>2, <1>3, TotalOf

\* It goes on and has the same text.
LEMMA GoesOnSame ==
  ASSUME Full(stack), stack # <<>>, NEW g, Holds(g), FrameText(g) = FrameText(Top), SetTop(g)
  PROVE  /\ ctl'.op = "run" /\ Sound(stack', ctl') /\ Last(stack') = g
         /\ Total(stack', ctl') = StackText(stack)
<1>1. Holds(Top)
  BY TextApart DEF Top
<1>2. FrameText(Top) \o <<>> = FrameText(Top) /\ StackText(stack) \o <<>> = StackText(stack)
  BY <1>1, FrameIsText, Frames, JoiningNothing
<1>3. Gains(Top, g, <<>>)
  BY <1>2 DEF Gains
<1> QED
  BY <1>2, <1>3, EmptyIsSequence, GoesOnText

\* The function at the top returns a node with its text, and x behind it.
LEMMA ReturnsText ==
  ASSUME Full(stack), stack # <<>>, NEW n, IsTree(n), NEW x, IsSequence(x), n.text = FrameText(Top) \o x,
         stack' = Popped(stack), ctl' = Returns(n)
  PROVE  ctl'.op = "value" /\ Sound(stack', ctl') /\ Total(stack', ctl') = StackText(stack) \o x
<1>1. ctl'.op = "value" /\ ctl'.v = n
  BY DEF Returns
<1>2. Sound(stack', ctl') /\ Holds(Top)
  BY <1>1, TextApart DEF Sound, Top
<1>3. StackText(stack) = StackText(Popped(stack)) \o FrameText(Top)
  BY TextApart DEF Top
<1> DEFINE a == StackText(Popped(stack))
           b == FrameText(Top)
<1>4. IsSequence(a) /\ IsSequence(b)
  BY <1>2, TotalOf, FrameIsText
<1> HIDE DEF a, b
<1>5. (a \o b) \o x = a \o (b \o x)
  BY <1>4, JoiningThree
<1>6. Total(stack', ctl') = a \o n.text
  BY <1>1, <1>2, TotalOf DEF a
<1> QED
  BY <1>1, <1>2, <1>3, <1>5, <1>6 DEF a, b

\* An object or an array is closed, or the root ends.
LEMMA LeavesWith ==
  ASSUME Full(stack), stack # <<>>, Top.fn = "object" => ~HasField(Top) /\ Top.pc # "key",
         NEW k, NEW n, IsSequence(n.text), Leave(Node(k, Append(Top.nodes, n))), ctl'.op = "value"
  PROVE  Sound(stack', ctl') /\ Total(stack', ctl') = StackText(stack) \o n.text
<1> DEFINE kids == Append(Top.nodes, n)
<1>1. Holds(Top) /\ IsNodes(Top.nodes)
  BY TextApart DEF Top, Holds
<1>2. FrameText(Top) = TextOf(Top.nodes)
  BY <1>1, FrameTexts
<1>3. IsNodes(kids) /\ TextOf(kids) = TextOf(Top.nodes) \o n.text
  BY <1>1, PartAdded
<1>4. stack' = Popped(stack) /\ ctl' = Returns(Node(k, kids))
  BY DEF Leave, UnbalancedEquals
<1> HIDE DEF kids
<1>5. IsTree(Node(k, kids)) /\ Node(k, kids).text = TextOf(kids)
  BY <1>3, Nodes
<1> QED
  BY <1>2, <1>3, <1>4, <1>5, ReturnsText

\* The function below the top goes on with more text, the one at the top has none.
LEMMA BelowText ==
  ASSUME NEW s, Full(s), s # <<>>, Popped(s) # <<>>, NEW g, NEW x, IsSequence(x), Gains(Last(Popped(s)), g, x),
         ~AtKey(g), FrameText(Last(s)) = <<>>
  PROVE  LET u == [s EXCEPT ![Len(s) - 1] = g]
         IN  Full(u) /\ StackText(u) = StackText(s) \o x /\ Last(u) = Last(s)
<1> DEFINE n == Len(s)
           p == Popped(s)
           q == Retopped(p, g)
           u == [s EXCEPT ![n - 1] = g]
           f == Last(s)
           v == Append(q, f)
<1>1. /\ Full(p) /\ Holds(f) /\ StackText(s) = StackText(p) \o FrameText(f)
      /\ n \in Nat \ {0} /\ DOMAIN s = 1 .. n /\ IsSequence(p) /\ Len(p) = n - 1 /\ IsSequence(s)
      /\ \A i \in 1 .. n - 1 : p[i] = s[i]
  BY TextApart, Popping DEF Full
<1>0. p # <<>> /\ Gains(Last(p), g, x)
  OBVIOUS
<1> HIDE DEF p, n, f
<1>2. Full(q) /\ StackText(q) = StackText(p) \o x /\ NoKey(q)
  BY <1>0, <1>1, TextGained DEF NoKey
<1>3. /\ IsSequence(q) /\ Len(q) = n - 1 /\ q[n - 1] = g /\ \A i \in 1 .. n - 2 : q[i] = p[i]
  <2>1. /\ IsSequence(q) /\ Len(q) = Len(p) /\ q[Len(p)] = g /\ \A i \in 1 .. Len(p) - 1 : q[i] = p[i]
    BY <1>0, <1>1, ChangingTop
  <2>2. Len(p) - 1 = n - 2 /\ Len(p) = n - 1
    BY <1>1
  <2> HIDE DEF q
  <2> QED
    BY <2>1, <2>2
<1>4. IsSequence(u) /\ Len(u) = n /\ DOMAIN u = 1 .. n
  <2>1. u = [i \in 1 .. n |-> u[i]] /\ n \in Nat
    BY <1>1
  <2> HIDE DEF u
  <2> QED
    BY <2>1, FunctionIsSequence
<1>5. n - 1 \in 1 .. n
  <2>1. Len(p) # 0
    BY <1>0, <1>1, NoElements
  <2> QED
    BY <1>1, <2>1
<1>6. u[n - 1] = g /\ \A i \in 1 .. n : i # n - 1 => u[i] = s[i]
  BY <1>1, <1>5
<1>7. s[n] = f
  BY DEF Last, f, n
<1> HIDE DEF q, u
<1>8. /\ IsSequence(v) /\ Len(v) = n /\ v[n] = f /\ \A i \in 1 .. n - 1 : v[i] = q[i]
  <2>1. /\ IsSequence(v) /\ Len(v) = Len(q) + 1 /\ v[Len(q) + 1] = f /\ \A i \in 1 .. Len(q) : v[i] = q[i]
    BY <1>3, Pushing
  <2>2. Len(q) + 1 = n
    BY <1>1, <1>3
  <2> HIDE DEF v
  <2> QED
    BY <1>3, <2>1, <2>2
<1> HIDE DEF v
<1>9. \A i \in 1 .. n : u[i] = v[i]
  <2> SUFFICES ASSUME NEW i \in 1 .. n
               PROVE  u[i] = v[i]
    OBVIOUS
  <2>1. CASE i = n
    BY <1>1, <1>6, <1>7, <1>8, <2>1
  <2>2. CASE i = n - 1
    BY <1>1, <1>3, <1>5, <1>6, <1>8, <2>2
  <2>3. CASE i # n /\ i # n - 1
    <3>1. i \in 1 .. n - 2 /\ i \in 1 .. n - 1
      BY <1>1, <2>3
    <3> QED
      BY <1>1, <1>3, <1>6, <1>8, <2>3, <3>1
  <2> QED
    BY <2>1, <2>2, <2>3
<1>10. u = v
  BY <1>4, <1>8, <1>9, SameElements
<1>11. Full(v) /\ StackText(v) = StackText(q) \o FrameText(f) /\ Last(v) = f
  BY <1>1, <1>2, TextPushed, PushedFrame DEF v
<1>12. /\ StackText(q) \o <<>> = StackText(q) /\ StackText(p) \o <<>> = StackText(p)
  BY <1>1, <1>2, Frames, JoiningNothing
<1>13. FrameText(f) = <<>>
  BY DEF f
<1>14. Full(u) /\ StackText(u) = StackText(s) \o x /\ Last(u) = f
  BY <1>1, <1>2, <1>10, <1>11, <1>12, <1>13
<1> QED
  BY <1>14 DEF u, n, f

LEMMA TextTop ==
  ASSUME Inv, LineInv, TextInv, ctl.op \in {"run", "value"}, stack # <<>>
  PROVE  /\ Full(stack) /\ Holds(Top) /\ IsFrame(Top) /\ Top = Last(stack) /\ Fit(Top) /\ IsSequence(StackText(stack))
         /\ IsSequence(stack) /\ Stacked(stack) /\ Shape(stack) /\ ctl.op \in {"run", "value"}
         /\ ctl.op = "run" => Total(stack, ctl) = StackText(stack)
         /\ ctl.op = "value" => /\ IsTree(ctl.v) /\ ~AtKey(Top) /\ ctl.v.k # "token" /\ IsSequence(ctl.v.text) /\ Waiting(Top)
                                /\ Total(stack, ctl) = StackText(stack) \o ctl.v.text
<1>1. Full(stack) /\ Sound(stack, ctl)
  BY TextFacts
<1>2. Holds(Top)
  BY <1>1, TextApart DEF Top
<1>3. /\ Top = Last(stack) /\ IsFrame(Top) /\ Fit(Top) /\ IsSequence(stack) /\ Stacked(stack) /\ Good(stack, equals_count)
  BY TopStands, TopFacts
<1>4. ctl.op = "value" => ctl.v.k # "token" /\ Waiting(Top)
  BY TopStands
<1>5. ctl.op = "value" => IsTree(ctl.v) /\ ~AtKey(Top)
  BY <1>1 DEF Sound, NoKey, Top
<1> QED
  BY <1>1, <1>2, <1>3, <1>4, <1>5, TotalOf DEF IsTree, Good

LEMMA TokenTexts ==
  ASSUME NEW t
  PROVE  /\ IsTree(Leaf("token", t)) /\ Leaf("token", t).text = <<t>>
         /\ IsTree(Leaf("simple", t)) /\ Leaf("simple", t).text = <<t>>
         /\ IsTree(Layer(t)) /\ Layer(t).text = <<t>>
         /\ IsSequence(<<t>>)
<1>1. "token" # "root" /\ "simple" # "root" /\ "comment" # "root"
  OBVIOUS
<1>2. \A k : k # "root" => IsTree(Leaf(k, t)) /\ Leaf(k, t).text = <<t>>
  BY Leaves
<1>3. \E k : k # "root" /\ Layer(t) = Leaf(k, t)
  BY <1>1 DEF Layer
<1>4. IsSequence(<<t>>)
  BY <1>1, <1>2 DEF IsTree
<1> QED
  BY <1>1, <1>2, <1>3, <1>4

-----------------------------------------------------------------------------
(* The actions.                                                            *)

\* Layout is added to the list of the function, or of the one below it.
LEMMA CollectText ==
  ASSUME Inv, LineInv, TextInv, closed \subseteq closed', Collect
  PROVE  TextInv'
<1>1. /\ ctl = Run /\ stack # <<>> /\ ctl.op = "run" /\ ctl.op \in {"run", "value"}
      /\ Top.pc \notin {"key", "more"} /\ ctl' = ctl
  BY Outcomes DEF Collect, Collecting
<1>2. PICK t \in Readable : Takes(t, <<>>) /\ stack' = Collected(Layer(t))
  BY DEF Collect
<1>3. t \in Available
  BY Taken
<1> DEFINE n == Layer(t)
<1>4. n.text = <<t>> /\ IsSequence(n.text)
  BY TokenTexts
<1>5. /\ Full(stack) /\ Holds(Top) /\ IsFrame(Top) /\ Top = Last(stack) /\ Fit(Top)
      /\ IsSequence(stack) /\ Stacked(stack) /\ Shape(stack)
  BY <1>1, TextTop
<1> HIDE DEF n
<1>6. Full(stack') /\ StackText(stack') = StackText(stack) \o <<t>> /\ Loose(Last(stack'))
  <2>1. CASE Top.fn # "values"
    <3>1. Gains(Top, AddTo(Top, n), <<t>>) /\ AddTo(Top, n).fn # "values"
      BY <1>1, <1>4, <1>5, <2>1, AddedText
    <3>2. stack' = Retopped(stack, AddTo(Top, n))
      <4>1. stack' = [stack EXCEPT ![Len(stack)] = AddTo(stack[Len(stack)], n)]
        BY <1>2, <2>1 DEF Collected, n
      <4> QED
        BY <1>5, <4>1 DEF Retopped, Last
    <3>3. Loose(AddTo(Top, n))
      BY <3>1 DEF Loose
    <3> QED
      BY <1>1, <1>4, <1>5, <3>1, <3>2, <3>3, TextGained
  <2>2. CASE Top.fn = "values"
    <3> DEFINE m == Len(stack)
               f == stack[m - 1]
    <3>1. Top.pc = "first" /\ Top.nodes = <<>>
      BY <1>1, <1>5, <2>2 DEF Fit
    <3>2. FrameText(Top) = <<>> /\ Loose(Top)
      BY <1>5, <2>2, <3>1, FrameTexts, NoParts DEF Loose
    <3>3. m \in Nat \ {0} /\ m # 1 /\ Top = stack[m]
      <4>1. m \in Nat \ {0}
        BY <1>1, <1>5, Popping
      <4>2. Top = stack[m]
        BY <1>5 DEF Last
      <4>3. m # 1
        BY <1>1, <1>5, <2>2, <4>2 DEF Shape, Roots
      <4> QED
        BY <4>1, <4>2, <4>3
    <3>4. m - 1 \in 1 .. m /\ m \in 2 .. m /\ m - 1 # 0 /\ m - 1 \in 1 .. m - 1
      <4>1. \A k \in Nat \ {0} : k # 1 => k - 1 \in 1 .. k /\ k \in 2 .. k /\ k - 1 # 0 /\ k - 1 \in 1 .. k - 1
        OBVIOUS
      <4> QED
        BY <3>3, <4>1
    <3>5. Quiet(f) /\ IsFrame(f)
      BY <1>5, <2>2, <3>3, <3>4 DEF Stacked, Shape
    <3>6. Popped(stack) # <<>> /\ Last(Popped(stack)) = f /\ Holds(f)
      <4>1. IsSequence(Popped(stack)) /\ Len(Popped(stack)) = m - 1 /\ \A i \in 1 .. m - 1 : Popped(stack)[i] = stack[i]
        BY <1>1, <1>5, Popping
      <4>2. Holds(f)
        BY <1>5, <3>4 DEF Full
      <4> QED
        BY <3>4, <4>1, <4>2, EmptyIsSequence DEF Last
    <3>7. stack' = [stack EXCEPT ![m - 1] = AddTo(f, n)]
      BY <1>2, <2>2 DEF Collected, n
    <3> HIDE DEF f
    <3>8. Gains(f, AddTo(f, n), <<t>>) /\ ~AtKey(AddTo(f, n))
      BY <1>4, <3>5, <3>6, AddedText, AddedTo DEF Quiet, AtKey
    <3> DEFINE g == AddTo(f, n)
    <3> HIDE DEF g
    <3>9. Full(stack') /\ StackText(stack') = StackText(stack) \o <<t>> /\ Last(stack') = Last(stack)
      <4>1. Gains(Last(Popped(stack)), g, <<t>>) /\ FrameText(Last(stack)) = <<>> /\ IsSequence(<<t>>) /\ ~AtKey(g)
        BY <1>4, <1>5, <3>2, <3>6, <3>8 DEF g
      <4> QED
        BY <1>1, <1>5, <3>6, <3>7, <4>1, BelowText DEF g
    <3> QED
      BY <1>5, <3>2, <3>9
  <2> QED
    BY <2>1, <2>2
<1>7. Sound(stack', ctl') /\ ctl'.op = "run"
  BY <1>1, <1>6 DEF Sound
<1>8. Total(stack', ctl') = StackText(stack) \o <<t>> /\ EndsWith(Last(stack'), t)
  BY <1>6, <1>7, TotalOf DEF EndsWith
<1> QED
  BY <1>1, <1>2, <1>3, <1>7, <1>8, ReadsOne

\* Nothing is said once something was thrown.
LEMMA ThrownText == (\E t : ctl' = Throws(t)) => TextInv'
<1> SUFFICES ASSUME NEW t, ctl' = Throws(t)
             PROVE  TextInv'
  OBVIOUS
<1>1. ctl'.op = "throw"
  BY Outcomes
<1> QED
  BY <1>1 DEF TextInv

\* The function at the top goes on elsewhere with the same text, and calls another.
LEMMA RetoppedSame ==
  ASSUME Full(stack), stack # <<>>, NEW g, Holds(g), FrameText(g) = FrameText(Top), NEW fs, fs = Retopped(stack, g)
  PROVE  Full(fs) /\ StackText(fs) = StackText(stack) /\ fs # <<>> /\ Last(fs) = g
<1>1. Full(fs) /\ StackText(fs) = StackText(Popped(stack)) \o FrameText(g) /\ fs # <<>> /\ Last(fs) = g
  BY TextReplaced
<1>2. StackText(stack) = StackText(Popped(stack)) \o FrameText(Top)
  BY TextApart DEF Top
<1> QED
  BY <1>1, <1>2

\* The function at the top goes on at pc, not at a field or a key.
LEMMA MovedText ==
  ASSUME NEW f, IsFrame(f), Holds(f), NEW pc, f.fn # "object"
  PROVE  LET g == [f EXCEPT !.pc = pc] IN Holds(g) /\ FrameText(g) = FrameText(f) /\ g.fn = f.fn /\ g.nodes = f.nodes
<1> DEFINE g == [f EXCEPT !.pc = pc]
<1>1. g.fn = f.fn /\ g.nodes = f.nodes
  BY DEF IsFrame
<1> HIDE DEF g
<1>2. Holds(g) /\ FrameText(g) = FrameText(f)
  BY <1>1, SameText
<1> QED
  BY <1>1, <1>2 DEF g

\* A token is taken and parse_value called, on top of the same text.
LEMMA CallsWithText ==
  ASSUME Inv, TextInv, closed \subseteq closed', ctl.op = "run", NEW t \in Available, Takes(t, <<>>),
         NEW fs, Full(fs), fs # <<>>, NoKey(fs), StackText(fs) = StackText(stack), ParseValue(fs, t)
  PROVE  TextInv'
<1>1. ctl'.op \in {"run", "value"} => /\ Sound(stack', ctl') /\ (ctl'.op = "run" => EndsWith(Last(stack'), t))
                           /\ Total(stack', ctl') = StackText(stack) \o <<t>>
  BY ParseValueText
<1> QED
  BY <1>1, ReadsOne

LEMMA RootText ==
  ASSUME Inv, LineInv, TextInv, closed \subseteq closed', Root
  PROVE  TextInv'
<1> DEFINE root == [Top EXCEPT !.pc = "root"]
           fs == Retopped(stack, root)
<1>1. stack # <<>> /\ ctl = Run /\ ctl.op = "run" /\ ctl.op \in {"run", "value"} /\ Top.fn = "parse"
  BY Outcomes DEF Root, At
<1>2. Full(stack) /\ Holds(Top) /\ IsFrame(Top)
  BY <1>1, TextTop
<1>3. Holds(root) /\ FrameText(root) = FrameText(Top) /\ ~AtKey(root)
  BY <1>1, <1>2, MovedText DEF AtKey
<1> HIDE DEF root
<1>4. Full(fs) /\ StackText(fs) = StackText(stack) /\ fs # <<>> /\ NoKey(fs)
  BY <1>1, <1>2, <1>3, RetoppedSame DEF NoKey
<1>5. PICK t \in Tokens :
        IF t.w \in {"open_curly", "open_square"} THEN GotNext(t, <<>>) /\ ParseValue(fs, t)
        ELSE IF flavor = "JSON" THEN GotNext(t, <<>>) /\ Fail(t)
        ELSE GotNext(t, <<t>>) /\ stack' = Append(fs, ObjectFrame(<<>>)) /\ UNCHANGED ctl
  BY DEF Root, root
<1> HIDE DEF fs
<1>6. t \in Available
  BY Taken
<1>7. CASE t.w \in {"open_curly", "open_square"}
  BY <1>1, <1>4, <1>5, <1>6, <1>7, Taken, CallsWithText
<1>8. CASE t.w \notin {"open_curly", "open_square"} /\ flavor = "JSON"
  BY <1>5, <1>8, ThrownText DEF Fail
<1>9. CASE t.w \notin {"open_curly", "open_square"} /\ flavor # "JSON"
  <2> DEFINE f == ObjectFrame(<<>>)
  <2>1. Takes(t, <<t>>) /\ stack' = Append(fs, f) /\ ctl' = ctl
    BY <1>5, <1>9, Taken
  <2>2. Holds(f) /\ FrameText(f) = <<>> /\ Loose(f)
    BY NewTexts
  <2> HIDE DEF f
  <2>3. Full(stack') /\ StackText(stack') = StackText(fs) \o <<>> /\ Last(stack') = f
    BY <1>4, <2>1, <2>2, TextPushed, PushedFrame
  <2>4. StackText(fs) \o <<>> = StackText(fs)
    BY <1>4, Frames, JoiningNothing
  <2>5. Sound(stack', ctl')
    BY <1>1, <2>1, <2>3 DEF Sound
  <2>6. Total(stack', ctl') = StackText(stack)
    BY <1>1, <1>4, <2>1, <2>3, <2>4, <2>5, TotalOf
  <2> QED
    BY <1>1, <1>6, <2>1, <2>2, <2>3, <2>5, <2>6, GivesBackOne
<1> QED
  BY <1>7, <1>8, <1>9

\* The nodes of the root are the document's, in its place.
LEMMA RootParsedText ==
  ASSUME Inv, LineInv, TextInv, closed \subseteq closed', stack # <<>>, RootParsed
  PROVE  TextInv'
<1> DEFINE more == IF ctl.v.k = "root" THEN ctl.v.kids ELSE <<ctl.v>>
           nodes == Top.nodes \o more
           g == [Top EXCEPT !.pc = "trailing", !.nodes = nodes]
<1>1. ctl.op = "value" /\ ctl.op \in {"run", "value"} /\ Top.fn = "parse" /\ SetTop(g) /\ UNCHANGED <<tokens, buffer>>
  BY DEF RootParsed
<1>2. /\ Full(stack) /\ Holds(Top) /\ IsFrame(Top) /\ IsTree(ctl.v) /\ IsSequence(ctl.v.text)
      /\ Total(stack, ctl) = StackText(stack) \o ctl.v.text
  BY <1>1, TextTop
<1>3. IsNodes(more) /\ TextOf(more) = ctl.v.text
  BY <1>2, OnePart DEF IsTree
<1> HIDE DEF more
<1>4. IsNodes(nodes) /\ TextOf(nodes) = TextOf(Top.nodes) \o ctl.v.text
  BY <1>2, <1>3, PartsJoined DEF Holds
<1> HIDE DEF nodes
<1>5. g.fn = "parse" /\ g.nodes = nodes
  BY <1>1, <1>2 DEF IsFrame
<1> HIDE DEF g
<1>6. Holds(g) /\ Loose(g)
  BY <1>4, <1>5 DEF Holds, Loose
<1>7. Gains(Top, g, ctl.v.text)
  BY <1>1, <1>2, <1>4, <1>5, <1>6, FrameTexts DEF Gains
<1>8. /\ ctl'.op = "run" /\ Sound(stack', ctl') /\ Last(stack') = g
      /\ Total(stack', ctl') = StackText(stack) \o ctl.v.text
  BY <1>1, <1>2, <1>7, GoesOnText
<1> QED
  BY <1>1, <1>2, <1>6, <1>8, ReadsNothing

\* The document ends: its text is all there is, and the end has no node.
LEMMA DocumentText ==
  ASSUME Inv, LineInv, TextInv, closed \subseteq closed', ctl.op = "run", stack # <<>>, Top.fn \in Roots,
         NEW t \in Available, Takes(t, <<>>), t.w = "end",
         NEW k, stack' = <<>>, ctl' = Returns(Node(k, Top.nodes))
  PROVE  TextInv'
<1>1. Full(stack) /\ Holds(Top) /\ Top = Last(stack) /\ IsSequence(stack) /\ Shape(stack)
  BY TextTop
<1>2. Len(stack) = 1
  <2>1. Len(stack) \in Nat \ {0} /\ Top = stack[Len(stack)]
    BY <1>1, Popping DEF Last
  <2>2. Len(stack) \in 1 .. Len(stack)
    BY <2>1
  <2> QED
    BY <1>1, <2>1, <2>2 DEF Shape
<1>3. Popped(stack) = <<>>
  <2>1. IsSequence(Popped(stack)) /\ Len(Popped(stack)) = Len(stack) - 1
    BY <1>1, Popping
  <2>2. Len(Popped(stack)) = 0
    BY <1>2, <2>1
  <2> QED
    BY <2>1, <2>2, NoElements
<1>4. FrameText(Top) = TextOf(Top.nodes)
  BY <1>1, FrameTexts DEF Roots
<1>5. IsTree(Node(k, Top.nodes)) /\ Node(k, Top.nodes).text = TextOf(Top.nodes) /\ IsSequence(TextOf(Top.nodes))
  BY <1>1, Nodes, Parts DEF Holds
<1>6. Node(k, Top.nodes).text = FrameText(Top) \o <<>>
  BY <1>4, <1>5, JoiningNothing
<1>7. stack' = Popped(stack)
  BY <1>3
<1>8. ctl'.op = "value" /\ Sound(stack', ctl') /\ Total(stack', ctl') = StackText(stack) \o <<>>
  BY <1>1, <1>5, <1>6, <1>7, EmptyIsSequence, ReturnsText
<1>9. StackText(stack) \o <<>> = StackText(stack)
  BY <1>1, Frames, JoiningNothing
<1>10. NoNode(t, stack', closed')
  BY DEF NoNode
<1> QED
  BY <1>8, <1>9, <1>10, ReadsOne

LEMMA TrailingText ==
  ASSUME Inv, LineInv, TextInv, closed \subseteq closed', Trailing
  PROVE  TextInv'
<1>1. stack # <<>> /\ ctl.op = "run" /\ Top.fn \in Roots
  BY Outcomes DEF Trailing, At, Roots
<1>2. PICK t \in Tokens :
        GotNext(t, <<>>) /\ IF t.w = "end" THEN stack' = <<>> /\ ctl' = Returns(Node("document", Top.nodes)) ELSE Fail(t)
  BY DEF Trailing
<1>3. t \in Available /\ Takes(t, <<>>)
  BY <1>2, Taken
<1>4. CASE t.w = "end"
  BY <1>1, <1>2, <1>3, <1>4, DocumentText
<1>5. CASE t.w # "end"
  BY <1>2, <1>5, ThrownText DEF Fail
<1> QED
  BY <1>4, <1>5

LEMMA SingleEndsText ==
  ASSUME Inv, LineInv, TextInv, closed \subseteq closed', SingleEnds
  PROVE  TextInv'
<1>1. stack # <<>> /\ ctl.op = "run" /\ Top.fn \in Roots
  BY Outcomes DEF SingleEnds, At, Roots
<1>2. PICK t \in Readable :
        Got(t, <<>>) /\ IF t.w = "end" THEN stack' = <<>> /\ ctl' = Returns(Node("single", Top.nodes)) ELSE Fail(t)
  BY DEF SingleEnds
<1>3. t \in Available /\ Takes(t, <<>>)
  BY <1>2, Taken
<1>4. CASE t.w = "end"
  BY <1>1, <1>2, <1>3, <1>4, DocumentText
<1>5. CASE t.w # "end"
  BY <1>2, <1>5, ThrownText DEF Fail
<1> QED
  BY <1>4, <1>5

LEMMA SingleText ==
  ASSUME Inv, LineInv, TextInv, closed \subseteq closed', Single
  PROVE  TextInv'
<1> DEFINE last == [Top EXCEPT !.pc = "last"]
           fs == Retopped(stack, last)
<1>1. stack # <<>> /\ ctl = Run /\ ctl.op = "run" /\ ctl.op \in {"run", "value"} /\ Top.fn = "parse_single_value"
  BY Outcomes DEF Single, At
<1>2. Full(stack) /\ Holds(Top) /\ IsFrame(Top)
  BY <1>1, TextTop
<1>3. Holds(last) /\ FrameText(last) = FrameText(Top) /\ last.fn = Top.fn
  BY <1>1, <1>2, MovedText
<1>4. PICK t \in Readable :
        IF t.w \in Layout \cup {"end"} THEN Got(t, <<>>) /\ Fail(t)
        ELSE IF flavor = "JSON" THEN Got(t, <<>>) /\ ParseValue(fs, t)
        ELSE Got(t, <<t>>) /\ stack' = Consolidating(fs) /\ UNCHANGED ctl
  BY DEF Single
<1> HIDE DEF last
<1>5. Full(fs) /\ StackText(fs) = StackText(stack) /\ fs # <<>> /\ Last(fs) = last /\ NoKey(fs)
  BY <1>1, <1>2, <1>3, RetoppedSame DEF NoKey, AtKey
<1> HIDE DEF fs
<1>6. t \in Available
  BY Taken
<1>7. CASE t.w \in Layout \cup {"end"}
  BY <1>4, <1>7, ThrownText DEF Fail
<1>8. CASE t.w \notin Layout \cup {"end"} /\ flavor = "JSON"
  BY <1>1, <1>4, <1>5, <1>6, <1>8, Taken, CallsWithText
<1>9. CASE t.w \notin Layout \cup {"end"} /\ flavor # "JSON"
  <2>1. Takes(t, <<t>>) /\ stack' = Consolidating(fs) /\ ctl' = ctl
    BY <1>4, <1>9, Taken
  <2>2. Loose(Last(fs))
    BY <1>1, <1>3, <1>5 DEF Loose
  <2>3. Full(stack') /\ StackText(stack') = StackText(stack) /\ Loose(Last(stack'))
    BY <1>5, <2>1, <2>2, ConsolidatingText
  <2>4. Sound(stack', ctl')
    BY <1>1, <2>1, <2>3 DEF Sound
  <2>5. Total(stack', ctl') = StackText(stack)
    BY <1>1, <2>1, <2>3, <2>4, TotalOf
  <2> QED
    BY <1>1, <1>6, <2>1, <2>3, <2>4, <2>5, GivesBackOne
<1> QED
  BY <1>7, <1>8, <1>9

LEMMA SingleParsedText ==
  ASSUME Inv, LineInv, TextInv, closed \subseteq closed', stack # <<>>, SingleParsed
  PROVE  TextInv'
<1>1. /\ ctl.op = "value" /\ ctl.op \in {"run", "value"} /\ Top.fn = "parse_single_value"
      /\ SetTop(AddTo(Top, ctl.v)) /\ UNCHANGED <<tokens, buffer>>
  BY DEF SingleParsed
<1>2. /\ Full(stack) /\ Holds(Top) /\ IsFrame(Top) /\ IsSequence(ctl.v.text)
      /\ Total(stack, ctl) = StackText(stack) \o ctl.v.text
  BY <1>1, TextTop
<1>3. Gains(Top, AddTo(Top, ctl.v), ctl.v.text) /\ AddTo(Top, ctl.v).fn = Top.fn
  BY <1>1, <1>2, AddedText
<1>4. /\ ctl'.op = "run" /\ Sound(stack', ctl') /\ Last(stack') = AddTo(Top, ctl.v)
      /\ Total(stack', ctl') = StackText(stack) \o ctl.v.text
  BY <1>1, <1>2, <1>3, GoesOnText
<1>5. Loose(Last(stack'))
  BY <1>1, <1>3, <1>4 DEF Loose
<1> QED
  BY <1>1, <1>2, <1>4, <1>5, ReadsNothing

\* Apart from an unbalanced count, a function that is left returns its node.
LEMMA LeaveReturns ==
  ASSUME Inv', NEW n, Leave(n)
  PROVE  stack' = Popped(stack) /\ ctl' = Returns(n) /\ ctl'.op = "value"
<1>1. UnbalancedEquals.op = "bug" /\ Returns(n).op = "value"
  BY Outcomes DEF UnbalancedEquals
<1>2. ctl'.op # "bug"
  BY DEF Inv
<1>3. stack' = Popped(stack) /\ (ctl' = UnbalancedEquals \/ ctl' = Returns(n))
  BY DEF Leave
<1> QED
  BY <1>1, <1>2, <1>3

\* A token is taken that closes an object or an array.
LEMMA ClosedText ==
  ASSUME Inv, Inv', LineInv, TextInv, closed \subseteq closed',
         ctl.op = "run", stack # <<>>, Top.fn = "object" => ~HasField(Top) /\ Top.pc # "key",
         NEW t \in Available, Takes(t, <<>>), NEW k, Leave(Node(k, Append(Top.nodes, Leaf("token", t))))
  PROVE  TextInv'
<1> DEFINE n == Leaf("token", t)
<1>1. Full(stack) /\ n.text = <<t>> /\ IsSequence(n.text)
  BY TextTop, TokenTexts
<1> HIDE DEF n
<1>2. ctl'.op = "value"
  BY LeaveReturns
<1>3. Sound(stack', ctl') /\ Total(stack', ctl') = StackText(stack) \o n.text
  BY <1>1, <1>2, LeavesWith DEF n
<1> QED
  BY <1>1, <1>2, <1>3, ReadsOne

\* The end is read and put back, where the root without braces ends.
LEMMA RootEndsText ==
  ASSUME Inv, Inv', LineInv, TextInv, closed \subseteq closed',
         ctl.op = "run", stack # <<>>, Top.fn = "object" => ~HasField(Top) /\ Top.pc # "key",
         NEW t \in Available, Takes(t, <<t>>), Leave(Node("root", Top.nodes))
  PROVE  TextInv'
<1> DEFINE n == Node("root", Top.nodes)
<1>1. Full(stack) /\ Holds(Top)
  BY TextTop
<1>2. FrameText(Top) = TextOf(Top.nodes) /\ IsSequence(TextOf(Top.nodes))
  BY <1>1, FrameTexts
<1>3. IsTree(n) /\ n.text = TextOf(Top.nodes)
  BY <1>1, Nodes DEF Holds
<1>4. stack' = Popped(stack) /\ ctl' = Returns(n) /\ ctl'.op = "value"
  BY LeaveReturns
<1> HIDE DEF n
<1>5. n.text = FrameText(Top) \o <<>> /\ IsSequence(<<>>)
  BY <1>2, <1>3, JoiningNothing, EmptyIsSequence
<1>6. Sound(stack', ctl') /\ Total(stack', ctl') = StackText(stack) \o <<>>
  BY <1>1, <1>3, <1>4, <1>5, ReturnsText
<1>7. StackText(stack) \o <<>> = StackText(stack)
  BY <1>1, Frames, JoiningNothing
<1> QED
  BY <1>4, <1>6, <1>7, GivesBackOne

\* A token is taken, and the function at the top goes on with it as g.
LEMMA TakenAsText ==
  ASSUME Inv, TextInv, closed \subseteq closed',
         ctl.op = "run", NEW t \in Available, Takes(t, <<>>), NEW g, Gains(Top, g, <<t>>), Loose(g), SetTop(g)
  PROVE  TextInv'
<1>1. Full(stack) /\ stack # <<>> /\ IsSequence(<<t>>)
  BY TextFacts, TokenTexts
<1>2. /\ ctl'.op = "run" /\ Sound(stack', ctl') /\ Last(stack') = g
      /\ Total(stack', ctl') = StackText(stack) \o <<t>>
  BY <1>1, GoesOnText
<1> QED
  BY <1>2, ReadsOne DEF EndsWith

\* A token is taken and put back, and the function at the top goes on as g.
LEMMA PutBackText ==
  ASSUME Inv, TextInv, closed \subseteq closed',
         ctl.op = "run", NEW t \in Available, Takes(t, <<t>>), NEW g, Holds(g),
         FrameText(g) = FrameText(Top), Loose(g), SetTop(g)
  PROVE  TextInv'
<1>1. Full(stack) /\ stack # <<>>
  BY TextFacts
<1>2. /\ ctl'.op = "run" /\ Sound(stack', ctl') /\ Last(stack') = g
      /\ Total(stack', ctl') = StackText(stack)
  BY <1>1, GoesOnSame
<1> QED
  BY <1>2, GivesBackOne

LEMMA ObjectFrames ==
  ASSUME NEW f, IsFrame(f), f.fn = "object"
  PROVE  DOMAIN f = {"fn", "pc", "nodes", "field", "key", "keys", "after_comma", "inside_equals", "newline", "equals"}
BY DEF IsFrame

LEMMA MemberText ==
  ASSUME Inv, Inv', LineInv, TextInv, closed \subseteq closed', Member
  PROVE  TextInv'
<1>1. stack # <<>> /\ ctl = Run /\ ctl.op = "run" /\ ctl.op \in {"run", "value"} /\ Top.fn = "object" /\ Top.pc = "member"
  BY Outcomes DEF Member, At
<1>2. Full(stack) /\ Holds(Top) /\ IsFrame(Top)
  BY <1>1, TextTop
<1>3. ~HasField(Top) /\ Top.pc # "key"
  BY <1>1 DEF HasField
<1>4. FrameText(Top) = TextOf(Top.nodes) /\ IsNodes(Top.nodes) /\ Top.field = <<>>
  BY <1>1, <1>2, <1>3, FrameTexts DEF Holds
<1> DEFINE asKey(t)  == [Top EXCEPT !.pc = "key", !.key = <<t>>]
           asPath(t) == [Top EXCEPT !.pc = "after_key", !.key = <<t.w>>, !.field = <<Node("path", <<Leaf("token", t)>>)>>]
<1>5. PICK t \in Tokens :
        \/ GotNext(t, <<>>) /\ Leave(Node("object", Append(Top.nodes, Leaf("token", t))))
        \/ GotNext(t, <<t>>) /\ Leave(Node("root", Top.nodes))
        \/ GotNext(t, <<>>) /\ stack' = Append(stack, IncludeFrame(t)) /\ UNCHANGED ctl
        \/ GotNext(t, <<>>) /\ SetTop(asPath(t))
        \/ GotNext(t, <<>>) /\ SetTop(asKey(t))
        \/ Fail(t)
  <2>1. PICK t \in Tokens :
         CASE t.w = "close_curly" ->
              /\ GotNext(t, <<>>)
              /\ IF (flavor = "JSON" /\ Top.after_comma) \/ ~HasBraces(Top) THEN Fail(t)
                 ELSE Leave(Node("object", Append(Top.nodes, Leaf("token", t))))
         [] t.w = "end" /\ ~HasBraces(Top) ->
              GotNext(t, <<t>>) /\ Leave(Node("root", Top.nodes))
         [] t.w = "include" /\ flavor # "JSON" ->
              GotNext(t, <<>>) /\ stack' = Append(stack, IncludeFrame(t)) /\ UNCHANGED ctl
         [] OTHER ->
              /\ GotNext(t, <<>>)
              /\ IF flavor = "JSON"
                 THEN IF t.w \in Strings THEN SetTop(asPath(t)) ELSE Fail(t)
                 ELSE IF t.w \in KeyWords THEN SetTop(asKey(t)) ELSE Fail(t)
    BY DEF Member
  <2> DEFINE A == Leave(Node("object", Append(Top.nodes, Leaf("token", t))))
             B == Leave(Node("root", Top.nodes))
             C == stack' = Append(stack, IncludeFrame(t)) /\ UNCHANGED ctl
             D == SetTop(asPath(t))
             E == SetTop(asKey(t))
  <2> HIDE DEF asKey, asPath, A, B, C, D, E
  <2>2. CASE t.w = "close_curly"
    <3>1. GotNext(t, <<>>) /\ (Fail(t) \/ A)
      BY <2>1, <2>2 DEF A
    <3> QED
      BY <3>1 DEF A
  <2>3. CASE t.w = "end" /\ ~HasBraces(Top)
    <3>1. GotNext(t, <<t>>) /\ B
      BY <2>1, <2>3 DEF B
    <3> QED
      BY <3>1 DEF B
  <2>4. CASE t.w = "include" /\ flavor # "JSON"
    <3>1. GotNext(t, <<>>) /\ C
      BY <2>1, <2>4 DEF C
    <3> QED
      BY <3>1 DEF C
  <2>5. CASE t.w # "close_curly" /\ ~(t.w = "end" /\ ~HasBraces(Top)) /\ ~(t.w = "include" /\ flavor # "JSON")
    <3>1. GotNext(t, <<>>) /\ (D \/ E \/ Fail(t))
      BY <2>1, <2>5 DEF D, E
    <3> QED
      BY <3>1 DEF D, E
  <2> QED
    BY <2>2, <2>3, <2>4, <2>5
<1>6. t \in Available
  BY Taken
<1>7. CASE GotNext(t, <<>>) /\ Leave(Node("object", Append(Top.nodes, Leaf("token", t))))
  BY <1>1, <1>3, <1>6, <1>7, Taken, ClosedText
<1>8. CASE GotNext(t, <<t>>) /\ Leave(Node("root", Top.nodes))
  BY <1>1, <1>3, <1>6, <1>8, Taken, RootEndsText
<1>9. CASE GotNext(t, <<>>) /\ stack' = Append(stack, IncludeFrame(t)) /\ UNCHANGED ctl
  <2> DEFINE f == IncludeFrame(t)
  <2>1. Takes(t, <<>>) /\ stack' = Append(stack, f) /\ ctl' = ctl
    BY <1>9, Taken
  <2>2. Holds(f) /\ FrameText(f) = <<t>> /\ Loose(f)
    BY NewTexts
  <2> HIDE DEF f
  <2>3. NoKey(stack)
    BY <1>1 DEF NoKey, AtKey, Top
  <2>4. Full(stack') /\ StackText(stack') = StackText(stack) \o <<t>> /\ Last(stack') = f
    BY <1>2, <2>1, <2>2, <2>3, TextPushed, PushedFrame
  <2>5. Sound(stack', ctl') /\ ctl'.op = "run"
    BY <1>1, <2>1, <2>4 DEF Sound
  <2>6. Total(stack', ctl') = StackText(stack) \o <<t>>
    BY <2>4, <2>5, TotalOf
  <2>7. EndsWith(Last(stack'), t)
    BY <2>2, <2>4 DEF EndsWith
  <2> QED
    BY <1>1, <1>6, <2>1, <2>5, <2>6, <2>7, ReadsOne
<1>10. CASE GotNext(t, <<>>) /\ SetTop(asPath(t))
  <2> DEFINE g == asPath(t)
             field == <<Node("path", <<Leaf("token", t)>>)>>
  <2>1. /\ g.fn = "object" /\ g.pc = "after_key" /\ g.nodes = Top.nodes /\ g.field = field
    BY <1>1, <1>2, ObjectFrames
  <2>2. IsNodes(field) /\ TextOf(field) = <<t>>
    <3> DEFINE n == Leaf("token", t)
    <3>1. IsSequence(n.text) /\ n.text = <<t>>
      BY TokenTexts
    <3> HIDE DEF n
    <3>2. IsNodes(<<n>>) /\ TextOf(<<n>>) = <<t>>
      BY <3>1, OnePart
    <3> DEFINE m == Node("path", <<n>>)
    <3>3. m.text = <<t>> /\ IsSequence(m.text)
      BY <3>1, <3>2, Nodes
    <3> HIDE DEF m
    <3>4. IsNodes(<<m>>) /\ TextOf(<<m>>) = <<t>>
      BY <3>3, OnePart
    <3> QED
      BY <3>4 DEF m, n
  <2> HIDE DEF g, field
  <2>3. Holds(g) /\ Loose(g)
    BY <1>4, <2>1, <2>2 DEF Holds, HasField, Loose
  <2>4. Gains(Top, g, <<t>>)
    BY <1>4, <2>1, <2>2, <2>3, FrameTexts DEF Gains
  <2>5. SetTop(g)
    BY <1>10 DEF g
  <2> QED
    BY <1>1, <1>6, <1>10, <2>3, <2>4, <2>5, Taken, TakenAsText
<1>11. CASE GotNext(t, <<>>) /\ SetTop(asKey(t))
  <2> DEFINE g == asKey(t)
             key == <<t>>
  <2>1. g.fn = "object" /\ g.pc = "key" /\ g.nodes = Top.nodes /\ g.field = <<>> /\ g.key = key
    BY <1>1, <1>2, <1>4, ObjectFrames
  <2>2. IsSequence(key)
    BY TokenTexts
  <2> HIDE DEF g, key
  <2>3. Holds(g) /\ Loose(g)
    BY <1>4, <2>1, <2>2, NoParts DEF Holds, HasField, Loose
  <2>4. Gains(Top, g, <<t>>)
    BY <1>4, <2>1, <2>3, FrameTexts DEF Gains, key
  <2>5. SetTop(g)
    BY <1>11 DEF g
  <2> QED
    BY <1>1, <1>6, <1>11, <2>3, <2>4, <2>5, Taken, TakenAsText
<1>12. CASE Fail(t)
  BY <1>12, ThrownText DEF Fail
<1> HIDE DEF asKey, asPath
<1> QED
  BY <1>5, <1>7, <1>8, <1>9, <1>10, <1>11, <1>12

\* The tokens of a key are its nodes.
LEMMA KeyLeaves ==
  ASSUME NEW key, IsSequence(key)
  PROVE  /\ IsNodes([i \in DOMAIN key |-> Leaf("token", key[i])])
         /\ TextOf([i \in DOMAIN key |-> Leaf("token", key[i])]) = key
<1> DEFINE n     == Len(key)
           first(k) == [i \in 1 .. k |-> key[i]]
           ns(k)    == [i \in 1 .. k |-> Leaf("token", key[i])]
           T == {k \in Nat : k <= n => IsNodes(ns(k)) /\ TextOf(ns(k)) = first(k)}
<1>1. n \in Nat /\ DOMAIN key = 1 .. n /\ key = [i \in 1 .. n |-> key[i]]
  BY DEF IsSequence
<1>2. \A k \in Nat : /\ IsSequence(first(k)) /\ Len(first(k)) = k
                     /\ IsSequence(ns(k)) /\ Len(ns(k)) = k
  <2> SUFFICES ASSUME NEW k \in Nat
               PROVE  /\ IsSequence(first(k)) /\ Len(first(k)) = k
                      /\ IsSequence(ns(k)) /\ Len(ns(k)) = k
    OBVIOUS
  <2> DEFINE a == first(k)
             b == ns(k)
  <2>1. a = [i \in 1 .. k |-> a[i]] /\ b = [i \in 1 .. k |-> b[i]]
    OBVIOUS
  <2> HIDE DEF a, b
  <2>2. IsSequence(a) /\ Len(a) = k /\ IsSequence(b) /\ Len(b) = k
    BY <2>1, FunctionIsSequence
  <2> QED
    BY <2>2 DEF a, b
<1>3. 0 \in T
  <2>1. first(0) = <<>> /\ ns(0) = <<>>
    <3>1. 0 \in Nat
      OBVIOUS
    <3> HIDE DEF first, ns
    <3> QED
      BY <1>2, <3>1, NoElements
  <2> HIDE DEF first, ns
  <2> QED
    BY <2>1, NoParts
<1>4. ASSUME NEW k \in Nat, k \in T
      PROVE  k + 1 \in T
  <2> SUFFICES ASSUME k + 1 <= n
               PROVE  IsNodes(ns(k + 1)) /\ TextOf(ns(k + 1)) = first(k + 1)
    OBVIOUS
  <2> DEFINE leaf == Leaf("token", key[k + 1])
             a == first(k + 1)
             b == ns(k + 1)
             a0 == first(k)
             b0 == ns(k)
  <2>1. k <= n
    BY <1>1
  <2>2. IsNodes(b0) /\ TextOf(b0) = a0
    BY <1>4, <2>1
  <2>3. k + 1 \in Nat
    OBVIOUS
  <2>4. /\ IsSequence(a) /\ Len(a) = k + 1 /\ IsSequence(b) /\ Len(b) = k + 1 /\ IsSequence(a0) /\ Len(a0) = k
        /\ IsSequence(b0) /\ Len(b0) = k
    BY <1>2, <2>3
  <2>5. /\ a0 = [i \in 1 .. k |-> a[i]] /\ a[k + 1] = key[k + 1]
        /\ b0 = [i \in 1 .. k |-> b[i]] /\ b[k + 1] = leaf
    OBVIOUS
  <2>6. IsSequence(leaf.text) /\ leaf.text = <<key[k + 1]>>
    BY TokenTexts
  <2> HIDE DEF a, b, a0, b0, leaf
  <2>7. a = Append(a0, key[k + 1]) /\ b = Append(b0, leaf)
    BY <2>4, <2>5, LastApart
  <2>8. IsNodes(b) /\ TextOf(b) = a0 \o <<key[k + 1]>>
    BY <2>2, <2>6, <2>7, PartAdded
  <2>9. a0 \o <<key[k + 1]>> = a
    BY <2>4, <2>7, JoiningOne
  <2> QED
    BY <2>8, <2>9 DEF a, b
<1>5. n \in T
  <2> HIDE DEF n, T
  <2> QED
    BY <1>1, <1>3, <1>4, Induction
<1>6. IsNodes(ns(n)) /\ TextOf(ns(n)) = first(n)
  BY <1>1, <1>5
<1> QED
  BY <1>1, <1>6

LEMMA NotJsonText ==
  ASSUME NotJson
  PROVE  TextInv'
BY ThrownText DEF NotJson

LEMMA KeyText ==
  ASSUME Inv, LineInv, TextInv, closed \subseteq closed', Key
  PROVE  TextInv'
<1>1. /\ stack # <<>> /\ ctl = Run /\ ctl.op = "run" /\ ctl.op \in {"run", "value"}
      /\ Top.fn = "object" /\ Top.pc = "key"
  BY Outcomes DEF Key, At
<1>2. Full(stack) /\ Holds(Top) /\ IsFrame(Top)
  BY <1>1, TextTop
<1>3. IsNodes(Top.nodes) /\ Top.field = <<>> /\ IsSequence(Top.key)
  BY <1>1, <1>2 DEF Holds, HasField
<1>4. FrameText(Top) = TextOf(Top.nodes) \o Top.key /\ IsSequence(TextOf(Top.nodes))
  BY <1>1, <1>2, FrameTexts
<1> DEFINE leaves == [i \in DOMAIN Top.key |-> Leaf("token", Top.key[i])]
           path   == Node("path", leaves)
           field  == <<path>>
           after  == [Top EXCEPT !.pc = "after_key", !.field = field]
<1>5. PICK t \in Readable :
        \/ Got(t, <<>>) /\ SetTop([Top EXCEPT !.key = Append(@, t)])
        \/ Got(t, <<t>>) /\ (ctl' = NullOrigin \/ SetTop(after))
  BY DEF Key, AfterKey
<1>6. t \in Available
  BY Taken
<1>7. CASE Got(t, <<>>) /\ SetTop([Top EXCEPT !.key = Append(@, t)])
  <2> DEFINE key == Append(Top.key, t)
             g == [Top EXCEPT !.key = key]
  <2>1. Takes(t, <<>>) /\ SetTop(g)
    BY <1>7, Taken
  <2>2. IsSequence(key) /\ key = Top.key \o <<t>> /\ IsSequence(<<t>>)
    BY <1>3, Pushing, JoiningOne
  <2> HIDE DEF key
  <2>3. g.fn = "object" /\ g.pc = "key" /\ g.nodes = Top.nodes /\ g.field = <<>> /\ g.key = key
    BY <1>1, <1>2, <1>3, ObjectFrames
  <2> HIDE DEF g
  <2>4. Holds(g) /\ Loose(g)
    BY <1>3, <2>2, <2>3, NoParts DEF Holds, HasField, Loose
  <2>5. FrameText(g) = TextOf(Top.nodes) \o key
    BY <2>3, <2>4, FrameTexts
  <2>6. (TextOf(Top.nodes) \o Top.key) \o <<t>> = TextOf(Top.nodes) \o (Top.key \o <<t>>)
    <3> DEFINE a == TextOf(Top.nodes)
               b == Top.key
               c == <<t>>
    <3>1. IsSequence(a) /\ IsSequence(b) /\ IsSequence(c)
      BY <1>3, <1>4, <2>2
    <3> HIDE DEF a, b, c
    <3>2. (a \o b) \o c = a \o (b \o c)
      BY <3>1, JoiningThree
    <3> QED
      BY <3>2 DEF a, b, c
  <2>7. Gains(Top, g, <<t>>)
    BY <1>4, <2>2, <2>4, <2>5, <2>6 DEF Gains
  <2> QED
    BY <1>1, <1>6, <2>1, <2>4, <2>7, TakenAsText
<1>8. CASE Got(t, <<t>>) /\ ctl' = NullOrigin
  BY <1>8, Outcomes DEF TextInv
<1>9. CASE Got(t, <<t>>) /\ SetTop(after)
  <2>1. IsNodes(leaves) /\ TextOf(leaves) = Top.key
    BY <1>3, KeyLeaves
  <2> HIDE DEF leaves
  <2>2. IsSequence(path.text) /\ path.text = Top.key
    BY <1>3, <2>1, Nodes
  <2> HIDE DEF path
  <2>3. IsNodes(field) /\ TextOf(field) = Top.key
    BY <2>2, OnePart
  <2> HIDE DEF field
  <2>4. after.fn = "object" /\ after.pc = "after_key" /\ after.nodes = Top.nodes /\ after.field = field
    BY <1>1, <1>2, ObjectFrames
  <2> HIDE DEF after
  <2>5. Holds(after) /\ Loose(after)
    BY <1>3, <2>3, <2>4 DEF Holds, HasField, Loose
  <2>6. FrameText(after) = FrameText(Top)
    BY <1>4, <2>3, <2>4, <2>5, FrameTexts
  <2> QED
    BY <1>1, <1>6, <1>9, <2>5, <2>6, Taken, PutBackText
<1> QED
  BY <1>5, <1>7, <1>8, <1>9

LEMMA SeparatorText ==
  ASSUME Inv, LineInv, TextInv, closed \subseteq closed', Separator
  PROVE  TextInv'
<1>1. /\ stack # <<>> /\ ctl = Run /\ ctl.op = "run" /\ ctl.op \in {"run", "value"}
      /\ Top.fn = "object" /\ Top.pc = "after_key"
  BY Outcomes DEF Separator, At
<1>2. Full(stack) /\ Holds(Top) /\ IsFrame(Top)
  BY <1>1, TextTop
<1> DEFINE waiting == [Top EXCEPT !.pc = "value"]
<1>3. PICK t \in Tokens :
        /\ GotNext(t, <<>>)
        /\ IF flavor = "CONF" /\ t.w = "open_curly"
           THEN ParseValue(Retopped(stack, waiting), t)
           ELSE IF ~IsSeparator(t) THEN Fail(t)
           ELSE /\ stack' = Consolidating(Retopped(stack,
                     [waiting EXCEPT !.field = Append(@, Leaf("token", t)), !.inside_equals = t.w = "equals"]))
                /\ UNCHANGED ctl
  BY DEF Separator
<1> DEFINE leaf  == Leaf("token", t)
           field == Append(Top.field, leaf)
           equal == t.w = "equals"
           g == [waiting EXCEPT !.field = Append(@, leaf), !.inside_equals = equal]
           fs == Retopped(stack, g)
<1>4. \/ ParseValue(Retopped(stack, waiting), t)
      \/ ctl' = Throws(t)
      \/ stack' = Consolidating(fs) /\ ctl' = ctl
  BY <1>3 DEF Fail
<1>5. waiting.fn = "object" /\ waiting.pc = "value" /\ waiting.nodes = Top.nodes /\ waiting.field = Top.field
  BY <1>1, <1>2, ObjectFrames
<1>6. t \in Available /\ Takes(t, <<>>)
  BY <1>3, Taken
<1>7. CASE ParseValue(Retopped(stack, waiting), t)
  <2> DEFINE below == Retopped(stack, waiting)
  <2> HIDE DEF waiting
  <2>1. HasField(waiting) /\ ~AtKey(waiting)
    BY <1>5 DEF HasField, AtKey
  <2>2. Holds(waiting) /\ FrameText(waiting) = FrameText(Top)
    BY <1>1, <1>2, <1>5, <2>1, SameText
  <2>3. Full(below) /\ StackText(below) = StackText(stack) /\ below # <<>> /\ NoKey(below)
    BY <1>1, <1>2, <2>1, <2>2, RetoppedSame DEF NoKey
  <2>4. ParseValue(below, t)
    BY <1>7
  <2> HIDE DEF below
  <2> QED
    BY <1>1, <1>6, <2>3, <2>4, CallsWithText
<1>8. CASE ctl' = Throws(t)
  BY <1>8, ThrownText
<1>9. CASE stack' = Consolidating(fs) /\ ctl' = ctl
  <2> HIDE DEF leaf, equal
  <2>1. g.fn = "object" /\ g.pc = "value" /\ g.nodes = Top.nodes /\ g.field = field
    BY <1>1, <1>2, ObjectFrames
  <2> HIDE DEF g
  <2>2. leaf.text = <<t>> /\ IsSequence(leaf.text) /\ IsSequence(<<t>>)
    BY TokenTexts DEF leaf
  <2>3. IsNodes(Top.nodes) /\ IsNodes(Top.field)
    BY <1>1, <1>2 DEF Holds
  <2>4. IsNodes(field) /\ TextOf(field) = TextOf(Top.field) \o <<t>>
    BY <2>2, <2>3, PartAdded
  <2> HIDE DEF field
  <2>5. Holds(g) /\ Loose(g) /\ ~AtKey(g)
    BY <2>1, <2>3, <2>4 DEF Holds, HasField, Loose, AtKey
  <2>6. /\ FrameText(Top) = TextOf(Top.nodes) \o TextOf(Top.field) /\ IsSequence(TextOf(Top.nodes))
        /\ IsSequence(TextOf(Top.field)) /\ FrameText(g) = TextOf(Top.nodes) \o TextOf(field)
    BY <1>1, <1>2, <2>1, <2>5, FrameTexts
  <2>7. (TextOf(Top.nodes) \o TextOf(Top.field)) \o <<t>> = TextOf(Top.nodes) \o (TextOf(Top.field) \o <<t>>)
    <3> DEFINE a == TextOf(Top.nodes)
               b == TextOf(Top.field)
               c == <<t>>
    <3>1. IsSequence(a) /\ IsSequence(b) /\ IsSequence(c)
      BY <2>2, <2>6
    <3> HIDE DEF a, b, c
    <3>2. (a \o b) \o c = a \o (b \o c)
      BY <3>1, JoiningThree
    <3> QED
      BY <3>2 DEF a, b, c
  <2>8. Gains(Top, g, <<t>>)
    BY <2>4, <2>5, <2>6, <2>7 DEF Gains
  <2>9. Full(fs) /\ StackText(fs) = StackText(stack) \o <<t>> /\ Last(fs) = g /\ fs # <<>>
    BY <1>1, <1>2, <2>2, <2>8, TextGained DEF Top
  <2> HIDE DEF fs
  <2>10. Full(stack') /\ StackText(stack') = StackText(stack) \o <<t>> /\ Loose(Last(stack'))
    BY <1>9, <2>5, <2>9, ConsolidatingText DEF NoKey
  <2>11. Sound(stack', ctl') /\ ctl'.op = "run"
    BY <1>1, <1>9, <2>10 DEF Sound
  <2>12. Total(stack', ctl') = StackText(stack) \o <<t>>
    BY <2>10, <2>11, TotalOf
  <2> QED
    BY <1>1, <1>6, <2>10, <2>11, <2>12, ReadsOne DEF EndsWith
<1> QED
  BY <1>4, <1>7, <1>8, <1>9

LEMMA FieldValueText ==
  ASSUME Inv, LineInv, TextInv, closed \subseteq closed', FieldValue
  PROVE  TextInv'
<1>1. stack # <<>> /\ ctl = Run /\ ctl.op = "run" /\ ctl.op \in {"run", "value"} /\ Top.pc = "value"
  BY Outcomes DEF FieldValue, At
<1>2. Full(stack) /\ NoKey(stack)
  BY <1>1, TextTop DEF NoKey, AtKey
<1>3. PICK t \in Tokens : GotNext(t, <<>>) /\ ParseValue(stack, t)
  BY DEF FieldValue
<1> QED
  BY <1>1, <1>2, <1>3, Taken, CallsWithText

LEMMA FieldParsedText ==
  ASSUME Inv, LineInv, TextInv, closed \subseteq closed', stack # <<>>, FieldParsed
  PROVE  TextInv'
<1> DEFINE keys  == IF flavor = "JSON" THEN Top.keys \cup {Top.key[1]} ELSE Top.keys
           kids  == Append(Top.field, ctl.v)
           field == Node("field", kids)
           nodes == Append(Top.nodes, field)
           g == [Top EXCEPT !.pc = "separator", !.field = <<>>, !.key = <<>>, !.after_comma = FALSE,
                            !.newline = FALSE, !.inside_equals = FALSE, !.keys = keys, !.nodes = nodes]
           error == [w |-> "duplicate", line |-> line_number]
<1>1. /\ Top.fn = "object" /\ ctl.op = "value" /\ ctl.op \in {"run", "value"} /\ UNCHANGED <<tokens, buffer>>
  BY DEF FieldParsed
<1>2. ctl' = Throws(error) \/ SetTop(g)
  BY DEF FieldParsed, Fail
<1>3. /\ Full(stack) /\ Holds(Top) /\ IsFrame(Top) /\ ~AtKey(Top) /\ IsSequence(ctl.v.text)
      /\ Total(stack, ctl) = StackText(stack) \o ctl.v.text
  BY <1>1, TextTop
<1>4. CASE ctl' = Throws(error)
  BY <1>4, ThrownText
<1>5. CASE SetTop(g)
  <2> HIDE DEF keys, nodes
  <2>1. g.fn = "object" /\ g.pc = "separator" /\ g.nodes = nodes /\ g.field = <<>>
    BY <1>1, <1>3, ObjectFrames
  <2> HIDE DEF g
  <2>2. IsNodes(Top.nodes) /\ IsNodes(Top.field) /\ Top.pc # "key"
    BY <1>1, <1>3 DEF Holds, AtKey
  <2>3. IsNodes(kids) /\ TextOf(kids) = TextOf(Top.field) \o ctl.v.text
    BY <1>3, <2>2, PartAdded
  <2> HIDE DEF kids
  <2>4. field.text = TextOf(kids) /\ IsSequence(field.text)
    BY <2>3, Nodes DEF IsTree
  <2> HIDE DEF field
  <2>5. IsNodes(nodes) /\ TextOf(nodes) = TextOf(Top.nodes) \o field.text
    BY <2>2, <2>4, PartAdded DEF nodes
  <2>6. Holds(g) /\ Loose(g)
    BY <2>1, <2>5, NoParts DEF Holds, Loose
  <2>7. /\ FrameText(Top) = TextOf(Top.nodes) \o TextOf(Top.field) /\ IsSequence(TextOf(Top.nodes))
        /\ IsSequence(TextOf(Top.field)) /\ FrameText(g) = TextOf(nodes)
    BY <1>1, <1>3, <2>1, <2>2, <2>6, FrameTexts DEF HasField
  <2> DEFINE a == TextOf(Top.nodes)
             b == TextOf(Top.field)
             c == ctl.v.text
  <2>8. (a \o b) \o c = a \o (b \o c)
    <3>1. IsSequence(a) /\ IsSequence(b) /\ IsSequence(c)
      BY <1>3, <2>7
    <3> HIDE DEF a, b, c
    <3> QED
      BY <3>1, JoiningThree
  <2> HIDE DEF a, b, c
  <2>9. Gains(Top, g, ctl.v.text)
    BY <2>3, <2>4, <2>5, <2>6, <2>7, <2>8 DEF Gains, a, b, c
  <2>10. ctl'.op = "run" /\ Sound(stack', ctl') /\ Last(stack') = g /\ Total(stack', ctl') = Total(stack, ctl)
    BY <1>3, <1>5, <2>9, GoesOnText
  <2> QED
    BY <1>1, <2>6, <2>10, ReadsNothing
<1> QED
  BY <1>2, <1>4, <1>5

LEMMA CloseObjectText ==
  ASSUME Inv, Inv', LineInv, TextInv, closed \subseteq closed', CloseObject
  PROVE  TextInv'
<1>1. /\ stack # <<>> /\ ctl = Run /\ ctl.op = "run" /\ Top.fn = "object" /\ Top.pc = "close"
  BY Outcomes DEF CloseObject, At
<1>2. ~HasField(Top) /\ Top.pc # "key"
  BY <1>1 DEF HasField
<1> DEFINE A(t) == Leave(Node("object", Append(Top.nodes, Leaf("token", t))))
           B    == Leave(Node("root", Top.nodes))
<1>3. PICK t \in Tokens :
        \/ GotNext(t, <<>>) /\ A(t)
        \/ GotNext(t, <<t>>) /\ B
        \/ Fail(t)
  <2>1. PICK t \in Tokens :
          CASE t.w = "close_curly" /\ HasBraces(Top) -> GotNext(t, <<>>) /\ A(t)
            [] t.w = "end" /\ ~HasBraces(Top) -> GotNext(t, <<t>>) /\ B
            [] OTHER -> GotNext(t, <<>>) /\ Fail(t)
    BY DEF CloseObject
  <2> HIDE DEF A, B
  <2>2. CASE t.w = "close_curly" /\ HasBraces(Top)
    BY <2>1, <2>2
  <2>3. CASE t.w = "end" /\ ~HasBraces(Top)
    BY <2>1, <2>3
  <2>4. CASE ~(t.w = "close_curly" /\ HasBraces(Top)) /\ ~(t.w = "end" /\ ~HasBraces(Top))
    BY <2>1, <2>4
  <2> QED
    BY <2>2, <2>3, <2>4
<1>4. t \in Available
  BY Taken
<1>5. CASE GotNext(t, <<>>) /\ A(t)
  BY <1>1, <1>2, <1>4, <1>5, Taken, ClosedText
<1>6. CASE GotNext(t, <<t>>) /\ B
  BY <1>1, <1>2, <1>4, <1>6, Taken, RootEndsText
<1>7. CASE Fail(t)
  BY <1>7, ThrownText DEF Fail
<1> HIDE DEF A, B
<1> QED
  BY <1>3, <1>5, <1>6, <1>7

LEMMA CloseArrayText ==
  ASSUME Inv, Inv', LineInv, TextInv, closed \subseteq closed', CloseArray
  PROVE  TextInv'
<1>1. /\ stack # <<>> /\ ctl = Run /\ ctl.op = "run" /\ Top.fn # "object"
  BY Outcomes DEF CloseArray, At
<1>2. PICK t \in Tokens :
        /\ GotNext(t, <<>>)
        /\ IF t.w = "close_square" THEN Leave(Node("array", Append(Top.nodes, Leaf("token", t)))) ELSE Fail(t)
  BY DEF CloseArray
<1>3. t \in Available
  BY Taken
<1>4. CASE t.w = "close_square"
  BY <1>1, <1>2, <1>3, <1>4, Taken, ClosedText
<1>5. CASE t.w # "close_square"
  BY <1>2, <1>5, ThrownText DEF Fail
<1> QED
  BY <1>4, <1>5

\* The include is the node of the object below.
LEMMA IncludedText ==
  ASSUME Inv, LineInv, TextInv, ctl.op = "run", stack # <<>>, Top.fn = "include",
         NEW n, IsSequence(n.text), NEW x, IsSequence(x), n.text = TextOf(Top.nodes) \o x,
         stack' = Included(n), ctl' = ctl
  PROVE  /\ Sound(stack', ctl') /\ Loose(Last(stack')) /\ stack' # <<>>
         /\ Total(stack', ctl') = StackText(stack) \o x
<1> DEFINE below == stack[Len(stack) - 1]
           nodes == Append(below.nodes, n)
           g == [below EXCEPT !.nodes = nodes, !.pc = "separator", !.newline = FALSE, !.after_comma = FALSE]
           p == Popped(stack)
<1>1. /\ Full(stack) /\ Holds(Top) /\ Top = Last(stack) /\ Shape(stack) /\ IsSequence(stack)
      /\ ctl.op \in {"run", "value"}
  BY TextTop
<1>2. /\ Len(stack) \in Nat \ {0} /\ IsSequence(p) /\ Len(p) = Len(stack) - 1
      /\ \A i \in 1 .. Len(stack) - 1 : p[i] = stack[i]
  BY <1>1, Popping
<1>3. Len(stack) - 1 \in 1 .. Len(stack) - 1 /\ Len(stack) - 1 \in 1 .. Len(stack) /\ Len(stack) \in 1 .. Len(stack)
  <2>1. \A k \in Nat \ {0} : k \in 1 .. k /\ (k # 1 => k - 1 \in 1 .. k - 1 /\ k - 1 \in 1 .. k)
    OBVIOUS
  <2>2. Len(stack) # 1
    BY <1>1, <1>2, <2>1 DEF Shape, Roots, Last
  <2> QED
    BY <1>2, <2>1, <2>2
<1>4. below.fn = "object" /\ below.pc = "member" /\ IsFrame(below) /\ Holds(below)
  BY <1>1, <1>3 DEF Shape, Full, Last
<1>5. Full(p) /\ StackText(stack) = StackText(p) \o FrameText(Top) /\ FrameText(Top) = TextOf(Top.nodes)
  BY <1>1, TextApart, FrameTexts
<1>6. p # <<>> /\ Last(p) = below
  <2>1. Len(p) # 0
    BY <1>2, <1>3
  <2>2. p # <<>>
    BY <2>1, EmptyIsSequence
  <2> QED
    BY <1>2, <1>3, <2>2 DEF Last
<1>7. stack' = Retopped(p, g)
  BY DEF Included
<1> HIDE DEF below, nodes, p
<1>8. g.fn = "object" /\ g.pc = "separator" /\ g.nodes = nodes /\ g.field = below.field
  BY <1>4, ObjectFrames
<1> HIDE DEF g
<1>9. /\ ~HasField(below) /\ below.field = <<>> /\ below.pc # "key" /\ ~HasField(g)
      /\ g.fn = below.fn /\ g.nodes = Append(below.nodes, n) /\ g.field = <<>> /\ g.pc # "key" /\ below.fn # "values"
  BY <1>4, <1>8 DEF HasField, Holds, nodes
<1>10. Gains(below, g, n.text)
  BY <1>4, <1>9, NodeAdded
<1>11. Full(stack') /\ StackText(stack') = StackText(p) \o n.text /\ Last(stack') = g /\ stack' # <<>>
  BY <1>5, <1>6, <1>7, <1>10, TextGained
<1>12. Sound(stack', ctl') /\ Loose(Last(stack'))
  BY <1>8, <1>11 DEF Sound, Loose
<1> DEFINE a == StackText(p)
           b == TextOf(Top.nodes)
<1>13. (a \o b) \o x = a \o (b \o x)
  <2>1. IsSequence(a) /\ IsSequence(b)
    BY <1>1, <1>5, Frames, FrameTexts
  <2> HIDE DEF a, b
  <2> QED
    BY <2>1, JoiningThree
<1>14. Total(stack', ctl') = StackText(stack')
  BY <1>12, TotalOf
<1> HIDE DEF a, b
<1>15. StackText(stack) = a \o b /\ StackText(stack') = a \o (b \o x)
  BY <1>5, <1>11 DEF a, b
<1> QED
  BY <1>11, <1>12, <1>13, <1>14, <1>15

LEMMA IncludeText ==
  ASSUME Inv, LineInv, TextInv, closed \subseteq closed', Include
  PROVE  TextInv'
<1>1. /\ stack # <<>> /\ ctl = Run /\ ctl.op = "run" /\ ctl.op \in {"run", "value"} /\ Top.fn = "include"
  BY Outcomes DEF Include, At
<1>2. Full(stack) /\ Holds(Top) /\ IsFrame(Top)
  BY <1>1, TextTop
<1> DEFINE named(t) == Node("include", Append(Top.nodes, Leaf("simple", t)))
           shut     == Node("include", Top.nodes)
           A(t) == stack' = Included(named(t)) /\ ctl' = ctl
           B(t) == SetTop([Top EXCEPT !.pc = "name", !.nodes = Append(@, Leaf("token", t))])
           C(t) == SetTop([Top EXCEPT !.pc = "close", !.nodes = Append(@, Leaf("simple", t))])
           D    == stack' = Included(shut) /\ ctl' = ctl
<1>3. PICK t \in Tokens :
        GotNext(t, <<>>) /\ (A(t) \/ B(t) \/ C(t) \/ (t \in closed' /\ D) \/ Fail(t))
  <2>1. PICK t \in Tokens :
          /\ GotNext(t, <<>>)
          /\ Top.pc = "close" /\ t.w = "close_paren" => t \in closed'
          /\ CASE Top.pc = "what" /\ t.w \in Strings -> A(t)
               [] Top.pc = "what" /\ t.w = "file_open" -> B(t)
               [] Top.pc = "name" /\ t.w \in Strings -> C(t)
               [] Top.pc = "close" /\ t.w = "close_paren" -> D
               [] OTHER -> Fail(t)
    BY DEF Include
  <2>2. t.w \in Strings => t.w \notin {"file_open", "close_paren"}
    BY DEF Strings
  <2> HIDE DEF A, B, C, D
  <2>3. CASE Top.pc = "what" /\ t.w \in Strings
    BY <2>1, <2>2, <2>3
  <2>4. CASE Top.pc = "what" /\ t.w = "file_open"
    BY <2>1, <2>2, <2>4
  <2>5. CASE Top.pc = "name" /\ t.w \in Strings
    BY <2>1, <2>2, <2>5
  <2>6. CASE Top.pc = "close" /\ t.w = "close_paren"
    BY <2>1, <2>6
  <2>7. CASE /\ ~(Top.pc = "what" /\ t.w \in Strings) /\ ~(Top.pc = "what" /\ t.w = "file_open")
             /\ ~(Top.pc = "name" /\ t.w \in Strings) /\ ~(Top.pc = "close" /\ t.w = "close_paren")
    BY <2>1, <2>7
  <2> QED
    BY <2>3, <2>4, <2>5, <2>6, <2>7
<1>4. t \in Available /\ Takes(t, <<>>) /\ IsSequence(<<t>>)
  BY <1>3, Taken, TokenTexts
<1>5. FrameText(Top) = TextOf(Top.nodes) /\ IsNodes(Top.nodes) /\ IsSequence(TextOf(Top.nodes))
  BY <1>1, <1>2, FrameTexts DEF Holds
<1>6. CASE A(t)
  <2> DEFINE leaf == Leaf("simple", t)
             kids == Append(Top.nodes, leaf)
             n == named(t)
  <2>1. leaf.text = <<t>> /\ IsSequence(leaf.text)
    BY TokenTexts
  <2>2. n = Node("include", kids)
    OBVIOUS
  <2> HIDE DEF leaf
  <2>3. IsNodes(kids) /\ TextOf(kids) = TextOf(Top.nodes) \o <<t>>
    BY <1>5, <2>1, PartAdded
  <2> HIDE DEF kids, n
  <2>4. IsSequence(n.text) /\ n.text = TextOf(Top.nodes) \o <<t>>
    BY <2>2, <2>3, Nodes DEF IsTree
  <2>5. stack' = Included(n) /\ ctl' = ctl
    BY <1>6 DEF n, kids, leaf
  <2>6. Sound(stack', ctl') /\ Loose(Last(stack')) /\ Total(stack', ctl') = StackText(stack) \o <<t>>
    BY <1>1, <1>4, <2>4, <2>5, IncludedText
  <2> QED
    BY <1>1, <1>4, <2>5, <2>6, ReadsOne DEF EndsWith
<1>7. CASE t \in closed' /\ D
  <2> DEFINE n == shut
  <2>1. IsSequence(n.text) /\ n.text = TextOf(Top.nodes)
    BY <1>5, Nodes DEF IsTree
  <2> HIDE DEF n
  <2>2. stack' = Included(n) /\ ctl' = ctl
    BY <1>7 DEF n
  <2>3. TextOf(Top.nodes) \o <<>> = TextOf(Top.nodes) /\ IsSequence(<<>>)
    BY <1>5, JoiningNothing, EmptyIsSequence
  <2>4. /\ Sound(stack', ctl') /\ Loose(Last(stack')) /\ Total(stack', ctl') = StackText(stack) \o <<>>
    BY <1>1, <2>1, <2>2, <2>3, IncludedText
  <2>5. StackText(stack) \o <<>> = StackText(stack)
    BY <1>2, Frames, JoiningNothing
  <2>6. NoNode(t, stack', closed')
    BY <1>7 DEF NoNode
  <2> QED
    BY <1>1, <1>4, <2>2, <2>4, <2>5, <2>6, ReadsOne DEF EndsWith
<1>8. ASSUME NEW pc, NEW k, k # "root", SetTop([Top EXCEPT !.pc = pc, !.nodes = Append(@, Leaf(k, t))])
      PROVE  TextInv'
  <2> DEFINE leaf == Leaf(k, t)
             g == [Top EXCEPT !.pc = pc, !.nodes = Append(@, leaf)]
  <2>1. leaf.text = <<t>> /\ IsSequence(leaf.text)
    BY <1>8, Leaves DEF IsTree
  <2>2. SetTop(g)
    BY <1>8
  <2> HIDE DEF leaf
  <2>3. g.fn = "include" /\ g.nodes = Append(Top.nodes, leaf)
    BY <1>1, <1>2 DEF IsFrame
  <2> HIDE DEF g
  <2>4. Gains(Top, g, <<t>>) /\ Loose(g)
    BY <1>1, <1>2, <2>1, <2>3, NodeAdded DEF Loose
  <2> QED
    BY <1>1, <1>4, <2>2, <2>4, TakenAsText
<1>9. CASE B(t)
  BY <1>8, <1>9
<1>10. CASE C(t)
  BY <1>8, <1>10
<1>11. CASE Fail(t)
  BY <1>11, ThrownText DEF Fail
<1> HIDE DEF A, B, C, D
<1> QED
  BY <1>3, <1>6, <1>7, <1>9, <1>10, <1>11

-----------------------------------------------------------------------------
(* Separators, arrays and values.                                          *)

LEMMA WithoutKey ==
  ASSUME Inv, LineInv, TextInv, ctl = Run, stack # <<>>, Top.pc = "separator"
  PROVE  Top.fn # "values" /\ (Top.fn = "object" => ~HasField(Top) /\ Top.pc # "key" /\ Top.field = <<>>)
<1>1. ctl.op \in {"run", "value"}
  BY Outcomes
<1> QED
  BY <1>1, AtSeparator, TextTop DEF HasField, Holds

LEMMA SeparatorLayoutText ==
  ASSUME Inv, LineInv, TextInv, closed \subseteq closed', SeparatorLayout
  PROVE  TextInv'
<1>1. stack # <<>> /\ ctl = Run /\ ctl.op = "run" /\ ctl.op \in {"run", "value"} /\ Top.pc = "separator"
  BY Outcomes DEF SeparatorLayout
<1>2. Full(stack) /\ Holds(Top) /\ IsFrame(Top)
  BY <1>1, TextTop
<1>3. Top.fn # "values" /\ (Top.fn = "object" => ~HasField(Top) /\ Top.pc # "key" /\ Top.field = <<>>)
  BY <1>1, WithoutKey
<1>4. PICK t \in Readable :
        Takes(t, <<>>) /\ SetTop([AddTo(Top, Layer(t)) EXCEPT !.newline = @ \/ t.w = "newline"])
  BY DEF SeparatorLayout
<1> DEFINE n == Layer(t)
           f == AddTo(Top, n)
           more == f.newline \/ t.w = "newline"
           g == [f EXCEPT !.newline = more]
<1>5. t \in Available /\ SetTop(g)
  BY <1>4, Taken
<1>6. n.text = <<t>> /\ IsSequence(n.text)
  BY TokenTexts
<1> HIDE DEF n
<1>7. Gains(Top, f, n.text) /\ f.fn = Top.fn
  BY <1>2, <1>3, <1>6, AddedText
<1>8. IsFrame(f) /\ f.pc = "separator"
  BY <1>1, <1>2, AddedTo
<1> HIDE DEF f, more
<1>9. g.fn = f.fn /\ g.pc = f.pc /\ g.nodes = f.nodes /\ (f.fn = "object" => g.field = f.field)
  BY <1>8 DEF IsFrame
<1> HIDE DEF g
<1>10. f.fn = "object" => g.field = <<>> /\ f.pc # "key" /\ g.pc # "key"
  BY <1>7, <1>8, <1>9 DEF Gains, Holds, HasField
<1>11. Holds(g) /\ FrameText(g) = FrameText(f)
  BY <1>7, <1>9, <1>10, SameText DEF Gains
<1>12. Gains(Top, g, <<t>>) /\ Loose(g)
  BY <1>3, <1>6, <1>7, <1>9, <1>11 DEF Gains, Loose
<1> QED
  BY <1>1, <1>4, <1>5, <1>12, TakenAsText

\* The element is followed by another one, or the end.
LEMMA SeparatedText ==
  ASSUME Inv, LineInv, TextInv, ctl = Run, stack # <<>>, Top.pc = "separator",
         NEW f, IsFrame(f), f.fn = Top.fn, f.pc = "separator", NEW x, IsSequence(x), Gains(Top, f, x),
         Separated(f) \/ NotSeparated(f)
  PROVE  /\ ctl'.op = "run" /\ Sound(stack', ctl') /\ Loose(Last(stack'))
         /\ Total(stack', ctl') = StackText(stack) \o x
<1>1. ctl.op \in {"run", "value"} /\ f.fn # "values"
  BY Outcomes, WithoutKey
<1>2. Full(stack) /\ Holds(f) /\ (f.fn = "object" => f.field = <<>>) /\ FrameText(f) = FrameText(Top) \o x
  BY <1>1, TextTop DEF Gains, Holds, HasField
<1>3. ASSUME NEW g, SetTop(g), g.fn = f.fn, g.nodes = f.nodes, f.fn = "object" => g.field = f.field /\ g.pc # "key"
      PROVE  /\ ctl'.op = "run" /\ Sound(stack', ctl') /\ Loose(Last(stack'))
             /\ Total(stack', ctl') = StackText(stack) \o x
  <2>1. Holds(g) /\ FrameText(g) = FrameText(f) /\ Loose(g)
    BY <1>1, <1>2, <1>3, SameText DEF Loose
  <2>2. Gains(Top, g, x)
    BY <1>2, <2>1 DEF Gains
  <2> QED
    BY <1>2, <1>3, <2>1, <2>2, GoesOnText
<1>4. CASE NotSeparated(f)
  <2> DEFINE g == [f EXCEPT !.pc = "close"]
  <2>1. g.fn = f.fn /\ g.nodes = f.nodes /\ g.pc = "close" /\ (f.fn = "object" => g.field = f.field)
    BY DEF IsFrame
  <2>2. SetTop(g)
    BY <1>4 DEF NotSeparated
  <2> HIDE DEF g
  <2> QED
    BY <1>3, <2>1, <2>2
<1>5. CASE Separated(f) /\ f.fn = "object"
  <2> DEFINE g == [f EXCEPT !.pc = "member", !.after_comma = TRUE]
  <2>1. g.fn = f.fn /\ g.nodes = f.nodes /\ g.pc = "member" /\ g.field = f.field
    BY <1>5, ObjectFrames
  <2>2. SetTop(g)
    BY <1>5 DEF Separated
  <2> HIDE DEF g
  <2> QED
    BY <1>3, <2>1, <2>2
<1>6. CASE Separated(f) /\ f.fn # "object"
  <2> DEFINE g == [f EXCEPT !.pc = "element"]
             fs == Retopped(stack, g)
  <2>1. g.fn = f.fn /\ g.nodes = f.nodes
    BY DEF IsFrame
  <2>2. stack' = Consolidating(fs) /\ ctl'.op = "run"
    BY <1>6, Outcomes DEF Separated
  <2> HIDE DEF g
  <2>3. Holds(g) /\ FrameText(g) = FrameText(f) /\ Loose(g) /\ ~AtKey(g)
    BY <1>1, <1>2, <1>6, <2>1, SameText DEF Loose, AtKey
  <2>4. Gains(Last(stack), g, x)
    BY <1>2, <2>3 DEF Gains, Top
  <2>5. Full(fs) /\ StackText(fs) = StackText(stack) \o x /\ Last(fs) = g /\ fs # <<>>
    BY <1>2, <2>4, TextGained
  <2> HIDE DEF fs
  <2>6. Full(stack') /\ StackText(stack') = StackText(stack) \o x /\ Loose(Last(stack'))
    BY <2>2, <2>3, <2>5, ConsolidatingText DEF NoKey
  <2>7. Sound(stack', ctl')
    BY <2>2, <2>6 DEF Sound
  <2> QED
    BY <2>2, <2>6, <2>7, TotalOf
<1> QED
  BY <1>4, <1>5, <1>6

LEMMA ElementSeparatorText ==
  ASSUME Inv, LineInv, TextInv, closed \subseteq closed', ElementSeparator
  PROVE  TextInv'
<1>1. stack # <<>> /\ ctl = Run /\ ctl.op = "run" /\ ctl.op \in {"run", "value"} /\ Top.pc = "separator"
  BY Outcomes DEF ElementSeparator
<1>2. Full(stack) /\ Holds(Top) /\ IsFrame(Top)
  BY <1>1, TextTop
<1>3. Top.fn # "values" /\ (Top.fn = "object" => ~HasField(Top) /\ Top.pc # "key" /\ Top.field = <<>>)
  BY <1>1, WithoutKey
<1>4. PICK t \in Tokens :
        IF t.w = "comma"
        THEN Takes(t, <<>>) /\ Separated(AddTo(Top, Leaf("token", t)))
        ELSE Takes(t, <<t>>) /\ IF flavor = "CONF" /\ Top.newline THEN Separated(Top) ELSE NotSeparated(Top)
  BY DEF ElementSeparator
<1>5. t \in Available
  BY Taken
<1>6. CASE t.w = "comma"
  <2> DEFINE n == Leaf("token", t)
             f == AddTo(Top, n)
  <2>1. Takes(t, <<>>) /\ Separated(f)
    BY <1>4, <1>6
  <2>2. n.text = <<t>> /\ IsSequence(n.text)
    BY TokenTexts
  <2> HIDE DEF n
  <2>3. Gains(Top, f, n.text) /\ f.fn = Top.fn /\ IsFrame(f) /\ f.pc = "separator"
    BY <1>1, <1>2, <1>3, <2>2, AddedText, AddedTo
  <2> HIDE DEF f
  <2>4. /\ ctl'.op = "run" /\ Sound(stack', ctl') /\ Loose(Last(stack'))
        /\ Total(stack', ctl') = StackText(stack) \o n.text
    BY <1>1, <2>1, <2>2, <2>3, SeparatedText
  <2> QED
    BY <1>1, <1>5, <2>1, <2>2, <2>4, ReadsOne DEF EndsWith
<1>7. CASE t.w # "comma"
  <2>1. Takes(t, <<t>>) /\ (Separated(Top) \/ NotSeparated(Top))
    BY <1>4, <1>7
  <2>2. Gains(Top, Top, <<>>) /\ IsSequence(<<>>)
    BY <1>2, FrameIsText, JoiningNothing, EmptyIsSequence DEF Gains
  <2>3. /\ ctl'.op = "run" /\ Sound(stack', ctl') /\ Loose(Last(stack'))
        /\ Total(stack', ctl') = StackText(stack) \o <<>>
    BY <1>1, <1>2, <2>1, <2>2, SeparatedText
  <2>4. StackText(stack) \o <<>> = StackText(stack)
    BY <1>2, Frames, JoiningNothing
  <2> QED
    BY <1>1, <1>5, <2>1, <2>3, <2>4, GivesBackOne
<1> QED
  BY <1>6, <1>7

LEMMA ElementParsedText ==
  ASSUME Inv, LineInv, TextInv, closed \subseteq closed', stack # <<>>, ElementParsed
  PROVE  TextInv'
<1>1. Top.fn = "array" /\ ctl.op = "value" /\ ctl.op \in {"run", "value"} /\ UNCHANGED <<tokens, buffer>>
  BY DEF ElementParsed
<1>2. /\ Full(stack) /\ Holds(Top) /\ IsFrame(Top) /\ IsSequence(ctl.v.text)
      /\ Total(stack, ctl) = StackText(stack) \o ctl.v.text
  BY <1>1, TextTop
<1> DEFINE g == [Top EXCEPT !.pc = "separator", !.newline = FALSE, !.nodes = Append(@, ctl.v)]
<1>3. SetTop(g)
  BY DEF ElementParsed
<1>4. g.fn = "array" /\ g.nodes = Append(Top.nodes, ctl.v)
  BY <1>1, <1>2 DEF IsFrame
<1> HIDE DEF g
<1>5. Gains(Top, g, ctl.v.text) /\ Loose(g)
  BY <1>1, <1>2, <1>4, NodeAdded DEF Loose
<1>6. ctl'.op = "run" /\ Sound(stack', ctl') /\ Last(stack') = g /\ Total(stack', ctl') = Total(stack, ctl)
  BY <1>2, <1>3, <1>5, GoesOnText
<1> QED
  BY <1>1, <1>5, <1>6, ReadsNothing

LEMMA ElementText ==
  ASSUME Inv, Inv', LineInv, TextInv, closed \subseteq closed', Element
  PROVE  TextInv'
<1>1. stack # <<>> /\ ctl = Run /\ ctl.op = "run" /\ ctl.op \in {"run", "value"} /\ Top.fn = "array"
  BY Outcomes DEF Element, At
<1>2. Full(stack) /\ Holds(Top) /\ IsFrame(Top) /\ NoKey(stack)
  BY <1>1, TextTop DEF NoKey, AtKey
<1> DEFINE g == [Top EXCEPT !.pc = "separator", !.newline = FALSE]
           A(t) == ParseValue(stack, t)
           B(t) == Leave(Node("array", Append(Top.nodes, Leaf("token", t))))
           C    == SetTop(g)
<1>3. PICK t \in Tokens :
        \/ GotNext(t, <<>>) /\ (A(t) \/ B(t))
        \/ GotNext(t, <<t>>) /\ C
        \/ Fail(t)
  <2>1. PICK t \in Tokens :
          CASE t.w \in ValueWords -> GotNext(t, <<>>) /\ A(t)
            [] t.w = "close_square" /\ Top.pc = "only" -> GotNext(t, <<>>) /\ B(t)
            [] t.w = "close_square" /\ Top.pc = "element" /\ TrailingIsAllowed -> GotNext(t, <<t>>) /\ C
            [] OTHER -> GotNext(t, <<>>) /\ Fail(t)
    BY DEF Element, AfterTrailing
  <2>2. t.w \in ValueWords => t.w # "close_square"
    BY NoPathAssumption DEF ValueWords, KeyWords, Strings, Unquoted, Punctuation
  <2> HIDE DEF A, B, C, g
  <2>3. CASE t.w \in ValueWords
    BY <2>1, <2>2, <2>3
  <2>4. CASE t.w = "close_square" /\ Top.pc = "only"
    BY <2>1, <2>2, <2>4
  <2>5. CASE t.w = "close_square" /\ Top.pc = "element" /\ TrailingIsAllowed
    BY <2>1, <2>2, <2>5
  <2>6. CASE /\ t.w \notin ValueWords /\ ~(t.w = "close_square" /\ Top.pc = "only")
             /\ ~(t.w = "close_square" /\ Top.pc = "element" /\ TrailingIsAllowed)
    BY <2>1, <2>6
  <2> QED
    BY <2>3, <2>4, <2>5, <2>6
<1>4. t \in Available
  BY Taken
<1>5. CASE GotNext(t, <<>>) /\ A(t)
  BY <1>1, <1>2, <1>4, <1>5, Taken, CallsWithText
<1>6. CASE GotNext(t, <<>>) /\ B(t)
  BY <1>1, <1>4, <1>6, Taken, ClosedText
<1>7. CASE GotNext(t, <<t>>) /\ C
  <2>1. g.fn = "array" /\ g.nodes = Top.nodes
    BY <1>1, <1>2 DEF IsFrame
  <2>2. SetTop(g)
    BY <1>7
  <2> HIDE DEF g
  <2>3. Holds(g) /\ FrameText(g) = FrameText(Top) /\ Loose(g)
    BY <1>1, <1>2, <2>1, SameText DEF Loose
  <2> QED
    BY <1>1, <1>4, <1>7, <2>2, <2>3, Taken, PutBackText
<1>8. CASE Fail(t)
  BY <1>8, ThrownText DEF Fail
<1> HIDE DEF A, B, C, g
<1> QED
  BY <1>3, <1>5, <1>6, <1>7, <1>8

LEMMA ValueText ==
  ASSUME Inv, LineInv, TextInv, closed \subseteq closed', Value
  PROVE  TextInv'
<1>1. stack # <<>> /\ ctl = Run /\ ctl.op = "run" /\ ctl.op \in {"run", "value"} /\ Top.fn = "values"
  BY Outcomes DEF Value, At
<1>2. Full(stack) /\ Holds(Top) /\ IsFrame(Top)
  BY <1>1, TextTop
<1> DEFINE g == [Top EXCEPT !.pc = "more"]
           fs == Retopped(stack, g)
<1>3. PICK t \in Readable : (GotNext(t, <<>>) \/ Got(t, <<>>)) /\ ParseValue(fs, t)
  BY DEF Value
<1>4. t \in Available /\ Takes(t, <<>>)
  BY <1>3, Taken
<1>5. Holds(g) /\ FrameText(g) = FrameText(Top) /\ ~AtKey(g)
  BY <1>1, <1>2, MovedText DEF AtKey
<1> HIDE DEF g
<1>6. Full(fs) /\ StackText(fs) = StackText(stack) /\ fs # <<>> /\ NoKey(fs)
  BY <1>1, <1>2, <1>5, RetoppedSame DEF NoKey
<1> HIDE DEF fs
<1> QED
  BY <1>1, <1>3, <1>4, <1>6, CallsWithText

\* The values have one more, or layout behind a value.
LEMMA ValueAdded ==
  ASSUME NEW f, Holds(f), f.fn = "values", NEW n, IsTree(n), IsLayout(n), n.k = "token" => Loose(f),
         NEW g, g.fn = "values", g.nodes = Append(f.nodes, n)
  PROVE  Gains(f, g, n.text) /\ Last(g.nodes) = n /\ g.nodes # <<>>
<1> DEFINE ns == f.nodes
           ms == Append(ns, n)
           k  == Len(ns)
<1>1. IsNodes(ns) /\ AreValues(ns) /\ IsSequence(ns) /\ k \in Nat /\ IsSequence(n.text)
  BY DEF Holds, IsNodes, IsSequence, IsTree
<1>2. n.k = "token" /\ ns # <<>> => Last(ns).k # "token"
  BY DEF Loose
<1> HIDE DEF ns
<1>3. /\ ms # <<>> /\ Last(ms) = n /\ Len(ms) = k + 1 /\ ms[k + 1] = n
      /\ \A i \in 1 .. k : ms[i] = ns[i]
  <2>1. ms = Append(ns, n)
    OBVIOUS
  <2>2. Len(ms) = k + 1 /\ ms[k + 1] = n /\ \A i \in 1 .. k : ms[i] = ns[i]
    BY <1>1, Pushing
  <2> HIDE DEF ms
  <2>3. ms # <<>> /\ ms[Len(ms)] = n
    BY <1>1, <2>1, PushedIsLast
  <2> QED
    BY <2>2, <2>3 DEF Last
<1>4. IsNodes(ms) /\ TextOf(ms) = TextOf(ns) \o n.text
  BY <1>1, PartAdded
<1> HIDE DEF ms
<1>5. ASSUME NEW i \in 1 .. k + 1
      PROVE  IsTree(ms[i]) /\ IsLayout(ms[i])
  <2>1. i \in 1 .. k \/ i = k + 1
    BY <1>1
  <2> QED
    BY <1>1, <1>3, <2>1 DEF AreValues
<1>6. ASSUME NEW i \in 2 .. k + 1
      PROVE  ~(ms[i - 1].k = "token" /\ ms[i].k = "token")
  <2>1. CASE i = k + 1
    <3>1. k # 0 /\ k \in 1 .. k /\ i - 1 = k
      BY <1>1, <2>1
    <3>2. ns # <<>>
      BY <3>1, EmptyIsSequence
    <3>3. Last(ns) = ns[k]
      BY DEF Last
    <3> QED
      BY <1>2, <1>3, <2>1, <3>1, <3>2, <3>3
  <2>2. CASE i # k + 1
    <3>1. i \in 2 .. k /\ i - 1 \in 1 .. k /\ i \in 1 .. k
      BY <1>1, <2>2
    <3> QED
      BY <1>1, <1>3, <3>1 DEF AreValues
  <2> QED
    BY <2>1, <2>2
<1>7. AreValues(ms)
  BY <1>3, <1>5, <1>6 DEF AreValues
<1>8. Holds(g)
  BY <1>4, <1>7 DEF Holds, ms, ns
<1>9. FrameText(f) = TextOf(ns) /\ FrameText(g) = TextOf(ms)
  BY <1>8, FrameTexts DEF ns, ms
<1> QED
  BY <1>3, <1>4, <1>8, <1>9 DEF Gains, ms, ns

\* Between two tokens of layout there is another token.
LEMMA BetweenText ==
  ASSUME Inv, LineInv, TextInv, closed \subseteq closed', Between
  PROVE  TextInv'
<1>1. stack # <<>> /\ ctl = Run /\ ctl.op = "run" /\ ctl.op \in {"run", "value"} /\ Top.fn = "values"
  BY Outcomes DEF Between, At
<1>2. Full(stack) /\ Holds(Top) /\ IsFrame(Top) /\ Segment
  BY <1>1, TextTop, TextFacts
<1>3. PICK t \in Readable : t.w = "ignored" /\ Got(t, <<>>) /\ SetTop(AddTo(Top, Leaf("token", t)))
  BY DEF Between
<1> DEFINE n == Leaf("token", t)
           g == AddTo(Top, n)
<1>4. t \in Available /\ Takes(t, <<>>) /\ SetTop(g)
  BY <1>3, Taken
<1>5. IsTree(n) /\ IsLayout(n) /\ n.text = <<t>> /\ n.t = t /\ IsSequence(<<t>>)
  BY <1>3, TokenTexts DEF IsLayout, Leaf
<1> HIDE DEF n
<1>6. g.fn = "values" /\ g.nodes = Append(Top.nodes, n)
  BY <1>1, <1>2 DEF AddTo, IsFrame
<1> HIDE DEF g
<1>7. Loose(Top)
  <2> SUFFICES ASSUME ~Loose(Top)
               PROVE  FALSE
    OBVIOUS
  <2> DEFINE last == Last(Top.nodes)
  <2>1. ReadUpTo # 0 /\ EndsWith(Top, tokens[ReadUpTo])
    BY <1>1 DEF TextInv, Top
  <2>2. Top.nodes # <<>> /\ last.k = "token" /\ last.t = tokens[ReadUpTo]
    BY <2>1 DEF Loose, EndsWith
  <2>3. IsLayout(last)
    <3>1. IsSequence(Top.nodes) /\ AreValues(Top.nodes)
      BY <1>1, <1>2 DEF Holds, IsNodes
    <3>2. Len(Top.nodes) \in Nat \ {0}
      BY <2>2, <3>1, Popping
    <3>3. Len(Top.nodes) \in 1 .. Len(Top.nodes)
      BY <3>2
    <3> QED
      BY <3>1, <3>3 DEF AreValues, Last
  <2>4. tokens[ReadUpTo].w = "ignored"
    BY <2>2, <2>3 DEF IsLayout
  <2>5. PICK back : back = <<>> /\ IsSequence(back) /\ Len(back) = 0 /\ 1 .. Len(back) = {}
    BY EmptyIsSequence
  <2>6. Takes(t, back) /\ Len(back) <= ReadUpTo + 1
    BY <1>1, <1>4, <2>5, TextFacts
  <2>7. tokens[ReadUpTo].w # "ignored"
    BY <1>2, <1>3, <1>4, <2>1, <2>5, <2>6, TextTaken
  <2> QED
    BY <2>4, <2>7
<1>8. Gains(Top, g, <<t>>) /\ Last(g.nodes) = n
  BY <1>1, <1>2, <1>5, <1>6, <1>7, ValueAdded
<1>9. /\ ctl'.op = "run" /\ Sound(stack', ctl') /\ Last(stack') = g
      /\ Total(stack', ctl') = StackText(stack) \o <<t>>
  BY <1>1, <1>2, <1>4, <1>5, <1>8, GoesOnText
<1>10. EndsWith(Last(stack'), t)
  BY <1>5, <1>8, <1>9 DEF EndsWith
<1> QED
  BY <1>1, <1>4, <1>9, <1>10, ReadsOne

LEMMA ValueParsedText ==
  ASSUME Inv, LineInv, TextInv, closed \subseteq closed', stack # <<>>, ValueParsed
  PROVE  TextInv'
<1>1. Top.fn = "values" /\ ctl.op = "value" /\ ctl.op \in {"run", "value"} /\ UNCHANGED <<tokens, buffer>>
  BY DEF ValueParsed
<1>2. /\ Full(stack) /\ Holds(Top) /\ IsFrame(Top) /\ IsTree(ctl.v) /\ ctl.v.k # "token" /\ IsSequence(ctl.v.text)
      /\ Total(stack, ctl) = StackText(stack) \o ctl.v.text
  BY <1>1, TextTop
<1> DEFINE g == AddTo(Top, ctl.v)
<1>3. SetTop(g)
  BY DEF ValueParsed
<1>4. g.fn = "values" /\ g.nodes = Append(Top.nodes, ctl.v)
  BY <1>1, <1>2 DEF AddTo, IsFrame
<1> HIDE DEF g
<1>5. Gains(Top, g, ctl.v.text) /\ Loose(g)
  <2>1. IsLayout(ctl.v)
    BY <1>2 DEF IsLayout
  <2>2. Gains(Top, g, ctl.v.text) /\ Last(g.nodes) = ctl.v
    <3> DEFINE f == Top
               v == ctl.v
    <3>1. Holds(f) /\ f.fn = "values" /\ IsTree(v) /\ IsLayout(v) /\ v.k # "token"
      BY <1>1, <1>2, <2>1
    <3>2. g.fn = "values" /\ g.nodes = Append(f.nodes, v)
      BY <1>4
    <3> HIDE DEF f, v
    <3>3. Gains(f, g, v.text) /\ Last(g.nodes) = v
      BY <3>1, <3>2, ValueAdded
    <3> QED
      BY <3>3 DEF f, v
  <2> QED
    BY <1>2, <2>2 DEF Loose
<1>6. ctl'.op = "run" /\ Sound(stack', ctl') /\ Last(stack') = g /\ Total(stack', ctl') = Total(stack, ctl)
  BY <1>2, <1>3, <1>5, GoesOnText
<1> QED
  BY <1>1, <1>5, <1>6, ReadsNothing

\* consolidate_values keeps all but a last token of layout, which it puts back.
LEMMA ValuesSplit ==
  ASSUME NEW values, IsNodes(values), AreValues(values), NEW kept, kept = SubSeq(values, 1, LastValue(values))
  PROVE  \/ kept = values /\ PutBack(values) = <<>>
         \/ \E last : /\ values = Append(kept, last) /\ last = Last(values) /\ last.k = "token"
                      /\ PutBack(values) = <<last.t>> /\ last.text = <<last.t>> /\ IsNodes(kept) /\ values # <<>>
<1> DEFINE n == Len(values)
           m == LastValue(values)
           S == {values[i] : i \in 1 .. n}
           rest == SubSeq(values, m + 1, n)
           behind == TokensOfLayout(rest)
<1>1. /\ IsSequence(values) /\ n \in Nat /\ m \in 0 .. n /\ values = [i \in 1 .. n |-> values[i]]
      /\ m # 0 => IsValue(values[m])
      /\ \A j \in 1 .. n : j > m => ~IsValue(values[j])
  BY LastValueIs DEF IsNodes, IsSequence
<1>2. values \in Seq(S)
  BY <1>1, SequenceOverElements
<1> HIDE DEF n, m, S
<1>3. m = n \/ m + 1 = n
  <2> SUFFICES ASSUME m # n, m + 1 # n
               PROVE  FALSE
    OBVIOUS
  <2>1. m + 1 \in 1 .. n /\ m + 2 \in 2 .. n /\ m + 2 \in 1 .. n /\ m + 1 > m /\ m + 2 > m /\ (m + 2) - 1 = m + 1
    BY <1>1
  <2>2. ~IsValue(values[m + 1]) /\ ~IsValue(values[m + 2])
    BY <1>1, <2>1
  <2>3. ~(values[(m + 2) - 1].k = "token" /\ values[m + 2].k = "token")
    BY <2>1 DEF AreValues, n
  <2> QED
    BY <2>1, <2>2, <2>3 DEF IsValue
<1>4. /\ IsSequence(kept) /\ Len(kept) = m /\ \A i \in 1 .. m : kept[i] = values[i]
  <2>1. m \in Nat /\ m <= n
    BY <1>1
  <2>2. kept = SubSeq(values, 1, m)
    BY DEF m
  <2>3. /\ kept \in Seq(S) /\ Len(kept) = (IF 1 <= m THEN m - 1 + 1 ELSE 0)
        /\ \A i \in 1 .. m - 1 + 1 : kept[i] = values[1 + i - 1]
    <3>1. \A i \in 1 .. m : values[i] \in S
      BY <1>1, <2>1 DEF S, n
    <3>2. 1 \in Int /\ m \in Int
      BY <2>1
    <3>3. /\ SubSeq(values, 1, m) \in Seq(S)
          /\ Len(SubSeq(values, 1, m)) = IF 1 <= m THEN m - 1 + 1 ELSE 0
          /\ \A i \in 1 .. m - 1 + 1 : SubSeq(values, 1, m)[i] = values[1 + i - 1]
      BY <3>1, <3>2, SubSeqProperties
    <3> QED
      BY <2>2, <3>3, Zenon
  <2>4. Len(kept) = m /\ \A i \in 1 .. m : kept[i] = values[i]
    <3>1. (IF 1 <= m THEN m - 1 + 1 ELSE 0) = m
      BY <2>1
    <3>2. \A i \in 1 .. m : i \in 1 .. m - 1 + 1 /\ 1 + i - 1 = i
      BY <2>1
    <3> QED
      BY <2>3, <3>1, <3>2
  <2> QED
    BY <2>3, <2>4, SequenceIsSequence
<1>5. PutBack(values) \in {behind, Reverse(behind)}
  BY DEF PutBack, n, m
<1>6. CASE m = n
  <2>1. kept = values
    BY <1>1, <1>4, <1>6, SameElements DEF n
  <2>2. rest = <<>>
    BY <1>1, <1>2, <1>6 DEF n
  <2> HIDE DEF rest
  <2>3. behind = <<>>
    <3>1. DOMAIN rest = 1 .. 0
      BY <2>2, EmptyIsSequence
    <3>2. behind = [i \in 1 .. 0 |-> behind[i]]
      BY <3>1 DEF TokensOfLayout
    <3> HIDE DEF behind
    <3>3. IsSequence(behind) /\ Len(behind) = 0
      BY <3>2, FunctionIsSequence
    <3> QED
      BY <3>3, NoElements
  <2> HIDE DEF behind
  <2>4. Reverse(behind) = <<>>
    <3> DEFINE back == Reverse(behind)
    <3>1. back = [i \in 1 .. 0 |-> back[i]]
      BY <2>3, EmptyIsSequence DEF Reverse
    <3> HIDE DEF back
    <3>2. IsSequence(back) /\ Len(back) = 0
      BY <3>1, FunctionIsSequence
    <3>3. back = <<>>
      BY <3>2, NoElements
    <3> QED
      BY <3>3 DEF back
  <2> QED
    BY <1>5, <2>1, <2>3, <2>4
<1>7. CASE m + 1 = n
  <2> DEFINE last == values[n]
             u == last.t
  <2>1. n \in 1 .. n /\ n > m
    BY <1>1, <1>7
  <2>2. last.k = "token" /\ last.text = <<u>> /\ Last(values) = last
    <3>1. ~IsValue(last) /\ IsLayout(last)
      BY <1>1, <2>1 DEF AreValues, n
    <3> QED
      BY <3>1 DEF IsValue, IsLayout, Last, n
  <2>3. values = Append(kept, last)
    <3>1. /\ IsSequence([i \in 1 .. m |-> values[i]]) /\ Len([i \in 1 .. m |-> values[i]]) = m
          /\ values = Append([i \in 1 .. m |-> values[i]], values[m + 1])
      BY <1>1, <1>7, LastApart DEF n
    <3>2. kept = [i \in 1 .. m |-> values[i]]
      <4> DEFINE first == [i \in 1 .. m |-> values[i]]
      <4>1. \A i \in 1 .. m : kept[i] = first[i]
        BY <1>4
      <4>2. IsSequence(first) /\ Len(first) = m
        BY <3>1
      <4> HIDE DEF first
      <4>3. kept = first
        BY <1>4, <4>1, <4>2, SameElements
      <4> QED
        BY <4>3 DEF first
    <3> QED
      BY <1>7, <3>1, <3>2
  <2>4. IsNodes(kept)
    <3>1. \A i \in 1 .. m : i \in 1 .. n
      BY <1>1
    <3> QED
      BY <1>4, <3>1 DEF IsNodes, n
  <2>5. values # <<>>
    <3>1. n # 0
      BY <2>1
    <3> QED
      BY <3>1, EmptyIsSequence DEF n
  <2> HIDE DEF last
  <2>6. DOMAIN rest = 1 .. 1 /\ rest[1] = last
    <3>1. rest = SubSeq(values, n, n)
      BY <1>7
    <3> HIDE DEF rest
    <3>2. Len(rest) = 1 /\ rest \in Seq(S) /\ rest[1] = values[n]
      BY <1>2, <2>1, <3>1 DEF n
    <3>3. DOMAIN rest = 1 .. 1
      BY <3>2
    <3> QED
      BY <3>2, <3>3 DEF last
  <2> HIDE DEF rest
  <2>7. IsSequence(behind) /\ Len(behind) = 1 /\ behind[1] = u
    <3>1. behind = [i \in 1 .. 1 |-> behind[i]] /\ behind[1] = u
      BY <2>6 DEF TokensOfLayout
    <3> HIDE DEF behind
    <3> QED
      BY <3>1, FunctionIsSequence
  <2> HIDE DEF behind, u
  <2>8. Len(<<u>>) = 1 /\ IsSequence(<<u>>) /\ <<u>>[1] = u /\ \A i \in 1 .. 1 : i = 1
    <3>1. Len(<<u>>) = 1 /\ IsSequence(<<u>>) /\ <<u>>[1] = u
      BY DEF IsSequence
    <3>2. \A i \in 1 .. 1 : i = 1
      OBVIOUS
    <3> QED
      BY <3>1, <3>2
  <2>9. behind = <<u>>
    <3>1. \A i \in 1 .. 1 : behind[i] = <<u>>[i]
      BY <2>7, <2>8
    <3> QED
      BY <2>7, <2>8, <3>1, SameElements
  <2>10. Reverse(behind) = <<u>>
    <3> DEFINE back == Reverse(behind)
    <3>1. back = [i \in 1 .. 1 |-> back[i]] /\ back[1] = u
      <4>1. back = [i \in 1 .. 1 |-> behind[(1 - i) + 1]]
        BY <2>7 DEF Reverse
      <4>2. (1 - 1) + 1 = 1 /\ 1 \in 1 .. 1
        OBVIOUS
      <4> HIDE DEF back
      <4> QED
        BY <2>7, <4>1, <4>2
    <3> HIDE DEF back
    <3>2. IsSequence(back) /\ Len(back) = 1
      BY <3>1, FunctionIsSequence
    <3>3. \A i \in 1 .. 1 : back[i] = <<u>>[i]
      BY <2>8, <3>1
    <3>4. back = <<u>>
      BY <2>8, <3>2, <3>3, SameElements
    <3> QED
      BY <3>4 DEF back
  <2> QED
    BY <1>5, <2>2, <2>3, <2>4, <2>5, <2>9, <2>10 DEF u
<1> QED
  BY <1>3, <1>6, <1>7

\* What consolidate_values returns has the text of the nodes it keeps.
LEMMA KeptText ==
  ASSUME NEW kept, IsNodes(kept), \A i \in 1 .. Len(kept) : IsTree(kept[i]), NEW p, Full(p), NoKey(p), stack' = p,
         ctl' = CASE kept = <<>> -> Run
                  [] Len(kept) = 1 -> Returns(kept[1])
                  [] OTHER -> Returns(Node("concat", kept))
  PROVE  Sound(stack', ctl') /\ Total(stack', ctl') = StackText(p) \o TextOf(kept)
<1>1. IsSequence(StackText(p)) /\ IsSequence(TextOf(kept))
  BY Frames, Parts
<1>2. kept = <<>> => Len(kept) # 1
  BY EmptyIsSequence
<1>3. ASSUME NEW n, IsTree(n), n.text = TextOf(kept), ctl' = Returns(n)
      PROVE  Sound(stack', ctl') /\ Total(stack', ctl') = StackText(p) \o TextOf(kept)
  <2>1. ctl'.op = "value" /\ ctl'.v = n
    BY <1>3 DEF Returns
  <2> QED
    BY <1>3, <2>1 DEF Sound, Total
<1>4. CASE kept = <<>>
  <2>1. ctl' = Run /\ ctl'.op = "run"
    BY <1>2, <1>4, Outcomes
  <2>2. Sound(stack', ctl')
    BY <2>1 DEF Sound
  <2>3. Total(stack', ctl') = StackText(p)
    BY <2>1, <2>2, TotalOf
  <2>4. TextOf(kept) = <<>> /\ StackText(p) \o <<>> = StackText(p)
    BY <1>1, <1>4, NoParts, JoiningNothing
  <2> QED
    BY <2>2, <2>3, <2>4
<1>5. CASE kept # <<>> /\ Len(kept) = 1
  <2> DEFINE n == kept[1]
  <2>1. 1 \in 1 .. 1 /\ \A i \in 1 .. 1 : i = 1
    OBVIOUS
  <2>2. IsTree(n) /\ IsSequence(n.text)
    BY <1>5, <2>1 DEF IsNodes
  <2>3. ctl' = Returns(n)
    BY <1>5
  <2>4. kept = <<n>>
    <3> DEFINE ns == <<n>>
    <3>1. IsSequence(ns) /\ Len(ns) = 1 /\ ns[1] = n
      BY DEF IsSequence
    <3>2. n = kept[1] /\ IsSequence(kept)
      BY DEF IsNodes
    <3> HIDE DEF n, ns
    <3>3. kept = ns
      BY <1>5, <2>1, <3>1, <3>2, SameElements
    <3> QED
      BY <3>3 DEF ns
  <2> HIDE DEF n
  <2>5. TextOf(kept) = n.text
    BY <2>2, <2>4, OnePart
  <2> QED
    BY <1>3, <2>2, <2>3, <2>5
<1>6. CASE kept # <<>> /\ Len(kept) # 1
  <2> DEFINE n == Node("concat", kept)
  <2>1. IsTree(n) /\ n.text = TextOf(kept)
    BY Nodes
  <2>2. ctl' = Returns(n)
    BY <1>6
  <2> HIDE DEF n
  <2> QED
    BY <1>3, <2>1, <2>2
<1> QED
  BY <1>4, <1>5, <1>6

LEMMA Pair ==
  ASSUME NEW t, NEW u
  PROVE  <<t>> \o <<u>> = <<t, u>>
<1> DEFINE a == <<t>>
           b == <<u>>
           c == <<t, u>>
           d == a \o b
<1>1. IsSequence(a) /\ Len(a) = 1 /\ a[1] = t /\ IsSequence(b) /\ Len(b) = 1 /\ b[1] = u
  BY DEF IsSequence
<1>2. IsSequence(c) /\ Len(c) = 2 /\ c[1] = t /\ c[2] = u
  BY DEF IsSequence
<1> HIDE DEF a, b, c
<1>3. /\ IsSequence(d) /\ Len(d) = Len(a) + Len(b)
      /\ \A i \in 1 .. Len(a) : d[i] = a[i]
      /\ \A i \in 1 .. Len(b) : d[Len(a) + i] = b[i]
  <2>1. IsSequence(a) /\ IsSequence(b)
    BY <1>1
  <2> QED
    BY <2>1, Joining
<1> HIDE DEF d
<1>4. 1 \in 1 .. 1 /\ 1 + 1 = 2 /\ \A i \in 1 .. 2 : i = 1 \/ i = 2
  OBVIOUS
<1>5. Len(d) = 2 /\ d[1] = t /\ d[2] = u
  BY <1>1, <1>3, <1>4
<1>6. c = d
  BY <1>2, <1>3, <1>4, <1>5, SameElements
<1> QED
  BY <1>6 DEF a, b, c, d

LEMMA ConsolidatedText ==
  ASSUME Inv, LineInv, TextInv, closed \subseteq closed', Consolidated
  PROVE  TextInv'
<1>1. /\ ctl = Run /\ stack # <<>> /\ ctl.op = "run" /\ ctl.op \in {"run", "value"}
      /\ Top.fn = "values" /\ stack' = Popped(stack)
  BY Outcomes DEF Consolidated, At
<1>2. Full(stack) /\ Holds(Top) /\ IsFrame(Top) /\ IsSequence(stack) /\ Stacked(stack) /\ Top = Last(stack)
  BY <1>1, TextTop
<1> DEFINE p == Popped(stack)
           values == Top.nodes
<1>3. p # <<>>
  BY <1>1, <1>2, TopFacts, GoodPopped DEF Roots, Counted
<1>4. Quiet(Last(p))
  BY <1>1, <1>2, <1>3, StackedPopped
<1>5. Full(p) /\ NoKey(p) /\ StackText(stack) = StackText(p) \o TextOf(values) /\ IsNodes(values) /\ AreValues(values)
  BY <1>1, <1>2, TextApart, FrameTexts DEF Holds
<1>6. Loose(Last(p))
  BY <1>4 DEF Loose, Quiet
<1>7. PICK kept : kept = SubSeq(values, 1, LastValue(values))
  OBVIOUS
<1>8. PICK t \in Readable :
        /\ GotNext(t, <<t>> \o PutBack(values)) \/ Got(t, <<t>> \o PutBack(values))
        /\ ctl' = CASE kept = <<>> -> Run
                    [] Len(kept) = 1 -> Returns(kept[1])
                    [] OTHER -> Returns(Node("concat", kept))
  BY <1>7 DEF Consolidated
<1>9. t \in Available /\ Takes(t, <<t>> \o PutBack(values))
  BY <1>8, Taken
<1>10. stack' = p
  BY <1>1
<1> HIDE DEF p, values
<1>11. CASE kept = values /\ PutBack(values) = <<>>
  <2>1. Sound(stack', ctl') /\ Total(stack', ctl') = StackText(stack)
    <3>1. IsNodes(kept) /\ \A i \in 1 .. Len(kept) : IsTree(kept[i])
      BY <1>5, <1>11 DEF AreValues
    <3> QED
      BY <1>5, <1>8, <1>10, <1>11, <3>1, KeptText
  <2>2. <<t>> \o <<>> = <<t>>
    BY TokenTexts, JoiningNothing
  <2> QED
    BY <1>1, <1>6, <1>9, <1>10, <1>11, <2>1, <2>2, GivesBackOne
<1>12. ASSUME NEW last, values = Append(kept, last), last = Last(values), last.k = "token",
              PutBack(values) = <<last.t>>, last.text = <<last.t>>, IsNodes(kept), values # <<>>
       PROVE  TextInv'
  <2> DEFINE u == last.t
             a == StackText(p)
             b == TextOf(kept)
  <2>1. \A i \in 1 .. Len(kept) : IsTree(kept[i])
    <3>1. Len(values) = Len(kept) + 1 /\ Len(kept) \in Nat /\ \A i \in 1 .. Len(kept) : values[i] = kept[i]
      BY <1>12, Pushing DEF IsNodes, IsSequence
    <3>2. \A i \in 1 .. Len(kept) : i \in 1 .. Len(values)
      BY <3>1
    <3> QED
      BY <1>5, <3>1, <3>2 DEF AreValues
  <2>2. Sound(stack', ctl') /\ Total(stack', ctl') = a \o b
    BY <1>5, <1>8, <1>10, <1>12, <2>1, KeptText
  <2>3. IsSequence(a) /\ IsSequence(b) /\ IsSequence(<<u>>)
    BY <1>5, <1>12, Frames, Parts, TokenTexts
  <2>4. TextOf(values) = b \o <<u>>
    <3>1. IsSequence(last.text)
      BY <1>12, <2>3
    <3> QED
      BY <1>12, <3>1, PartAdded
  <2> HIDE DEF a, b
  <2>5. StackText(stack) = (a \o b) \o <<u>>
    <3> DEFINE c == <<u>>
    <3>1. IsSequence(c)
      BY <2>3
    <3> HIDE DEF c
    <3>2. (a \o b) \o c = a \o (b \o c)
      BY <2>3, <3>1, JoiningThree
    <3> QED
      BY <1>5, <2>4, <3>2 DEF a, c
  <2>6. ReadUpTo # 0 /\ u = tokens[ReadUpTo]
    <3>1. ~Loose(Top)
      BY <1>1, <1>12 DEF Loose, values
    <3>2. Loose(Top) \/ (ReadUpTo # 0 /\ EndsWith(Top, tokens[ReadUpTo]))
      BY <1>1 DEF TextInv, Top
    <3> QED
      BY <1>12, <3>1, <3>2 DEF EndsWith, values
  <2> HIDE DEF u
  <2>7. <<t>> \o <<u>> = <<t, u>>
    BY Pair
  <2>8. Takes(t, <<t, u>>)
    BY <1>9, <1>12, <2>7 DEF u
  <2>9. StackText(stack) = Total(stack', ctl') \o <<u>>
    BY <2>2, <2>5
  <2> QED
    BY <1>1, <1>6, <1>9, <1>10, <2>2, <2>6, <2>8, <2>9, GivesBackTwo
<1>13. \/ kept = values /\ PutBack(values) = <<>>
       \/ \E last : /\ values = Append(kept, last) /\ last = Last(values) /\ last.k = "token"
                    /\ PutBack(values) = <<last.t>> /\ last.text = <<last.t>> /\ IsNodes(kept) /\ values # <<>>
  BY <1>5, <1>7, ValuesSplit
<1> QED
  BY <1>11, <1>12, <1>13

-----------------------------------------------------------------------------
(* The invariant, and the property.                                        *)

LEMMA TextInit == Init => TextInv
<1> SUFFICES ASSUME Init
             PROVE  TextInv
  OBVIOUS
<1> PICK fn \in Entries : stack = <<DocumentFrame(fn, "first")>>
  BY DEF Init
<1>1. tokens = <<>> /\ buffer = <<>> /\ ctl = Run /\ ctl.op = "run" /\ Len(<<>>) = 0
  BY Outcomes, EmptyIsSequence DEF Init
<1> DEFINE f == DocumentFrame(fn, "first")
<1>2. f.fn \in Roots /\ f.pc = "first" /\ f.nodes = <<>>
  BY EntriesAssumption DEF DocumentFrame, Roots
<1>3. stack = <<f>>
  OBVIOUS
<1> HIDE DEF f
<1>4. Holds(f) /\ ~AtKey(f) /\ Loose(f)
  BY <1>2, NoParts DEF Holds, AtKey, Loose, Roots
<1>5. FrameText(f) = <<>>
  BY <1>2, <1>4, FrameTexts, NoParts DEF Roots
<1>6. stack = Append(<<>>, f)
  BY <1>3
<1>7. NoKey(<<>>) /\ <<>> \o <<>> = <<>>
  BY EmptyIsSequence, JoiningNothing DEF NoKey
<1>8. Full(stack) /\ StackText(stack) = <<>> /\ Last(stack) = f /\ stack # <<>>
  BY <1>4, <1>5, <1>6, <1>7, NoFrames, TextPushed, PushedFrame
<1>9. Sound(stack, ctl)
  BY <1>1, <1>8 DEF Sound
<1>10. Total(stack, ctl) = <<>>
  BY <1>1, <1>8, <1>9, TotalOf
<1>11. 1 .. 0 = {} /\ 2 .. 0 = {} /\ 0 <= 0 /\ 0 - 0 = 0
  OBVIOUS
<1>12. Segment /\ ReadUpTo = 0
  BY <1>1, <1>11 DEF Segment, ReadUpTo
<1>13. InOrder(Total(stack, ctl), tokens, ReadUpTo, stack, closed)
  BY <1>1, <1>10, <1>11, <1>12, EmptyIsSequence DEF InOrder
<1> QED
  BY <1>1, <1>4, <1>8, <1>9, <1>12, <1>13 DEF TextInv

LEMMA TextNext == Inv /\ LineInv /\ TextInv /\ [Next]_vars => TextInv'
<1> SUFFICES ASSUME Inv, LineInv, TextInv, [Next]_vars
             PROVE  TextInv'
  OBVIOUS
<1>0. closed \subseteq closed'
  <2>1. CASE Include
    BY <2>1 DEF Include
  <2>2. CASE UNCHANGED closed
    BY <2>2
  <2> QED
    BY <2>1, <2>2 DEF Next, vars
<1>1. Inv'
  BY InvNext
<1>2. CASE UNCHANGED vars
  BY <1>2 DEF vars, TextInv, Segment, ReadUpTo, Total, Sound
<1>3. CASE Collect
  BY <1>0, <1>3, CollectText
<1>4. CASE NotJson
  BY <1>0, <1>4, NotJsonText
<1>5. CASE Root
  BY <1>0, <1>5, RootText
<1>6. CASE Trailing
  BY <1>0, <1>6, TrailingText
<1>7. CASE Single
  BY <1>0, <1>7, SingleText
<1>8. CASE SingleEnds
  BY <1>0, <1>8, SingleEndsText
<1>9. CASE Member
  BY <1>0, <1>1, <1>9, MemberText
<1>10. CASE Key
  BY <1>0, <1>10, KeyText
<1>11. CASE Separator
  BY <1>0, <1>11, SeparatorText
<1>12. CASE FieldValue
  BY <1>0, <1>12, FieldValueText
<1>13. CASE CloseObject
  BY <1>0, <1>1, <1>13, CloseObjectText
<1>14. CASE Include
  BY <1>0, <1>14, IncludeText
<1>15. CASE SeparatorLayout
  BY <1>0, <1>15, SeparatorLayoutText
<1>16. CASE ElementSeparator
  BY <1>0, <1>16, ElementSeparatorText
<1>17. CASE Element
  BY <1>0, <1>1, <1>17, ElementText
<1>18. CASE CloseArray
  BY <1>0, <1>1, <1>18, CloseArrayText
<1>19. CASE Value
  BY <1>0, <1>19, ValueText
<1>20. CASE Between
  BY <1>0, <1>20, BetweenText
<1>21. CASE Consolidated
  BY <1>0, <1>21, ConsolidatedText
<1>22. CASE stack # <<>> /\ RootParsed
  BY <1>0, <1>22, RootParsedText
<1>23. CASE stack # <<>> /\ SingleParsed
  BY <1>0, <1>23, SingleParsedText
<1>24. CASE stack # <<>> /\ FieldParsed
  BY <1>0, <1>24, FieldParsedText
<1>25. CASE stack # <<>> /\ ElementParsed
  BY <1>0, <1>25, ElementParsedText
<1>26. CASE stack # <<>> /\ ValueParsed
  BY <1>0, <1>26, ValueParsedText
<1> QED
  BY <1>2, <1>3, <1>4, <1>5, <1>6, <1>7, <1>8, <1>9, <1>10, <1>11, <1>12, <1>13, <1>14, <1>15, <1>16, <1>17,
     <1>18, <1>19, <1>20, <1>21, <1>22, <1>23, <1>24, <1>25, <1>26 DEF Next

\* NothingIsLost, from what is proved of the tokens put back.
LEMMA AllIsThere ==
  ASSUME Inv, TextInv
  PROVE  NothingIsLost
<1> DEFINE n == Len(tokens)
           b == Len(buffer)
           r == ReadUpTo
           c == Total(stack, ctl)
           back == Reverse(buffer)
           held == c \o back
           m == Len(c)
<1> SUFFICES ASSUME ctl.op \in {"run", "value"}
             PROVE  /\ \A i, j \in DOMAIN held : i < j => held[i].id < held[j].id
                    /\ \A i \in DOMAIN held : \E j \in DOMAIN tokens : held[i] = tokens[j]
                    /\ \A j \in DOMAIN tokens : \/ \E i \in DOMAIN held : held[i] = tokens[j]
                                                \/ tokens[j] \in closed \/ (Succeeded /\ tokens[j].w = "end")
  <2>1. held = InNodes
    BY DEF InNodes, Consumed, Total
  <2> HIDE DEF held
  <2> QED
    BY <2>1 DEF NothingIsLost
<1>1. /\ n \in Nat /\ b \in Nat /\ b <= n /\ r \in Nat /\ r = n - b /\ DOMAIN tokens = 1 .. n
      /\ \A i \in 1 .. n : tokens[i].id = i
      /\ \A i \in 1 .. b : buffer[i] = tokens[n - i + 1]
      /\ InOrder(c, tokens, r, stack, closed)
  BY TextFacts DEF Inv, IsSequence, Segment, ReadUpTo
<1>2. /\ IsSequence(c) /\ m \in Nat
      /\ \A i, j \in 1 .. m : i < j => c[i].id < c[j].id
      /\ \A i \in 1 .. m : \E j \in 1 .. r : c[i] = tokens[j]
      /\ \A j \in 1 .. r : NoNode(tokens[j], stack, closed) \/ \E i \in 1 .. m : c[i] = tokens[j]
  BY <1>1 DEF InOrder, IsSequence
<1>3. IsSequence(back) /\ Len(back) = b /\ \A i \in 1 .. b : back[i] = tokens[r + i]
  <2>1. back = [i \in 1 .. b |-> back[i]] /\ \A i \in 1 .. b : back[i] = buffer[b - i + 1]
    BY DEF Reverse
  <2> HIDE DEF back
  <2>2. IsSequence(back) /\ Len(back) = b
    BY <1>1, <2>1, FunctionIsSequence
  <2>3. ASSUME NEW i \in 1 .. b
        PROVE  back[i] = tokens[r + i]
    <3>1. b - i + 1 \in 1 .. b /\ n - (b - i + 1) + 1 = r + i
      BY <1>1
    <3> QED
      BY <1>1, <2>1, <3>1
  <2> QED
    BY <2>2, <2>3
<1> HIDE DEF c, back
<1>4. /\ IsSequence(held) /\ Len(held) = m + b
      /\ \A i \in 1 .. m : held[i] = c[i]
      /\ \A i \in 1 .. b : held[m + i] = tokens[r + i]
  <2>1. /\ IsSequence(held) /\ Len(held) = Len(c) + Len(back)
        /\ \A i \in 1 .. Len(c) : held[i] = c[i]
        /\ \A i \in 1 .. Len(back) : held[Len(c) + i] = back[i]
    <3>1. IsSequence(c) /\ IsSequence(back)
      BY <1>2, <1>3
    <3> QED
      BY <3>1, Joining
  <2> HIDE DEF held
  <2> QED
    BY <1>3, <2>1
<1> HIDE DEF held
<1>5. DOMAIN held = 1 .. m + b
  BY <1>4 DEF IsSequence
<1> HIDE DEF n, b, r, m
<1>6. ASSUME NEW i \in 1 .. m + b
      PROVE  \/ i \in 1 .. m /\ \E j \in 1 .. r : held[i] = tokens[j] /\ held[i].id = j
             \/ i \notin 1 .. m /\ r + (i - m) \in r + 1 .. n /\ held[i] = tokens[r + (i - m)] /\ held[i].id = r + (i - m)
  <2>1. CASE i \in 1 .. m
    <3>1. PICK j \in 1 .. r : c[i] = tokens[j]
      BY <1>2, <2>1
    <3>2. j \in 1 .. n
      BY <1>1
    <3> QED
      BY <1>1, <1>4, <2>1, <3>1, <3>2
  <2>2. CASE i \notin 1 .. m
    <3>1. i - m \in 1 .. b /\ m + (i - m) = i
      BY <1>1, <1>2, <2>2
    <3>2. r + (i - m) \in r + 1 .. n /\ r + (i - m) \in 1 .. n
      BY <1>1, <1>2, <3>1
    <3> QED
      BY <1>1, <1>4, <2>2, <3>1, <3>2
  <2> QED
    BY <2>1, <2>2
<1>7. ASSUME NEW i \in DOMAIN held, NEW j \in DOMAIN held, i < j
      PROVE  held[i].id < held[j].id
  <2>1. i \in 1 .. m + b /\ j \in 1 .. m + b
    BY <1>5
  <2>2. CASE j \in 1 .. m
    <3>1. i \in 1 .. m
      BY <1>1, <1>2, <1>7, <2>1, <2>2
    <3> QED
      BY <1>2, <1>4, <1>7, <2>2, <3>1
  <2>3. CASE j \notin 1 .. m /\ i \in 1 .. m
    <3>1. PICK k \in 1 .. r : held[i].id = k
      BY <1>6, <2>1, <2>3
    <3>2. held[j].id = r + (j - m) /\ r + (j - m) \in r + 1 .. n
      BY <1>6, <2>1, <2>3
    <3> QED
      BY <1>1, <3>1, <3>2
  <2>4. CASE j \notin 1 .. m /\ i \notin 1 .. m
    <3>1. held[i].id = r + (i - m) /\ held[j].id = r + (j - m)
      BY <1>6, <2>1, <2>4
    <3> QED
      BY <1>1, <1>2, <1>7, <2>1, <3>1
  <2> QED
    BY <2>2, <2>3, <2>4
<1>8. ASSUME NEW i \in DOMAIN held
      PROVE  \E j \in DOMAIN tokens : held[i] = tokens[j]
  <2>1. PICK j \in 1 .. n : held[i] = tokens[j]
    BY <1>1, <1>5, <1>6
  <2> QED
    BY <1>1, <2>1
<1>9. ASSUME NEW j \in DOMAIN tokens
      PROVE  \/ \E i \in DOMAIN held : held[i] = tokens[j]
             \/ tokens[j] \in closed \/ (Succeeded /\ tokens[j].w = "end")
  <2>1. CASE j \in 1 .. r
    <3>1. CASE NoNode(tokens[j], stack, closed)
      <4>1. stack = <<>> => ctl.op = "value"
        BY DEF Inv
      <4> QED
        BY <3>1, <4>1 DEF NoNode, Succeeded
    <3>2. CASE \E i \in 1 .. m : c[i] = tokens[j]
      <4>1. PICK i \in 1 .. m : c[i] = tokens[j]
        BY <3>2
      <4>2. i \in DOMAIN held /\ held[i] = tokens[j]
        BY <1>1, <1>2, <1>4, <1>5, <4>1
      <4> QED
        BY <4>2
    <3> QED
      BY <1>2, <2>1, <3>1, <3>2
  <2>2. CASE j \notin 1 .. r
    <3>1. j - r \in 1 .. b /\ r + (j - r) = j
      BY <1>1, <2>2
    <3>2. m + (j - r) \in DOMAIN held /\ held[m + (j - r)] = tokens[j]
      <4>1. m + (j - r) \in 1 .. m + b
        BY <1>1, <1>2, <3>1
      <4> QED
        BY <1>4, <1>5, <3>1, <4>1
    <3> QED
      BY <3>2
  <2> QED
    BY <2>1, <2>2
<1> QED
  BY <1>7, <1>8, <1>9

\* The tokens that were read are in the nodes and in what is put back, each
\* once and in the order of the text, but for the parenthesis with which an
\* include file("x") ends: whatever way the functions of
\* config_document_parser.cc take through a text, they lose nothing else of it,
\* and say nothing twice and nothing out of its place.
THEOREM NodesKeepTheText == Spec => []NothingIsLost
<1>1. Init => Inv /\ LineInv /\ TextInv
  BY InvInit, LineInit, TextInit
<1>2. (Inv /\ LineInv /\ TextInv) /\ [Next]_vars => (Inv /\ LineInv /\ TextInv)'
  BY InvNext, LineNext, TextNext
<1>3. Inv /\ LineInv /\ TextInv => NothingIsLost
  BY AllIsThere
<1> QED
  BY <1>1, <1>2, <1>3, PTL DEF Spec
=============================================================================
