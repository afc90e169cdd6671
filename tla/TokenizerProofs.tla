--------------------------- MODULE TokenizerProofs ---------------------------
(***************************************************************************)
(* For every text: the tokens are the text, whitespace is text exactly     *)
(* between simple values, and every token is on its line.                  *)
(***************************************************************************)
EXTENDS PathParser, StackProofs

-----------------------------------------------------------------------------
(* The texts of tokens and frames                                          *)

IsTokens(ts) == IsSequence(ts) /\ \A i \in 1 .. Len(ts) : IsSequence(ts[i].text)

LEMMA TextsOfTokens ==
  ASSUME NEW ts, IsTokens(ts)
  PROVE  LET f == [i \in DOMAIN ts |-> ts[i].text]
         IN  AreSequences(f) /\ Len(f) = Len(ts) /\ \A i \in 1 .. Len(ts) : f[i] = ts[i].text
<1> DEFINE f == [i \in DOMAIN ts |-> ts[i].text]
<1>1. Len(ts) \in Nat /\ DOMAIN ts = 1 .. Len(ts)
  BY DEF IsTokens, IsSequence
<1>2. f = [i \in 1 .. Len(ts) |-> f[i]] /\ \A i \in 1 .. Len(ts) : f[i] = ts[i].text
  BY <1>1
<1> HIDE DEF f
<1>3. IsSequence(f) /\ Len(f) = Len(ts)
  BY <1>1, <1>2, FunctionIsSequence
<1>4. AreSequences(f)
  BY <1>1, <1>2, <1>3 DEF AreSequences, IsTokens
<1> QED
  BY <1>2, <1>3, <1>4 DEF f

LEMMA TextOfIsSequence ==
  ASSUME NEW ts, IsTokens(ts)
  PROVE  IsSequence(TextOf(ts))
BY TextsOfTokens, FlattenedIsSequence DEF TextOf

LEMMA TextOfNothing == TextOf(<<>>) = <<>> /\ IsTokens(<<>>)
<1>1. [i \in DOMAIN <<>> |-> <<>>[i].text] = <<>>
  OBVIOUS
<1> QED
  BY <1>1, FlattenedNothing, EmptyIsSequence DEF TextOf, IsTokens

\* One more token adds its text.
LEMMA TextOfAppended ==
  ASSUME NEW ts, IsTokens(ts), NEW t, IsSequence(t.text)
  PROVE  TextOf(Append(ts, t)) = TextOf(ts) \o t.text /\ IsTokens(Append(ts, t))
<1> SUFFICES ASSUME NEW us, us = Append(ts, t)
             PROVE  TextOf(us) = TextOf(ts) \o t.text /\ IsTokens(us)
  OBVIOUS
<1>0. Len(ts) \in Nat /\ IsSequence(ts)
  BY DEF IsTokens, IsSequence
<1>1. /\ IsSequence(us) /\ Len(us) = Len(ts) + 1
      /\ \A i \in 1 .. Len(ts) : us[i] = ts[i]
      /\ us[Len(ts) + 1] = t
  BY <1>0, Pushing
<1>2. ASSUME NEW i \in 1 .. Len(ts) + 1
      PROVE  IsSequence(us[i].text)
  <2>1. CASE i \in 1 .. Len(ts)
    BY <1>1, <2>1 DEF IsTokens
  <2>2. CASE i = Len(ts) + 1
    BY <1>1, <2>2
  <2> QED
    BY <1>0, <2>1, <2>2
<1>3. IsTokens(us)
  BY <1>1, <1>2 DEF IsTokens
<1> DEFINE f == [i \in DOMAIN ts |-> ts[i].text]
           g == [i \in DOMAIN us |-> us[i].text]
<1>4. AreSequences(f) /\ Len(f) = Len(ts) /\ \A i \in 1 .. Len(ts) : f[i] = ts[i].text
  BY TextsOfTokens
<1>11. AreSequences(g) /\ Len(g) = Len(us) /\ \A i \in 1 .. Len(us) : g[i] = us[i].text
  BY <1>3, TextsOfTokens
<1>6. TextOf(ts) = FlattenSeq(f) /\ TextOf(us) = FlattenSeq(g)
  BY DEF TextOf
<1> HIDE DEF f, g
<1>5. AreSequences(g) /\ Len(g) = Len(ts) + 1 /\ \A i \in 1 .. Len(ts) + 1 : g[i] = us[i].text
  BY <1>1, <1>11
<1>7. IsSequence(f) /\ IsSequence(g)
  BY <1>4, <1>5 DEF AreSequences
<1>8. \A i \in 1 .. Len(ts) : g[i] = f[i]
  BY <1>0, <1>1, <1>4, <1>5
<1>9. g[Len(ts) + 1] = t.text /\ IsSequence(g[Len(ts) + 1])
  BY <1>0, <1>1, <1>5
<1>10. FlattenSeq(g) = FlattenSeq(f) \o g[Len(ts) + 1]
  BY <1>0, <1>4, <1>5, <1>7, <1>8, <1>9, FlattenedLonger
<1> QED
  BY <1>3, <1>6, <1>9, <1>10, Zenon

\* A frame.
IsFrame(f) == IsSequence(f.open) /\ IsTokens(f.tokens) /\ IsSequence(f.ws)
AreFrames(fs) == IsSequence(fs) /\ \A i \in 1 .. Len(fs) : IsFrame(fs[i])

LEMMA FrameTextIsSequence ==
  ASSUME NEW f, IsFrame(f)
  PROVE  IsSequence(FrameText(f))
<1>1. IsSequence(f.open) /\ IsSequence(TextOf(f.tokens)) /\ IsSequence(f.ws)
  BY TextOfIsSequence DEF IsFrame
<1>2. IsSequence(f.open \o TextOf(f.tokens))
  BY <1>1, Joining
<1> QED
  BY <1>1, <1>2, Joining DEF FrameText

LEMMA TextsOfFrames ==
  ASSUME NEW fs, AreFrames(fs)
  PROVE  LET f == [i \in DOMAIN fs |-> FrameText(fs[i])]
         IN  AreSequences(f) /\ Len(f) = Len(fs) /\ \A i \in 1 .. Len(fs) : f[i] = FrameText(fs[i])
<1> DEFINE f == [i \in DOMAIN fs |-> FrameText(fs[i])]
<1>1. Len(fs) \in Nat /\ DOMAIN fs = 1 .. Len(fs)
  BY DEF AreFrames, IsSequence
<1>2. f = [i \in 1 .. Len(fs) |-> f[i]] /\ \A i \in 1 .. Len(fs) : f[i] = FrameText(fs[i])
  BY <1>1
<1> HIDE DEF f
<1>3. IsSequence(f) /\ Len(f) = Len(fs)
  BY <1>1, <1>2, FunctionIsSequence
<1>4. AreSequences(f)
  BY <1>1, <1>2, <1>3, FrameTextIsSequence DEF AreSequences, AreFrames
<1> QED
  BY <1>2, <1>3, <1>4 DEF f

LEMMA FramesTextIsSequence ==
  ASSUME NEW fs, AreFrames(fs)
  PROVE  IsSequence(FramesText(fs))
BY TextsOfFrames, FlattenedIsSequence DEF FramesText

\* One more frame adds its text.
LEMMA FramesTextLonger ==
  ASSUME NEW fs, NEW gs, AreFrames(fs), AreFrames(gs), NEW n \in Nat, Len(fs) = n, Len(gs) = n + 1,
         \A i \in 1 .. n : gs[i] = fs[i]
  PROVE  FramesText(gs) = FramesText(fs) \o FrameText(gs[n + 1])
<1> DEFINE f == [i \in DOMAIN fs |-> FrameText(fs[i])]
           g == [i \in DOMAIN gs |-> FrameText(gs[i])]
<1>1. AreSequences(f) /\ Len(f) = n /\ \A i \in 1 .. n : f[i] = FrameText(fs[i])
  BY TextsOfFrames
<1>2. AreSequences(g) /\ Len(g) = n + 1 /\ \A i \in 1 .. n + 1 : g[i] = FrameText(gs[i])
  BY TextsOfFrames
<1>3. FramesText(fs) = FlattenSeq(f) /\ FramesText(gs) = FlattenSeq(g)
  BY DEF FramesText
<1> HIDE DEF f, g
<1>4. IsSequence(f) /\ IsSequence(g)
  BY <1>1, <1>2 DEF AreSequences
<1>5. \A i \in 1 .. n : g[i] = f[i]
  BY <1>1, <1>2
<1>6. g[n + 1] = FrameText(gs[n + 1]) /\ IsSequence(g[n + 1])
  BY <1>2 DEF AreSequences
<1>7. FlattenSeq(g) = FlattenSeq(f) \o g[n + 1]
  BY <1>1, <1>2, <1>4, <1>5, <1>6, FlattenedLonger
<1> QED
  BY <1>3, <1>6, <1>7

-----------------------------------------------------------------------------
(* What a token adds                                                       *)

IsToken(t) == IsSequence(t.text)

\* The whitespace that was saved comes before the token.
LEMMA CheckedText ==
  ASSUME NEW f, IsFrame(f), NEW t, IsToken(t), NEW n,
         DOMAIN f = {"open", "tokens", "ws", "simple"}
  PROVE  LET g == Checked(f, t, n)
         IN  IsFrame(g) /\ FrameText(g) = FrameText(f) \o t.text /\ g.ws = <<>> /\ g.open = f.open
<1> DEFINE kept == IF IsSimple(t.type) /\ f.simple THEN "UNQUOTED_TEXT" ELSE "IGNORED_WHITESPACE"
           w == Token(kept, f.ws, n)
           between == IF f.ws = <<>> THEN <<>> ELSE <<w>>
           ts == f.tokens \o between
           us == ts \o <<t>>
           g == Checked(f, t, n)
<1>1. g.tokens = us /\ g.ws = <<>> /\ g.open = f.open
  BY DEF Checked
<1>2. w.text = f.ws
  BY DEF Token
<1> HIDE DEF kept, w, g
<1>3. IsTokens(f.tokens) /\ IsSequence(f.tokens) /\ IsSequence(f.ws) /\ IsSequence(f.open) /\ IsSequence(t.text)
  BY DEF IsFrame, IsTokens, IsToken
<1>4. IsTokens(ts) /\ TextOf(ts) = TextOf(f.tokens) \o f.ws
  <2>1. CASE f.ws = <<>>
    <3>1. ts = f.tokens
      BY <1>3, <2>1, JoiningNothing
    <3>2. TextOf(f.tokens) \o f.ws = TextOf(f.tokens)
      BY <1>3, <2>1, TextOfIsSequence, JoiningNothing
    <3> QED
      BY <1>3, <3>1, <3>2
  <2>2. CASE f.ws # <<>>
    <3>1. ts = Append(f.tokens, w)
      BY <1>3, <2>2, JoiningOne
    <3>2. IsSequence(w.text)
      BY <1>2, <1>3
    <3> QED
      BY <1>2, <1>3, <3>1, <3>2, TextOfAppended
  <2> QED
    BY <2>1, <2>2
<1> HIDE DEF ts
<1>5. us = Append(ts, t)
  BY <1>4, JoiningOne DEF IsTokens
<1>6. IsTokens(us) /\ TextOf(us) = TextOf(ts) \o t.text
  BY <1>3, <1>4, <1>5, TextOfAppended
<1> HIDE DEF us
<1>7. IsFrame(g)
  BY <1>1, <1>3, <1>6, EmptyIsSequence DEF IsFrame
<1>8. FrameText(g) = f.open \o TextOf(us)
  <2>1. IsSequence(f.open \o TextOf(us))
    BY <1>3, <1>6, TextOfIsSequence, Joining
  <2> QED
    BY <1>1, <2>1, JoiningNothing DEF FrameText
<1>9. f.open \o TextOf(us) = FrameText(f) \o t.text
  <2>1. PICK o, x, s, y : o = f.open /\ x = TextOf(f.tokens) /\ s = f.ws /\ y = t.text
    OBVIOUS
  <2>2. IsSequence(o) /\ IsSequence(x) /\ IsSequence(s) /\ IsSequence(y)
    BY <1>3, <2>1, TextOfIsSequence
  <2>3. PICK z : z = x \o s
    OBVIOUS
  <2>8. IsSequence(z)
    BY <2>2, <2>3, Joining
  <2>4. o \o (z \o y) = (o \o z) \o y
    BY <2>2, <2>8, JoiningThree
  <2>5. (o \o x) \o s = o \o (x \o s)
    BY <2>2, JoiningThree
  <2>6. TextOf(us) = (x \o s) \o y
    BY <1>4, <1>6, <2>1
  <2>7. FrameText(f) = (o \o x) \o s
    BY <2>1 DEF FrameText
  <2> QED
    BY <2>1, <2>3, <2>4, <2>5, <2>6, <2>7, Zenon
<1> QED
  BY <1>1, <1>7, <1>8, <1>9 DEF g

\* Only the frame on top counts for what a change of it adds.
LEMMA ChangedTop ==
  ASSUME NEW fs, AreFrames(fs), fs # <<>>, NEW g, IsFrame(g), NEW s, IsSequence(s),
         FrameText(g) = FrameText(Last(fs)) \o s
  PROVE  AreFrames(Retopped(fs, g)) /\ FramesText(Retopped(fs, g)) = FramesText(fs) \o s
<1> DEFINE n == Len(fs) - 1
           ps == Popped(fs)
           gs == Retopped(fs, g)
<1>1. IsSequence(fs)
  BY DEF AreFrames
<1>2. /\ n \in Nat /\ Len(fs) = n + 1 /\ IsSequence(ps) /\ Len(ps) = n
      /\ \A i \in 1 .. n : ps[i] = fs[i]
  BY <1>1, Popping
<1>3. /\ IsSequence(gs) /\ Len(gs) = n + 1 /\ gs[n + 1] = g
      /\ \A i \in 1 .. n : gs[i] = fs[i]
  BY <1>1, <1>2, ChangingTop
<1>4. Last(fs) = fs[n + 1]
  BY <1>2 DEF Last
<1> HIDE DEF n, ps, gs
<1>5. AreFrames(ps)
  <2>1. ASSUME NEW i \in 1 .. n PROVE IsFrame(ps[i])
    BY <1>2 DEF AreFrames
  <2> QED
    BY <1>2, <2>1 DEF AreFrames
<1>6. AreFrames(gs)
  <2>1. ASSUME NEW i \in 1 .. n + 1 PROVE IsFrame(gs[i])
    <3>1. CASE i \in 1 .. n
      BY <1>2, <1>3, <3>1 DEF AreFrames
    <3>2. CASE i = n + 1
      BY <1>3, <3>2
    <3> QED
      BY <1>2, <3>1, <3>2
  <2> QED
    BY <1>3, <2>1 DEF AreFrames
<1>7. FramesText(fs) = FramesText(ps) \o FrameText(Last(fs))
  BY <1>2, <1>4, <1>5, FramesTextLonger
<1>8. \A i \in 1 .. n : gs[i] = ps[i]
  BY <1>2, <1>3
<1>9. FramesText(gs) = FramesText(ps) \o FrameText(g)
  BY <1>2, <1>3, <1>5, <1>6, <1>8, FramesTextLonger
<1>10. IsSequence(FramesText(ps)) /\ IsSequence(FrameText(Last(fs)))
  <2>1. IsFrame(Last(fs))
    BY <1>2, <1>4 DEF AreFrames
  <2> QED
    BY <1>5, <2>1, FramesTextIsSequence, FrameTextIsSequence
<1>11. FramesText(gs) = FramesText(fs) \o s
  <2>1. PICK a, b : a = FramesText(ps) /\ b = FrameText(Last(fs))
    OBVIOUS
  <2>2. (a \o b) \o s = a \o (b \o s)
    BY <1>10, <2>1, JoiningThree
  <2> QED
    BY <1>7, <1>9, <2>1, <2>2, Zenon
<1> QED
  BY <1>6, <1>11 DEF gs

\* The frame on top apart from the others.
LEMMA TopApart ==
  ASSUME NEW fs, AreFrames(fs), fs # <<>>
  PROVE  /\ AreFrames(Popped(fs)) /\ IsFrame(Last(fs))
         /\ FramesText(fs) = FramesText(Popped(fs)) \o FrameText(Last(fs))
<1> DEFINE n == Len(fs) - 1
           ps == Popped(fs)
<1>1. IsSequence(fs)
  BY DEF AreFrames
<1>2. /\ n \in Nat /\ Len(fs) = n + 1 /\ IsSequence(ps) /\ Len(ps) = n
      /\ \A i \in 1 .. n : ps[i] = fs[i]
  BY <1>1, Popping
<1>3. Last(fs) = fs[n + 1]
  BY <1>2 DEF Last
<1> HIDE DEF n, ps
<1>4. AreFrames(ps)
  <2>1. ASSUME NEW i \in 1 .. n PROVE IsFrame(ps[i])
    BY <1>2 DEF AreFrames
  <2> QED
    BY <1>2, <2>1 DEF AreFrames
<1>5. IsFrame(Last(fs))
  BY <1>2, <1>3 DEF AreFrames
<1>6. FramesText(fs) = FramesText(ps) \o FrameText(Last(fs))
  BY <1>2, <1>3, <1>4, FramesTextLonger
<1> QED
  BY <1>4, <1>5, <1>6 DEF ps

\* One more frame.
LEMMA FramePushed ==
  ASSUME NEW fs, AreFrames(fs), NEW f, IsFrame(f)
  PROVE  AreFrames(Append(fs, f)) /\ FramesText(Append(fs, f)) = FramesText(fs) \o FrameText(f)
<1> SUFFICES ASSUME NEW gs, gs = Append(fs, f)
             PROVE  AreFrames(gs) /\ FramesText(gs) = FramesText(fs) \o FrameText(f)
  OBVIOUS
<1>1. IsSequence(fs) /\ Len(fs) \in Nat
  BY DEF AreFrames, IsSequence
<1>2. /\ IsSequence(gs) /\ Len(gs) = Len(fs) + 1 /\ gs[Len(fs) + 1] = f
      /\ \A i \in 1 .. Len(fs) : gs[i] = fs[i]
  BY <1>1, Pushing
<1>3. ASSUME NEW i \in 1 .. Len(fs) + 1 PROVE IsFrame(gs[i])
  <2>1. CASE i \in 1 .. Len(fs)
    BY <1>2, <2>1 DEF AreFrames
  <2>2. CASE i = Len(fs) + 1
    BY <1>2, <2>2
  <2> QED
    BY <1>1, <2>1, <2>2
<1>4. AreFrames(gs)
  BY <1>2, <1>3 DEF AreFrames
<1>5. FramesText(gs) = FramesText(fs) \o FrameText(gs[Len(fs) + 1])
  BY <1>1, <1>2, <1>4, FramesTextLonger
<1> QED
  BY <1>2, <1>4, <1>5

-----------------------------------------------------------------------------
(* What is visible, and how many lines there are                           *)

LEMMA VisibleOnes ==
  ASSUME NEW s, IsSequence(s)
  PROVE  LET f == [i \in DOMAIN s |-> IF s[i] \in Whitespace THEN <<>> ELSE <<s[i]>>]
         IN  AreSequences(f) /\ Len(f) = Len(s)
             /\ \A i \in 1 .. Len(s) : f[i] = IF s[i] \in Whitespace THEN <<>> ELSE <<s[i]>>
<1> DEFINE f == [i \in DOMAIN s |-> IF s[i] \in Whitespace THEN <<>> ELSE <<s[i]>>]
<1>1. Len(s) \in Nat /\ DOMAIN s = 1 .. Len(s)
  BY DEF IsSequence
<1>2. /\ f = [i \in 1 .. Len(s) |-> f[i]]
      /\ \A i \in 1 .. Len(s) : f[i] = IF s[i] \in Whitespace THEN <<>> ELSE <<s[i]>>
  BY <1>1
<1> HIDE DEF f
<1>3. IsSequence(f) /\ Len(f) = Len(s)
  BY <1>1, <1>2, FunctionIsSequence
<1>4. ASSUME NEW i \in 1 .. Len(s)
      PROVE  IsSequence(f[i])
  BY <1>2, EmptyIsSequence, JoiningOne
<1>5. AreSequences(f)
  BY <1>3, <1>4 DEF AreSequences
<1> QED
  BY <1>2, <1>3, <1>5 DEF f

LEMMA VisibleIsSequence ==
  ASSUME NEW s, IsSequence(s)
  PROVE  IsSequence(Visible(s))
BY VisibleOnes, FlattenedIsSequence DEF Visible

LEMMA VisibleJoined ==
  ASSUME NEW s, NEW t, IsSequence(s), IsSequence(t)
  PROVE  Visible(s \o t) = Visible(s) \o Visible(t)
<1>0. Len(s) \in Nat /\ Len(t) \in Nat
  BY DEF IsSequence
<1>1. PICK u : u = s \o t
  OBVIOUS
<1>2. /\ IsSequence(u) /\ Len(u) = Len(s) + Len(t)
      /\ \A i \in 1 .. Len(s) : u[i] = s[i]
      /\ \A i \in 1 .. Len(t) : u[Len(s) + i] = t[i]
  BY <1>1, Joining
<1> DEFINE V(x) == [i \in DOMAIN x |-> IF x[i] \in Whitespace THEN <<>> ELSE <<x[i]>>]
<1>3. \A x : IsSequence(x) => /\ AreSequences(V(x)) /\ Len(V(x)) = Len(x)
                              /\ \A i \in 1 .. Len(x) : V(x)[i] = IF x[i] \in Whitespace THEN <<>> ELSE <<x[i]>>
  BY VisibleOnes
<1>4. \A x : Visible(x) = FlattenSeq(V(x))
  BY DEF Visible
<1> HIDE DEF V
<1>5. PICK f, g, h : f = V(s) /\ g = V(t) /\ h = V(u)
  OBVIOUS
<1>6. /\ AreSequences(f) /\ Len(f) = Len(s) /\ AreSequences(g) /\ Len(g) = Len(t)
      /\ AreSequences(h) /\ Len(h) = Len(s) + Len(t)
  BY <1>2, <1>3, <1>5
<1>7. /\ \A i \in 1 .. Len(s) : f[i] = IF s[i] \in Whitespace THEN <<>> ELSE <<s[i]>>
      /\ \A i \in 1 .. Len(t) : g[i] = IF t[i] \in Whitespace THEN <<>> ELSE <<t[i]>>
      /\ \A i \in 1 .. Len(u) : h[i] = IF u[i] \in Whitespace THEN <<>> ELSE <<u[i]>>
  BY <1>2, <1>3, <1>5
<1>8. \A i \in 1 .. Len(s) : h[i] = f[i]
  <2>1. \A i \in 1 .. Len(s) : i \in 1 .. Len(u)
    BY <1>0, <1>2
  <2> QED
    BY <1>2, <1>7, <2>1
<1>9. \A i \in 1 .. Len(t) : h[Len(s) + i] = g[i]
  <2> SUFFICES ASSUME NEW i \in 1 .. Len(t)
               PROVE  h[Len(s) + i] = g[i]
    OBVIOUS
  <2>1. PICK j : j = Len(s) + i
    OBVIOUS
  <2>2. j \in 1 .. Len(u)
    BY <1>0, <1>2, <2>1
  <2>3. u[j] = t[i]
    BY <1>2, <2>1
  <2>4. h[j] = g[i]
    BY <1>7, <2>2, <2>3, Zenon
  <2> QED
    BY <2>1, <2>4
<1>10. h = f \o g
  <2>1. /\ IsSequence(f) /\ IsSequence(g) /\ IsSequence(h) /\ Len(h) = Len(f) + Len(g)
        /\ \A i \in 1 .. Len(f) : h[i] = f[i]
        /\ \A i \in 1 .. Len(g) : h[Len(f) + i] = g[i]
    BY <1>6, <1>8, <1>9 DEF AreSequences
  <2> QED
    BY <2>1, SameParts
<1>11. FlattenSeq(h) = FlattenSeq(f) \o FlattenSeq(g)
  BY <1>6, <1>10, FlattenedJoin
<1> QED
  BY <1>1, <1>4, <1>5, <1>11

LEMMA VisibleBlank ==
  ASSUME NEW s, IsSequence(s), AllIn(s, Whitespace)
  PROVE  Visible(s) = <<>>
<1> DEFINE f == [i \in DOMAIN s |-> IF s[i] \in Whitespace THEN <<>> ELSE <<s[i]>>]
<1>1. /\ AreSequences(f) /\ Len(f) = Len(s)
      /\ \A i \in 1 .. Len(s) : f[i] = IF s[i] \in Whitespace THEN <<>> ELSE <<s[i]>>
  BY VisibleOnes, Zenon
<1>2. Visible(s) = FlattenSeq(f)
  BY DEF Visible
<1> HIDE DEF f
<1>3. \A i \in 1 .. Len(f) : f[i] = <<>>
  <2>1. DOMAIN s = 1 .. Len(s)
    BY DEF IsSequence
  <2> QED
    BY <1>1, <2>1 DEF AllIn
<1> QED
  BY <1>1, <1>2, <1>3, FlattenedEmptyOnes DEF AreSequences

LEMMA NewLinesAreNumbered ==
  ASSUME NEW s, IsSequence(s)
  PROVE  /\ NewLines(s) = Number({i \in 1 .. Len(s) : s[i] = "\n"}, Len(s))
         /\ NewLines(s) \in Nat
<1> DEFINE S == {i \in 1 .. Len(s) : s[i] = "\n"}
<1>1. DOMAIN s = 1 .. Len(s) /\ Len(s) \in Nat
  BY DEF IsSequence
<1>2. {i \in DOMAIN s : s[i] = "\n"} = S /\ S = S \cap 1 .. Len(s)
  BY <1>1
<1>3. NewLines(s) = Number(S, Len(s))
  BY <1>2 DEF NewLines, Number
<1> HIDE DEF S
<1>4. Number(S, Len(s)) \in Nat
  BY <1>1, NumberFacts
<1> QED
  BY <1>3, <1>4 DEF S

LEMMA NewLinesJoined ==
  ASSUME NEW s, NEW t, IsSequence(s), IsSequence(t)
  PROVE  NewLines(s \o t) = NewLines(s) + NewLines(t)
<1>1. PICK u, m, n : u = s \o t /\ m = Len(s) /\ n = Len(t)
  OBVIOUS
<1>0. Len(s) \in Nat /\ Len(t) \in Nat
  BY DEF IsSequence
<1>2. /\ m \in Nat /\ n \in Nat /\ IsSequence(u) /\ Len(u) = m + n
      /\ \A i \in 1 .. m : u[i] = s[i]
      /\ \A i \in 1 .. n : u[m + i] = t[i]
  BY <1>0, <1>1, Joining
<1> DEFINE F == {i \in 1 .. m : s[i] = "\n"}
           G == {i \in 1 .. n : t[i] = "\n"}
           H == {i \in 1 .. m + n : u[i] = "\n"}
<1>3. NewLines(s) = Number(F, m) /\ NewLines(t) = Number(G, n) /\ NewLines(u) = Number(H, m + n)
  BY <1>1, <1>2, NewLinesAreNumbered
<1>4. \A i \in 1 .. m : i \in H <=> i \in F
  BY <1>2
<1>5. \A i \in 1 .. n : m + i \in H <=> i \in G
  <2> SUFFICES ASSUME NEW i \in 1 .. n
               PROVE  m + i \in H <=> i \in G
    OBVIOUS
  <2>1. m + i \in 1 .. m + n /\ u[m + i] = t[i]
    BY <1>2
  <2> QED
    BY <2>1
<1> HIDE DEF F, G, H
<1>6. Number(H, m + n) = Number(F, m) + Number(G, n)
  BY <1>2, <1>4, <1>5, NumberOfParts
<1> QED
  BY <1>1, <1>3, <1>6

LEMMA NoNewLines ==
  ASSUME NEW s, IsSequence(s), \A i \in 1 .. Len(s) : s[i] # "\n"
  PROVE  NewLines(s) = 0
<1>1. {i \in 1 .. Len(s) : s[i] = "\n"} \cap 1 .. Len(s) = {}
  OBVIOUS
<1> QED
  BY <1>1, NewLinesAreNumbered, FS_EmptySet DEF Number

LEMMA OneNewLine ==
  ASSUME NEW s, IsSequence(s), Len(s) = 1, s[1] = "\n"
  PROVE  NewLines(s) = 1
<1>1. {i \in 1 .. Len(s) : s[i] = "\n"} \cap 1 .. Len(s) = {1}
  OBVIOUS
<1>2. NewLines(s) = Cardinality({1})
  BY <1>1, NewLinesAreNumbered DEF Number
<1> QED
  BY <1>2, FS_Singleton

-----------------------------------------------------------------------------
(* The invariant                                                           *)

\* No token that is given begins with whitespace.
BeginsVisibly(s) == s # <<>> => s[1] \notin Whitespace

\* Whitespace in the tokens ts is text exactly between simple values.
IsSpaced(ts) == \A i \in 1 .. Len(ts) : IsWhitespace(ts[i]) =>
  /\ i < Len(ts)
  /\ ts[i].type = "UNQUOTED_TEXT" <=> i > 1 /\ IsSimple(ts[i - 1].type) /\ IsSimple(ts[i + 1].type)

\* A frame knows if its last token is simple, and saves only whitespace.
KnowsItsLast(f) == f.simple <=> f.tokens # <<>> /\ IsSimple(f.tokens[Len(f.tokens)].type)
GoodFrame(f) ==
  /\ IsFrame(f) /\ DOMAIN f = {"open", "tokens", "ws", "simple"}
  /\ AllIn(f.ws, Whitespace)
  /\ KnowsItsLast(f)
  /\ IsSpaced(f.tokens)

\* The queue has no opening, a substitution has one.
Openings(fs) ==
  /\ fs[1].open = <<>>
  /\ \A i \in 2 .. Len(fs) : fs[i].open # <<>> /\ BeginsVisibly(fs[i].open)
GoodFrames(fs) ==
  /\ IsSequence(fs) /\ fs # <<>>
  /\ \A i \in 1 .. Len(fs) : GoodFrame(fs[i])
  /\ Openings(fs)
  /\ fs[1].tokens # <<>>

TypeOK == IsSequence(input) /\ IsSequence(text) /\ pos \in 0 .. Len(input) /\ line \in Nat

\* What is read so far is what is written so far, and the lines of it.
Kept  == Visible(Written) = Visible(Read) /\ (Tight => Written = Read)
Lines == ~HiddenLine => line = 1 + NewLines(Written) /\ LinesAreRight(frames[1].tokens)

\* A substitution that is open was read, and what is saved was read last.
Dollars == {j \in DOMAIN input : input[j] = "$"}
Dollar  == Len(frames) > 1 => \E j \in 1 .. pos : j \in Dollars
Saved   == mode = "pull" /\ Top.ws # <<>> => pos > 0 /\ input[pos] \in Whitespace

\* Between tokens there is no text, and the text of a token begins visibly.
Texted ==
  /\ mode \in {"idle", "pull"} => text = <<>>
  /\ mode \in {"comment", "number", "quoted", "third", "triple"} => text # <<>>
  /\ mode = "idle" => Len(frames) = 1 /\ frames[1].ws = <<>>
  /\ BeginsVisibly(text)

Inv == TypeOK /\ GoodFrames(frames) /\ Kept /\ Lines /\ Dollar /\ Saved /\ Texted

-----------------------------------------------------------------------------
(* Reading                                                                 *)

LEMMA Beginning ==
  ASSUME NEW s, IsSequence(s), NEW m \in 0 .. Len(s)
  PROVE  /\ IsSequence(SubSeq(s, 1, m)) /\ Len(SubSeq(s, 1, m)) = m
         /\ \A k \in 1 .. m : SubSeq(s, 1, m)[k] = s[k]
<1> DEFINE E == {s[k] : k \in 1 .. Len(s)}
<1>1. s \in Seq(E) /\ Len(s) \in Nat
  BY SequenceOverElements DEF IsSequence
<1> HIDE DEF E
<1>2. /\ SubSeq(s, 1, m) \in Seq(E) /\ Len(SubSeq(s, 1, m)) = m
      /\ \A k \in 1 .. m : SubSeq(s, 1, m)[k] = s[k]
  BY <1>1
<1> QED
  BY <1>2, SequenceIsSequence

\* The next n characters are added to what is read.
LEMMA Reading ==
  ASSUME NEW i, IsSequence(i), NEW p \in Nat, NEW n \in Nat, p + n <= Len(i),
         NEW s, IsSequence(s), Len(s) = n, \A k \in 1 .. n : s[k] = i[p + k]
  PROVE  SubSeq(i, 1, p + n) = SubSeq(i, 1, p) \o s
<1>1. Len(i) \in Nat
  BY DEF IsSequence
<1>2. PICK a, c : a = SubSeq(i, 1, p) /\ c = SubSeq(i, 1, p + n)
  OBVIOUS
<1>3. p \in 0 .. Len(i) /\ p + n \in 0 .. Len(i)
  BY <1>1
<1>4. /\ IsSequence(a) /\ Len(a) = p /\ \A k \in 1 .. p : a[k] = i[k]
      /\ IsSequence(c) /\ Len(c) = p + n /\ \A k \in 1 .. p + n : c[k] = i[k]
  BY <1>2, <1>3, Beginning
<1>5. IsSequence(a) /\ IsSequence(c)
  BY <1>4
<1>6. Len(c) = Len(a) + Len(s) /\ \A k \in 1 .. Len(a) : c[k] = a[k]
  BY <1>4
<1>7. \A k \in 1 .. Len(s) : c[Len(a) + k] = s[k]
  <2> SUFFICES ASSUME NEW k \in 1 .. n
               PROVE  c[p + k] = s[k]
    BY <1>4
  <2>1. p + k \in 1 .. p + n
    OBVIOUS
  <2> QED
    BY <1>4, <2>1
<1>8. c = a \o s
  BY <1>5, <1>6, <1>7, SameParts
<1> QED
  BY <1>2, <1>8

-----------------------------------------------------------------------------
(* A token is given                                                        *)

\* The token of the whitespace before t.
WhitespaceToken(f, t, n) ==
  Token(IF IsSimple(t.type) /\ f.simple THEN "UNQUOTED_TEXT" ELSE "IGNORED_WHITESPACE", f.ws, n)

\* The tokens of a frame after check: the whitespace that was saved, and the token.
LEMMA CheckedTokens ==
  ASSUME NEW f, GoodFrame(f), NEW t, NEW n, NEW g, g = Checked(f, t, n)
  PROVE  /\ f.ws = <<>> => g.tokens = Append(f.tokens, t)
         /\ f.ws # <<>> => g.tokens = Append(Append(f.tokens, WhitespaceToken(f, t, n)), t)
         /\ g.ws = <<>> /\ g.open = f.open
         /\ g.simple = IsSimple(t.type)
         /\ DOMAIN g = {"open", "tokens", "ws", "simple"}
<1> DEFINE w == WhitespaceToken(f, t, n)
           ts == f.tokens \o (IF f.ws = <<>> THEN <<>> ELSE <<w>>)
           us == g.tokens
<1>1. IsSequence(f.tokens)
  BY DEF GoodFrame, IsFrame, IsTokens
<1>2. DOMAIN f = {"open", "tokens", "ws", "simple"}
  BY DEF GoodFrame
<1>3. us = ts \o <<t>>
  BY <1>2 DEF Checked, WhitespaceToken
<1>4. /\ g.ws = <<>> /\ g.open = f.open
      /\ g.simple = IsSimple(t.type)
      /\ DOMAIN g = {"open", "tokens", "ws", "simple"}
  BY <1>2 DEF Checked, NowSimple
<1> HIDE DEF w
<1>5. ASSUME f.ws = <<>>
      PROVE  us = Append(f.tokens, t)
  <2>1. ts = f.tokens
    BY <1>1, <1>5, JoiningNothing
  <2> HIDE DEF ts
  <2> QED
    BY <1>1, <1>3, <2>1, JoiningOne
<1>6. ASSUME f.ws # <<>>
      PROVE  us = Append(Append(f.tokens, w), t)
  <2>1. ts = Append(f.tokens, w)
    BY <1>1, <1>6, JoiningOne
  <2>2. IsSequence(ts)
    <3> HIDE DEF ts
    <3>1. IsSequence(Append(f.tokens, w))
      BY <1>1, Pushing
    <3> QED
      BY <2>1, <3>1
  <2>3. us = Append(ts, t)
    <3> HIDE DEF ts, us
    <3> QED
      BY <1>3, <2>2, JoiningOne
  <2> QED
    BY <2>1, <2>3
<1> QED
  BY <1>4, <1>5, <1>6 DEF w

\* Spaced tokens stay so with one more that is not whitespace.
LEMMA SpacedAppended ==
  ASSUME NEW ts, IsSequence(ts), IsSpaced(ts), NEW t, ~IsWhitespace(t)
  PROVE  IsSpaced(Append(ts, t))
<1>0. PICK us, k : us = Append(ts, t) /\ k = Len(ts)
  OBVIOUS
<1>1. /\ k \in Nat /\ Len(us) = k + 1 /\ us[k + 1] = t
      /\ \A i \in 1 .. k : us[i] = ts[i]
  BY <1>0, Pushing DEF IsSequence
<1>2. ASSUME NEW i \in 1 .. k + 1, IsWhitespace(us[i])
      PROVE  /\ i < k + 1
             /\ us[i].type = "UNQUOTED_TEXT" <=> i > 1 /\ IsSimple(us[i - 1].type) /\ IsSimple(us[i + 1].type)
  <2>1. i \in 1 .. k
    BY <1>1, <1>2
  <2>2. us[i] = ts[i] /\ IsWhitespace(ts[i])
    BY <1>1, <1>2, <2>1
  <2>3. /\ i < k
        /\ ts[i].type = "UNQUOTED_TEXT" <=> i > 1 /\ IsSimple(ts[i - 1].type) /\ IsSimple(ts[i + 1].type)
    BY <1>0, <2>1, <2>2 DEF IsSpaced
  <2>4. us[i + 1] = ts[i + 1] /\ (i > 1 => us[i - 1] = ts[i - 1])
    <3>1. i + 1 \in 1 .. k /\ (i > 1 => i - 1 \in 1 .. k)
      BY <1>1, <2>1, <2>3
    <3> QED
      BY <1>1, <3>1
  <2> QED
    BY <1>1, <2>2, <2>3, <2>4
<1> QED
  BY <1>0, <1>1, <1>2 DEF IsSpaced

\* And with whitespace before it, of the type that check gives it.
LEMMA SpacedWithWhitespace ==
  ASSUME NEW ts, IsSequence(ts), IsSpaced(ts), NEW t, ~IsWhitespace(t), NEW w,
         w.type = "UNQUOTED_TEXT" <=> ts # <<>> /\ IsSimple(ts[Len(ts)].type) /\ IsSimple(t.type)
  PROVE  IsSpaced(Append(Append(ts, w), t))
<1>0. PICK vs, us, k : vs = Append(ts, w) /\ us = Append(vs, t) /\ k = Len(ts)
  OBVIOUS
<1>1. k \in Nat
  BY <1>0 DEF IsSequence
<1>2. /\ IsSequence(vs) /\ Len(vs) = k + 1 /\ vs[k + 1] = w
      /\ \A i \in 1 .. k : vs[i] = ts[i]
  BY <1>0, Pushing
<1>3. /\ Len(us) = k + 2 /\ us[k + 2] = t
      /\ \A i \in 1 .. k + 1 : us[i] = vs[i]
  <2>1. Len(vs) + 1 = k + 2
    BY <1>1, <1>2
  <2> QED
    BY <1>0, <1>2, <2>1, Pushing
<1>4. us[k + 1] = w /\ \A i \in 1 .. k : us[i] = ts[i]
  BY <1>1, <1>2, <1>3
<1>5. ASSUME NEW i \in 1 .. k + 2, IsWhitespace(us[i])
      PROVE  /\ i < k + 2
             /\ us[i].type = "UNQUOTED_TEXT" <=> i > 1 /\ IsSimple(us[i - 1].type) /\ IsSimple(us[i + 1].type)
  <2>1. i # k + 2
    BY <1>3, <1>5
  <2>2. CASE i = k + 1
    <3>1. i > 1 <=> ts # <<>>
      BY <1>0, <1>1, <2>2, NoElements, EmptyIsSequence
    <3>2. i > 1 => us[i - 1] = ts[Len(ts)]
      BY <1>0, <1>1, <1>4, <2>2
    <3>3. us[i + 1] = t /\ us[i] = w /\ i < k + 2
      BY <1>1, <1>3, <1>4, <2>2
    <3> QED
      BY <3>1, <3>2, <3>3
  <2>3. CASE i \in 1 .. k
    <3>1. us[i] = ts[i] /\ IsWhitespace(ts[i])
      BY <1>4, <1>5, <2>3
    <3>2. /\ i < k
          /\ ts[i].type = "UNQUOTED_TEXT" <=> i > 1 /\ IsSimple(ts[i - 1].type) /\ IsSimple(ts[i + 1].type)
      BY <1>0, <2>3, <3>1 DEF IsSpaced
    <3>3. us[i + 1] = ts[i + 1] /\ (i > 1 => us[i - 1] = ts[i - 1])
      <4>1. i + 1 \in 1 .. k /\ (i > 1 => i - 1 \in 1 .. k)
        BY <1>1, <2>3, <3>2
      <4> QED
        BY <1>4, <4>1
    <3> QED
      BY <1>1, <3>1, <3>2, <3>3
  <2> QED
    BY <1>1, <2>1, <2>2, <2>3
<1> QED
  BY <1>0, <1>3, <1>5 DEF IsSpaced

\* A good frame stays good when it is given a token.
LEMMA CheckedIsGood ==
  ASSUME NEW f, GoodFrame(f), NEW t, IsToken(t), ~IsWhitespace(t), NEW n, NEW g, g = Checked(f, t, n)
  PROVE  /\ GoodFrame(g) /\ FrameText(g) = FrameText(f) \o t.text
         /\ g.ws = <<>> /\ g.open = f.open /\ g.tokens # <<>>
<1> DEFINE w == WhitespaceToken(f, t, n)
<1>1. g = Checked(f, t, n)
  OBVIOUS
<1>2. IsFrame(g) /\ FrameText(g) = FrameText(f) \o t.text
  BY <1>1, CheckedText DEF GoodFrame
<1>3. /\ f.ws = <<>> => g.tokens = Append(f.tokens, t)
      /\ f.ws # <<>> => g.tokens = Append(Append(f.tokens, w), t)
      /\ g.ws = <<>> /\ g.open = f.open
      /\ g.simple = IsSimple(t.type)
      /\ DOMAIN g = {"open", "tokens", "ws", "simple"}
  BY <1>1, CheckedTokens
<1>4. w.type = "UNQUOTED_TEXT" <=> f.tokens # <<>> /\ IsSimple(f.tokens[Len(f.tokens)].type) /\ IsSimple(t.type)
  <2>1. f.simple <=> f.tokens # <<>> /\ IsSimple(f.tokens[Len(f.tokens)].type)
    BY DEF GoodFrame, KnowsItsLast
  <2>2. w.type = IF IsSimple(t.type) /\ f.simple THEN "UNQUOTED_TEXT" ELSE "IGNORED_WHITESPACE"
    BY DEF Token, WhitespaceToken
  <2> HIDE DEF w
  <2> QED
    BY <2>1, <2>2
<1> HIDE DEF w
<1>5. IsSequence(f.tokens) /\ IsSpaced(f.tokens)
  BY DEF GoodFrame, IsFrame, IsTokens
<1>6. IsSpaced(g.tokens) /\ g.tokens # <<>> /\ g.tokens[Len(g.tokens)] = t
  <2>1. PICK ts, us, vs : ts = f.tokens /\ us = g.tokens /\ vs = Append(ts, w)
    OBVIOUS
  <2>2. IsSequence(ts) /\ IsSpaced(ts) /\ (us = Append(ts, t) \/ us = Append(vs, t))
    BY <1>3, <1>5, <2>1
  <2>3. IsSequence(vs)
    BY <2>1, <2>2, Pushing
  <2>4. us # <<>> /\ us[Len(us)] = t
    BY <2>2, <2>3, PushedIsLast
  <2>5. w.type = "UNQUOTED_TEXT" <=> ts # <<>> /\ IsSimple(ts[Len(ts)].type) /\ IsSimple(t.type)
    BY <1>4, <2>1
  <2>6. IsSpaced(Append(ts, t)) /\ IsSpaced(Append(vs, t))
    BY <2>1, <2>2, <2>5, SpacedAppended, SpacedWithWhitespace
  <2> QED
    BY <2>1, <2>2, <2>4, <2>6
<1>7. KnowsItsLast(g)
  BY <1>3, <1>6 DEF KnowsItsLast
<1>8. AllIn(g.ws, Whitespace)
  BY <1>3 DEF AllIn
<1>9. GoodFrame(g)
  BY <1>2, <1>3, <1>6, <1>7, <1>8 DEF GoodFrame
<1> QED
  BY <1>1, <1>2, <1>3, <1>6, <1>9

\* Good frames stay good with another good frame on top.
LEMMA RetoppedIsGood ==
  ASSUME NEW fs, GoodFrames(fs), NEW g, GoodFrame(g), g.open = fs[Len(fs)].open, Len(fs) = 1 => g.tokens # <<>>
  PROVE  GoodFrames(Retopped(fs, g))
<1>1. PICK k, gs : k = Len(fs) /\ gs = Retopped(fs, g)
  OBVIOUS
<1>2. IsSequence(fs) /\ fs # <<>> /\ k \in Nat \ {0}
  BY <1>1, Popping DEF GoodFrames
<1>3. /\ IsSequence(gs) /\ Len(gs) = k /\ gs[k] = g
      /\ \A i \in 1 .. k - 1 : gs[i] = fs[i]
  BY <1>1, <1>2, ChangingTop
<1>4. \A i \in 1 .. k : i = k \/ i \in 1 .. k - 1
  BY <1>2
<1>5. ASSUME NEW i \in 1 .. k
      PROVE  GoodFrame(gs[i])
  <2>1. CASE i = k
    BY <1>3, <2>1
  <2>2. CASE i \in 1 .. k - 1
    BY <1>1, <1>3, <2>2 DEF GoodFrames
  <2> QED
    BY <1>4, <2>1, <2>2
<1>6. ASSUME NEW i \in 1 .. k
      PROVE  gs[i].open = fs[i].open
  <2>1. CASE i = k
    BY <1>1, <1>3, <2>1
  <2>2. CASE i \in 1 .. k - 1
    BY <1>3, <2>2
  <2> QED
    BY <1>4, <2>1, <2>2
<1>7. Openings(gs)
  <2>1. 1 \in 1 .. k /\ \A i \in 2 .. k : i \in 1 .. k
    BY <1>2
  <2> QED
    BY <1>1, <1>3, <1>6, <2>1 DEF Openings, GoodFrames
<1>8. gs[1].tokens # <<>>
  <2>1. CASE k = 1
    BY <1>1, <1>3, <2>1
  <2>2. CASE k # 1
    <3>1. 1 \in 1 .. k - 1
      BY <1>2, <2>2
    <3> QED
      BY <1>3, <3>1 DEF GoodFrames
  <2> QED
    BY <2>1, <2>2
<1>9. gs # <<>>
  BY <1>2, <1>3, EmptyIsSequence
<1> QED
  BY <1>1, <1>3, <1>5, <1>7, <1>8, <1>9 DEF GoodFrames

\* Good frames stay good when the one on top is given a token.
LEMMA GivenIsGood ==
  ASSUME NEW fs, GoodFrames(fs), NEW t, IsToken(t), ~IsWhitespace(t), NEW n
  PROVE  LET gs == Retopped(fs, Checked(Last(fs), t, n))
         IN  /\ GoodFrames(gs) /\ FramesText(gs) = FramesText(fs) \o t.text
             /\ Len(gs) = Len(fs) /\ Last(gs).ws = <<>>
             /\ gs[Len(fs)] = Checked(fs[Len(fs)], t, n)
             /\ \A i \in 1 .. Len(fs) - 1 : gs[i] = fs[i]
<1>1. PICK k : k = Len(fs)
  OBVIOUS
<1>2. IsSequence(fs) /\ fs # <<>> /\ k \in Nat \ {0} /\ Last(fs) = fs[k]
  BY <1>1, Popping DEF GoodFrames, Last
<1>3. GoodFrame(fs[k])
  BY <1>1, <1>2 DEF GoodFrames
<1>4. PICK g, h : h = fs[k] /\ g = Checked(h, t, n)
  OBVIOUS
<1>5. /\ GoodFrame(g) /\ FrameText(g) = FrameText(fs[k]) \o t.text
      /\ g.ws = <<>> /\ g.open = fs[k].open /\ g.tokens # <<>>
  <2>1. GoodFrame(h)
    BY <1>3, <1>4
  <2>2. /\ GoodFrame(g) /\ FrameText(g) = FrameText(h) \o t.text
        /\ g.ws = <<>> /\ g.open = h.open /\ g.tokens # <<>>
    <3>1. g = Checked(h, t, n)
      BY <1>4
    <3>2. \A f : GoodFrame(f) /\ g = Checked(f, t, n) =>
            /\ GoodFrame(g) /\ FrameText(g) = FrameText(f) \o t.text
            /\ g.ws = <<>> /\ g.open = f.open /\ g.tokens # <<>>
      BY CheckedIsGood
    <3> QED
      BY <2>1, <3>1, <3>2
  <2> QED
    BY <1>4, <2>2
<1>6. PICK gs : gs = Retopped(fs, g)
  OBVIOUS
<1>7. /\ IsSequence(gs) /\ Len(gs) = k /\ gs[k] = g
      /\ \A i \in 1 .. k - 1 : gs[i] = fs[i]
  BY <1>1, <1>2, <1>6, ChangingTop
<1>8. FramesText(gs) = FramesText(fs) \o t.text
  <2>1. AreFrames(fs) /\ IsFrame(g) /\ IsSequence(t.text)
    BY <1>5 DEF AreFrames, GoodFrames, GoodFrame, IsToken
  <2>2. PICK s : s = t.text
    OBVIOUS
  <2> QED
    BY <1>2, <1>5, <1>6, <2>1, <2>2, ChangedTop
<1>9. GoodFrames(gs)
  <2>1. g.open = fs[Len(fs)].open
    BY <1>1, <1>5
  <2> QED
    BY <1>5, <1>6, <2>1, RetoppedIsGood
<1>10. Last(gs).ws = <<>>
  BY <1>2, <1>5, <1>7 DEF Last
<1> QED
  BY <1>1, <1>2, <1>4, <1>6, <1>7, <1>8, <1>9, <1>10

\* Whatever comes after does not change how a sequence begins.
LEMMA SameBeginning ==
  ASSUME NEW s, NEW u, IsSequence(s), IsSequence(u), Len(s) <= Len(u),
         \A i \in 1 .. Len(s) : u[i] = s[i], NEW m \in 0 .. Len(s)
  PROVE  SubSeq(u, 1, m) = SubSeq(s, 1, m)
<1>1. Len(s) \in Nat /\ Len(u) \in Nat
  BY DEF IsSequence
<1>2. PICK a, c : a = SubSeq(s, 1, m) /\ c = SubSeq(u, 1, m)
  OBVIOUS
<1>3. m \in 0 .. Len(u)
  BY <1>1
<1>4. /\ IsSequence(a) /\ Len(a) = m /\ \A k \in 1 .. m : a[k] = s[k]
      /\ IsSequence(c) /\ Len(c) = m /\ \A k \in 1 .. m : c[k] = u[k]
  BY <1>2, <1>3, Beginning
<1>5. \A k \in 1 .. m : c[k] = a[k]
  BY <1>1, <1>4
<1> QED
  BY <1>2, <1>4, <1>5, SameElements

LEMMA WholeBeginning ==
  ASSUME NEW s, IsSequence(s)
  PROVE  SubSeq(s, 1, Len(s)) = s
<1>1. Len(s) \in Nat /\ Len(s) \in 0 .. Len(s)
  BY DEF IsSequence
<1> QED
  BY <1>1, Beginning, SameElements

-----------------------------------------------------------------------------
(* The lines of the tokens                                                 *)

\* Tokens on their lines stay there, and the one that is given is on its own,
\* which the whitespace before it shares.
LEMMA LinesOfGiven ==
  ASSUME NEW f, GoodFrame(f), f.open = <<>>, f.tokens # <<>>, LinesAreRight(f.tokens),
         NEW t, IsToken(t), ~IsWhitespace(t), NEW n \in Nat, NEW g, g = Checked(f, t, n),
         n = 1 + NewLines(FrameText(g)), t.line = IF t.type = "NEWLINE" THEN n - 1 ELSE n
  PROVE  LinesAreRight(g.tokens)
<1>1. PICK ts, us, w, vs : ts = f.tokens /\ us = g.tokens /\ w = WhitespaceToken(f, t, n) /\ vs = Append(ts, w)
  OBVIOUS
<1>2. GoodFrame(g) /\ g.ws = <<>> /\ g.open = <<>>
  BY CheckedIsGood
<1>3. IsSequence(ts) /\ IsTokens(us) /\ IsSequence(us) /\ Len(ts) \in Nat \ {0}
  BY <1>1, <1>2, Popping DEF GoodFrame, IsFrame, IsTokens
<1>4. n = LinesTo(us, Len(us))
  <2>1. FrameText(g) = TextOf(us)
    <3>1. IsSequence(TextOf(us)) /\ FrameText(g) = (<<>> \o TextOf(us)) \o <<>>
      BY <1>1, <1>2, <1>3, TextOfIsSequence DEF FrameText
    <3> QED
      BY <3>1, JoiningNothing
  <2>2. SubSeq(us, 1, Len(us)) = us
    BY <1>3, WholeBeginning
  <2> QED
    BY <2>1, <2>2 DEF LinesTo
<1>5. w.line = n /\ w.text = f.ws
  BY <1>1 DEF Token, WhitespaceToken
<1>6. \/ us = Append(ts, t)
      \/ us = Append(vs, t) /\ IsWhitespace(w)
  <2>1. /\ f.ws = <<>> => us = Append(ts, t)
        /\ f.ws # <<>> => us = Append(vs, t)
    <3>1. /\ f.ws = <<>> => g.tokens = Append(f.tokens, t)
          /\ f.ws # <<>> => g.tokens = Append(Append(f.tokens, WhitespaceToken(f, t, n)), t)
      BY CheckedTokens
    <3> QED
      BY <1>1, <3>1, Zenon
  <2>2. f.ws # <<>> => IsWhitespace(w)
    BY <1>5 DEF GoodFrame, IsWhitespace
  <2> QED
    BY <2>1, <2>2
<1>7. IsSequence(vs) /\ Len(vs) = Len(ts) + 1 /\ vs[Len(ts) + 1] = w /\ \A i \in 1 .. Len(ts) : vs[i] = ts[i]
  BY <1>1, <1>3, Pushing
<1>8. /\ us[Len(us)] = t /\ Len(us) > Len(ts)
      /\ \A i \in 1 .. Len(ts) : us[i] = ts[i]
      /\ \A i \in 1 .. Len(us) : i \in 1 .. Len(ts) \/ i = Len(us) \/ (i + 1 = Len(us) /\ us[i] = w /\ IsWhitespace(w))
  <2>1. CASE us = Append(ts, t)
    <3>1. Len(us) = Len(ts) + 1 /\ us[Len(ts) + 1] = t /\ \A i \in 1 .. Len(ts) : us[i] = ts[i]
      BY <1>3, <2>1, Pushing
    <3> QED
      BY <1>3, <3>1
  <2>2. CASE us = Append(vs, t) /\ IsWhitespace(w)
    <3>1. Len(us) = Len(vs) + 1 /\ us[Len(vs) + 1] = t /\ \A i \in 1 .. Len(vs) : us[i] = vs[i]
      BY <1>7, <2>2, Pushing
    <3>2. Len(us) = Len(ts) + 2 /\ us[Len(ts) + 1] = w /\ \A i \in 1 .. Len(ts) : us[i] = ts[i]
      BY <1>3, <1>7, <3>1
    <3> QED
      BY <1>3, <1>7, <2>2, <3>1, <3>2
  <2> QED
    BY <1>6, <2>1, <2>2
<1>9. \A m \in 0 .. Len(ts) : LinesTo(us, m) = LinesTo(ts, m)
  <2>1. Len(ts) <= Len(us)
    BY <1>3, <1>8 DEF IsSequence
  <2>2. \A m \in 0 .. Len(ts) : SubSeq(us, 1, m) = SubSeq(ts, 1, m)
    BY <1>3, <1>8, <2>1, SameBeginning
  <2> QED
    BY <2>2 DEF LinesTo
<1>10. ASSUME NEW i \in 2 .. Len(us)
       PROVE  us[i].line = LineOf(us[i], LinesTo(us, i), LinesTo(us, i + 1))
  <2>0. i \in Nat /\ i \in 1 .. Len(us) /\ Len(us) \in Nat
    BY <1>3 DEF IsSequence
  <2>1. CASE i \in 1 .. Len(ts)
    <3>1. us[i] = ts[i] /\ LinesTo(us, i) = LinesTo(ts, i) /\ i \in 2 .. Len(ts)
      BY <1>3, <1>8, <1>9, <2>1
    <3>2. ts[i].line = LineOf(ts[i], LinesTo(ts, i), LinesTo(ts, i + 1))
      BY <1>1, <3>1 DEF LinesAreRight
    <3>3. IsWhitespace(ts[i]) => LinesTo(us, i + 1) = LinesTo(ts, i + 1)
      <4>1. IsWhitespace(ts[i]) => i < Len(ts)
        BY <1>1, <2>1 DEF GoodFrame, IsSpaced
      <4>2. i < Len(ts) => i + 1 \in 0 .. Len(ts)
        BY <1>3, <2>0
      <4> QED
        BY <1>9, <4>1, <4>2
    <3> QED
      BY <3>1, <3>2, <3>3 DEF LineOf
  <2>2. CASE i = Len(us)
    <3>1. us[i] = t /\ LinesTo(us, i) = n
      BY <1>4, <1>8, <2>2
    <3> QED
      BY <3>1 DEF LineOf
  <2>3. CASE i + 1 = Len(us) /\ us[i] = w /\ IsWhitespace(w)
    BY <1>4, <1>5, <2>3 DEF LineOf
  <2> QED
    BY <1>8, <2>0, <2>1, <2>2, <2>3
<1> QED
  BY <1>1, <1>10 DEF LinesAreRight

-----------------------------------------------------------------------------
(* Steps                                                                   *)

LEMMA FramesAreFrames ==
  ASSUME NEW fs, GoodFrames(fs)
  PROVE  AreFrames(fs) /\ Len(fs) \in Nat \ {0} /\ Last(fs) = fs[Len(fs)] /\ GoodFrame(fs[Len(fs)])
<1>1. IsSequence(fs) /\ fs # <<>> /\ \A i \in 1 .. Len(fs) : GoodFrame(fs[i])
  BY DEF GoodFrames
<1>2. Len(fs) \in Nat \ {0}
  BY <1>1, Popping
<1>3. AreFrames(fs)
  BY <1>1 DEF AreFrames, GoodFrame
<1> QED
  BY <1>1, <1>2, <1>3 DEF Last

LEMMA OneFrame ==
  ASSUME NEW fs, AreFrames(fs), Len(fs) = 1
  PROVE  FramesText(fs) = FrameText(fs[1])
<1>1. [i \in DOMAIN <<>> |-> FrameText(<<>>[i])] = <<>>
  OBVIOUS
<1>2. FramesText(<<>>) = <<>>
  BY <1>1, FlattenedNothing DEF FramesText
<1>3. IsSequence(fs) /\ fs # <<>>
  BY EmptyIsSequence DEF AreFrames
<1>4. FramesText(fs) = FramesText(Popped(fs)) \o FrameText(Last(fs)) /\ IsFrame(Last(fs))
  BY <1>3, TopApart
<1>5. Popped(fs) = <<>>
  <2>1. IsSequence(Popped(fs)) /\ Len(Popped(fs)) = 0
    BY <1>3, Popping
  <2> QED
    BY <2>1, NoElements
<1>6. Last(fs) = fs[1]
  BY DEF Last
<1>7. PICK s : s = FrameText(fs[1])
  OBVIOUS
<1>8. IsSequence(s)
  BY <1>4, <1>6, <1>7, FrameTextIsSequence
<1> QED
  BY <1>2, <1>4, <1>5, <1>6, <1>7, <1>8, JoiningNothing

LEMMA WrittenIsSequence ==
  ASSUME TypeOK, GoodFrames(frames)
  PROVE  IsSequence(FramesText(frames)) /\ IsSequence(Written) /\ IsSequence(Read) /\ Len(Read) = pos
<1>1. IsSequence(FramesText(frames))
  BY FramesAreFrames, FramesTextIsSequence
<1>2. IsSequence(Written)
  BY <1>1, Joining DEF Written, TypeOK
<1>3. IsSequence(Read) /\ Len(Read) = pos
  BY Beginning DEF Read, TypeOK
<1> QED
  BY <1>1, <1>2, <1>3

\* s is what the next n characters are.
IsNext(s, n) ==
  /\ IsSequence(s) /\ Len(s) = n /\ n \in Nat /\ pos + n <= Len(input)
  /\ \A k \in 1 .. n : s[k] = input[pos + k]

LEMMA ReadNext ==
  ASSUME TypeOK, NEW s, NEW n, IsNext(s, n), input' = input, pos' = pos + n
  PROVE  Read' = Read \o s /\ pos' \in 0 .. Len(input) /\ pos' \in Nat
<1>1. pos \in Nat /\ n \in Nat /\ IsSequence(input) /\ Len(input) \in Nat
  BY DEF TypeOK, IsNext, IsSequence
<1>2. SubSeq(input, 1, pos + n) = SubSeq(input, 1, pos) \o s
  BY <1>1, Reading DEF IsNext
<1> QED
  BY <1>1, <1>2 DEF Read, IsNext

\* No text that begins visibly is whitespace.
LEMMA VisibleTokens ==
  ASSUME NEW type, NEW txt, IsSequence(txt), BeginsVisibly(txt), NEW n
  PROVE  LET t == Token(type, txt, n)
         IN  IsToken(t) /\ ~IsWhitespace(t) /\ t.type = type /\ t.text = txt /\ t.line = n
<1>1. txt # <<>> => 1 \in DOMAIN txt
  BY Popping
<1> QED
  BY <1>1 DEF Token, IsToken, IsWhitespace, AllIn, BeginsVisibly

\* A token that is given to fs, the frames that are open afterwards.
LEMMA Given ==
  ASSUME Inv, NEW fs, GoodFrames(fs), fs[1] = frames[1], Len(fs) > 1 => Len(frames) > 1,
         NEW type, NEW txt, IsSequence(txt), BeginsVisibly(txt),
         NEW s, NEW n, IsNext(s, n), NEW nl, nl = IF type = "NEWLINE" THEN 1 ELSE 0,
         Visible(FramesText(fs) \o txt) = Visible(Written \o s),
         Tight => FramesText(fs) \o txt = Written \o s,
         HiddenLine \/ NewLines(FramesText(fs) \o txt) = NewLines(Written) + nl,
         GiveTo(fs, type, txt, n, nl)
  PROVE  Inv'
<1> DEFINE t == Token(type, txt, line)
           k == line + nl
           gs == Retopped(fs, Checked(Last(fs), t, k))
<1>1. /\ pos' = pos + n /\ line' = k /\ frames' = gs
      /\ mode' = Caller(fs) /\ text' = <<>> /\ input' = input
  BY DEF GiveTo, Same
<1>2. TypeOK /\ GoodFrames(frames) /\ Kept /\ Lines /\ Dollar
  BY DEF Inv
<1>3. line \in Nat /\ nl \in Nat /\ k \in Nat
  <2>1. line \in Nat
    BY <1>2 DEF TypeOK
  <2>2. nl \in {0, 1}
    OBVIOUS
  <2> QED
    BY <2>1, <2>2
<1>4. IsToken(t) /\ ~IsWhitespace(t) /\ t.type = type /\ t.text = txt /\ t.line = line
  BY VisibleTokens
<1> HIDE DEF t, k
<1>5. /\ GoodFrames(gs) /\ FramesText(gs) = FramesText(fs) \o t.text
      /\ Len(gs) = Len(fs) /\ Last(gs).ws = <<>>
      /\ gs[Len(fs)] = Checked(fs[Len(fs)], t, k)
      /\ \A i \in 1 .. Len(fs) - 1 : gs[i] = fs[i]
  BY <1>4, GivenIsGood
<1> HIDE DEF gs
<1>6. Read' = Read \o s /\ pos' \in 0 .. Len(input) /\ pos' \in Nat
  BY <1>1, <1>2, ReadNext
<1>7. TypeOK'
  BY <1>1, <1>2, <1>3, <1>6, EmptyIsSequence DEF TypeOK
<1>8. Written' = FramesText(fs) \o txt
  <2>1. IsSequence(FramesText(gs))
    BY <1>5, FramesAreFrames, FramesTextIsSequence
  <2>2. Written' = FramesText(gs) \o <<>>
    BY <1>1 DEF Written
  <2> QED
    BY <1>4, <1>5, <2>1, <2>2, JoiningNothing
<1>9. Tight' = Tight /\ HiddenLine' = HiddenLine
  BY <1>1, Zenon DEF Tight, HiddenLine
<1>10. Kept'
  <2>1. IsSequence(Written) /\ IsSequence(Read)
    BY <1>2, WrittenIsSequence
  <2>2. Visible(Written \o s) = Visible(Written) \o Visible(s) /\ Visible(Read \o s) = Visible(Read) \o Visible(s)
    BY <2>1, VisibleJoined DEF IsNext
  <2>3. Visible(Written) = Visible(Read) /\ (Tight => Written = Read)
    BY <1>2 DEF Kept
  <2>4. Visible(Written') = Visible(Read')
    BY <1>6, <1>8, <2>2, <2>3
  <2>5. Tight => Written' = Read'
    BY <1>6, <1>8, <2>3
  <2> QED
    BY <1>9, <2>4, <2>5 DEF Kept
<1>11. Lines'
  <2> SUFFICES ASSUME ~HiddenLine
               PROVE  k = 1 + NewLines(Written') /\ LinesAreRight(gs[1].tokens)
    BY <1>1, <1>9 DEF Lines
  <2>1. line = 1 + NewLines(Written) /\ LinesAreRight(frames[1].tokens)
    BY <1>2 DEF Lines
  <2>2. NewLines(Written) \in Nat
    BY <1>2, WrittenIsSequence, NewLinesAreNumbered
  <2>3. k = 1 + NewLines(Written')
    BY <1>3, <1>8, <2>1, <2>2 DEF k
  <2>4. CASE Len(fs) = 1
    <3>1. GoodFrame(fs[1]) /\ fs[1].open = <<>> /\ fs[1].tokens # <<>> /\ LinesAreRight(fs[1].tokens)
      BY <2>1, <2>4 DEF GoodFrames, Openings
    <3>2. Len(gs) = 1 /\ AreFrames(gs) /\ gs[1] = Checked(fs[1], t, k)
      BY <1>5, <2>4, FramesAreFrames
    <3>3. Written' = FrameText(gs[1])
      BY <1>4, <1>5, <1>8, <3>2, OneFrame
    <3>4. t.line = IF t.type = "NEWLINE" THEN k - 1 ELSE k
      BY <1>3, <1>4 DEF k
    <3>5. PICK f, g : f = fs[1] /\ g = gs[1]
      OBVIOUS
    <3>6. LinesAreRight(g.tokens)
      BY <1>3, <1>4, <2>3, <3>1, <3>2, <3>3, <3>4, <3>5, LinesOfGiven
    <3> QED
      BY <2>3, <3>5, <3>6
  <2>5. CASE Len(fs) # 1
    <3>1. 1 \in 1 .. Len(fs) - 1
      <4>1. Len(fs) \in Nat \ {0}
        BY FramesAreFrames
      <4>2. \A j \in Nat \ {0} : j # 1 => 1 \in 1 .. j - 1
        OBVIOUS
      <4> QED
        BY <2>5, <4>1, <4>2
    <3> QED
      BY <1>5, <2>1, <2>3, <3>1
  <2> QED
    BY <2>4, <2>5
<1>12. Dollar'
  <2>1. Len(gs) > 1 => \E j \in 1 .. pos : j \in Dollars
    BY <1>2, <1>5 DEF Dollar
  <2>3. Dollars' = Dollars
    BY <1>1, Zenon DEF Dollars
  <2>2. \A j \in 1 .. pos : j \in 1 .. pos'
    BY <1>1, <1>2, <1>6 DEF TypeOK, IsNext
  <2> QED
    BY <1>1, <2>1, <2>2, <2>3 DEF Dollar
<1>13. Saved'
  BY <1>1, <1>5 DEF Saved, Top
<1>14. Texted'
  <2>1. mode' \in {"idle", "pull"} /\ (mode' = "idle" => Len(fs) = 1)
    BY <1>1 DEF Caller
  <2>2. Len(fs) = 1 => gs[1].ws = <<>>
    BY <1>5 DEF Last
  <2> QED
    BY <1>1, <1>5, <2>1, <2>2 DEF Texted, BeginsVisibly
<1> QED
  BY <1>1, <1>5, <1>7, <1>10, <1>11, <1>12, <1>13, <1>14 DEF Inv

\* What is kept stays kept when as much is written as is read.
LEMMA KeptOn ==
  ASSUME Inv, NEW s, NEW n, IsNext(s, n), input' = input, pos' = pos + n, Written' = Written \o s
  PROVE  Kept' /\ Tight' = Tight /\ HiddenLine' = HiddenLine /\ pos' \in 0 .. Len(input)
<1>1. TypeOK /\ GoodFrames(frames) /\ Kept
  BY DEF Inv
<1>2. Read' = Read \o s /\ pos' \in 0 .. Len(input)
  BY <1>1, ReadNext
<1>3. Tight' = Tight /\ HiddenLine' = HiddenLine
  BY Zenon DEF Tight, HiddenLine
<1>4. IsSequence(Written) /\ IsSequence(Read)
  BY <1>1, WrittenIsSequence
<1>5. Visible(Written \o s) = Visible(Written) \o Visible(s) /\ Visible(Read \o s) = Visible(Read) \o Visible(s)
  BY <1>4, VisibleJoined DEF IsNext
<1>6. Visible(Written) = Visible(Read) /\ (Tight => Written = Read)
  BY <1>1 DEF Kept
<1>7. Visible(Written') = Visible(Read')
  BY <1>2, <1>5, <1>6
<1>8. Tight => Written' = Read'
  BY <1>2, <1>6
<1> QED
  BY <1>2, <1>3, <1>7, <1>8 DEF Kept

\* A substitution that was read stays so.
LEMMA DollarStays ==
  ASSUME Inv, NEW n \in Nat, input' = input, pos' = pos + n, Len(frames') > 1 => Len(frames) > 1
  PROVE  Dollar'
<1>1. Dollars' = Dollars
  BY Zenon DEF Dollars
<1>2. \A j \in 1 .. pos : j \in 1 .. pos'
  BY DEF Inv, TypeOK
<1> QED
  BY <1>1, <1>2 DEF Dollar, Inv

\* The text of a token goes on.
LEMMA Going ==
  ASSUME Inv, NEW m, m \notin {"idle", "pull"}, NEW txt, NEW c, NEW s, NEW n, IsNext(s, n),
         txt = text \o s, txt # <<>> \/ m \in {"unquoted", "failed"}, BeginsVisibly(txt),
         input' = input, pos' = pos + n, mode' = m, text' = txt, frames' = frames,
         HiddenLine \/ line' = line + NewLines(s), line' \in Nat
  PROVE  Inv'
<1>1. TypeOK /\ GoodFrames(frames) /\ Kept /\ Lines /\ Dollar
  BY DEF Inv
<1>2. IsSequence(s) /\ n \in Nat /\ IsSequence(text)
  BY <1>1 DEF IsNext, TypeOK
<1>3. Written' = Written \o s
  <2>1. PICK a : a = FramesText(frames)
    OBVIOUS
  <2>2. IsSequence(a)
    BY <1>1, <2>1, WrittenIsSequence
  <2>3. (a \o text) \o s = a \o (text \o s)
    BY <1>2, <2>2, JoiningThree
  <2> QED
    BY <2>1, <2>3 DEF Written
<1>4. Kept' /\ Tight' = Tight /\ HiddenLine' = HiddenLine /\ pos' \in 0 .. Len(input)
  BY <1>3, KeptOn
<1>5. TypeOK'
  <2>1. IsSequence(txt)
    BY <1>2, Joining
  <2> QED
    BY <1>1, <1>4, <2>1 DEF TypeOK
<1>6. Lines'
  <2> SUFFICES ASSUME ~HiddenLine
               PROVE  line' = 1 + NewLines(Written') /\ LinesAreRight(frames[1].tokens)
    BY <1>4 DEF Lines
  <2>1. line = 1 + NewLines(Written) /\ LinesAreRight(frames[1].tokens)
    BY <1>1 DEF Lines
  <2>2. NewLines(Written') = NewLines(Written) + NewLines(s) /\ NewLines(Written) \in Nat /\ NewLines(s) \in Nat
    BY <1>1, <1>2, <1>3, WrittenIsSequence, NewLinesJoined, NewLinesAreNumbered
  <2> QED
    BY <2>1, <2>2
<1>7. Dollar'
  BY <1>2, DollarStays
<1>8. Saved' /\ Texted'
  BY DEF Saved, Texted, BeginsVisibly
<1> QED
  BY <1>1, <1>4, <1>5, <1>6, <1>7, <1>8 DEF Inv

-----------------------------------------------------------------------------
(* What the actions read                                                   *)

\* Characters.
LEMMA Characters ==
  /\ {"#", "/", "\"", "$", "+", "-", "}", "\n", "\\", "u"} \cap Whitespace = {}
  /\ \A c \in {"#", "/", "\"", "$", "+", "-", "}", "\\", "u", "?", "{", "="} : c # "\n"
  /\ Digits \cap Whitespace = {}
  /\ "\n" \notin NumberChars
  /\ "\n" \notin Digits
  /\ "\n" \notin Escapable
  /\ "\n" \in Controls
BY Zenon DEF Whitespace, Digits, NumberChars, Escapable, Controls

LEMMA PunctuationMarks ==
  ASSUME NEW c \in DOMAIN Punctuation
  PROVE  c \notin Whitespace /\ c # "\n" /\ Punctuation[c] # "NEWLINE"
<1>1. DOMAIN Punctuation = {":", ",", "=", "{", "}", "[", "]"}
  BY Zenon DEF Punctuation
<1>2. \A d \in {":", ",", "=", "{", "}", "[", "]"} : d \notin Whitespace /\ d # "\n"
  BY Zenon DEF Whitespace
<1>3. Punctuation[c] \in {"COLON", "COMMA", "EQUALS", "OPEN_CURLY", "CLOSE_CURLY", "OPEN_SQUARE", "CLOSE_SQUARE"}
  BY <1>1, Zenon DEF Punctuation
<1> QED
  BY <1>1, <1>2, <1>3, Zenon

LEMMA NothingIsNext ==
  ASSUME TypeOK
  PROVE  IsNext(<<>>, 0) /\ text \o <<>> = text /\ NewLines(<<>>) = 0
<1>1. IsSequence(input) /\ IsSequence(text) /\ pos \in 0 .. Len(input) /\ Len(input) \in Nat
  BY DEF TypeOK, IsSequence
<1>2. IsSequence(<<>>) /\ Len(<<>>) = 0
  BY EmptyIsSequence
<1>3. IsNext(<<>>, 0)
  BY <1>1, <1>2 DEF IsNext
<1>4. NewLines(<<>>) = 0
  BY <1>2, NoNewLines
<1> QED
  BY <1>1, <1>3, <1>4, JoiningNothing

LEMMA HereIsNext ==
  ASSUME TypeOK, ~AtEnd
  PROVE  /\ IsNext(<<Here>>, 1) /\ text \o <<Here>> = Append(text, Here)
         /\ NewLines(<<Here>>) = IF Here = "\n" THEN 1 ELSE 0
<1>1. IsSequence(input) /\ IsSequence(text) /\ pos \in 0 .. Len(input) /\ Len(input) \in Nat
  BY DEF TypeOK, IsSequence
<1>2. pos + 1 <= Len(input)
  BY <1>1 DEF AtEnd
<1>3. PICK c, s : c = Here /\ s = <<Here>>
  OBVIOUS
<1>4. IsSequence(s) /\ Len(s) = 1 /\ s[1] = c /\ text \o s = Append(text, c)
  BY <1>1, <1>3, JoiningOne
<1>5. \A k \in 1 .. 1 : s[k] = input[pos + k]
  BY <1>3, <1>4 DEF Here
<1>6. IsNext(s, 1)
  BY <1>2, <1>4, <1>5 DEF IsNext
<1>7. CASE c = "\n"
  BY <1>3, <1>4, <1>6, <1>7, OneNewLine
<1>8. CASE c # "\n"
  <2>1. NewLines(s) = 0
    BY <1>4, <1>8, NoNewLines
  <2> QED
    BY <1>3, <1>4, <1>6, <1>8, <2>1
<1> QED
  BY <1>7, <1>8

\* A text that begins visibly, with one character more.
LEMMA AppendedVisibly ==
  ASSUME NEW s, IsSequence(s), NEW c, BeginsVisibly(s), s # <<>> \/ c \notin Whitespace
  PROVE  BeginsVisibly(Append(s, c)) /\ Append(s, c) # <<>>
<1>1. PICK u : u = Append(s, c)
  OBVIOUS
<1>2. u # <<>>
  BY <1>1, PushedIsLast
<1>3. CASE s = <<>>
  <2>1. u[1] = c
    BY <1>1, <1>3, Pushing, EmptyIsSequence
  <2> QED
    BY <1>1, <1>2, <1>3, <2>1 DEF BeginsVisibly
<1>4. CASE s # <<>>
  <2>1. 1 \in 1 .. Len(s)
    BY <1>4, Popping
  <2>2. u[1] = s[1]
    BY <1>1, <2>1, Pushing
  <2> QED
    BY <1>1, <1>2, <1>4, <2>2 DEF BeginsVisibly
<1> QED
  BY <1>3, <1>4

-----------------------------------------------------------------------------
(* Kinds of actions                                                        *)

LEMMA GoingOnWithNothing ==
  ASSUME Inv, NEW m, m \notin {"idle", "pull"}, NEW c, Goes(m, text, c, 0), text # <<>> \/ m \in {"unquoted", "failed"}
  PROVE  Inv'
<1>1. TypeOK /\ BeginsVisibly(text) /\ line \in Nat
  BY DEF Inv, Texted, TypeOK
<1>2. IsNext(<<>>, 0) /\ text \o <<>> = text /\ NewLines(<<>>) = 0
  BY <1>1, NothingIsNext
<1>3. /\ mode' = m /\ text' = text /\ pos' = pos + 0 /\ input' = input /\ frames' = frames
      /\ line' = line + NewLines(<<>>) /\ line' \in Nat
  BY <1>1, <1>2 DEF Goes, Same
<1>4. PICK s : s = <<>>
  OBVIOUS
<1> QED
  BY <1>1, <1>2, <1>3, <1>4, Going

LEMMA GoingOn ==
  ASSUME Inv, ~AtEnd, NEW m, m \notin {"idle", "pull"}, NEW c, Goes(m, Append(text, Here), c, 1),
         Here # "\n", text # <<>> \/ Here \notin Whitespace
  PROVE  Inv'
<1>1. TypeOK /\ BeginsVisibly(text) /\ line \in Nat /\ IsSequence(text)
  BY DEF Inv, Texted, TypeOK
<1>2. PICK h, s, u : h = Here /\ s = <<Here>> /\ u = Append(text, h)
  OBVIOUS
<1>3. IsNext(s, 1) /\ text \o s = u /\ NewLines(s) = 0
  BY <1>1, <1>2, HereIsNext
<1>4. BeginsVisibly(u) /\ u # <<>>
  BY <1>1, <1>2, AppendedVisibly
<1>5. /\ mode' = m /\ text' = u /\ pos' = pos + 1 /\ input' = input /\ frames' = frames
      /\ line' = line + NewLines(s) /\ line' \in Nat
  BY <1>1, <1>2, <1>3 DEF Goes, Same
<1> QED
  BY <1>3, <1>4, <1>5, Going

\* A token of the text and what is read last.
LEMMA GivenMore ==
  ASSUME Inv, NEW type, NEW txt, BeginsVisibly(txt), NEW s, NEW n, IsNext(s, n), txt = text \o s,
         NEW nl, nl = IF type = "NEWLINE" THEN 1 ELSE 0, NewLines(s) = nl,
         GiveTo(frames, type, txt, n, nl)
  PROVE  Inv'
<1>1. TypeOK /\ GoodFrames(frames)
  BY DEF Inv
<1>2. IsSequence(s) /\ IsSequence(text)
  BY <1>1 DEF IsNext, TypeOK
<1>3. IsSequence(txt)
  BY <1>2, Joining
<1>4. FramesText(frames) \o txt = Written \o s
  <2>1. PICK a : a = FramesText(frames)
    OBVIOUS
  <2>2. IsSequence(a)
    BY <1>1, <2>1, WrittenIsSequence
  <2>3. (a \o text) \o s = a \o (text \o s)
    BY <1>2, <2>2, JoiningThree
  <2> QED
    BY <2>1, <2>3 DEF Written
<1>5. NewLines(Written \o s) = NewLines(Written) + nl
  BY <1>1, <1>2, WrittenIsSequence, NewLinesJoined
<1>6. NewLines(FramesText(frames) \o txt) = NewLines(Written) + nl
  BY <1>4, <1>5
<1>7. PICK fs : fs = frames
  OBVIOUS
<1> QED
  BY <1>1, <1>3, <1>4, <1>6, <1>7, Given

LEMMA GivingNothingMore ==
  ASSUME Inv, NEW type, type # "NEWLINE", Give(type, text, 0)
  PROVE  Inv'
<1>1. TypeOK /\ BeginsVisibly(text)
  BY DEF Inv, Texted
<1>2. PICK s : s = <<>>
  OBVIOUS
<1>3. IsNext(s, 0) /\ text = text \o s /\ NewLines(s) = 0
  BY <1>1, <1>2, NothingIsNext
<1>4. GiveTo(frames, type, text, 0, 0)
  BY DEF Give
<1> QED
  BY <1>1, <1>3, <1>4, GivenMore

LEMMA GivingOneMore ==
  ASSUME Inv, ~AtEnd, NEW type, NEW nl, nl = IF type = "NEWLINE" THEN 1 ELSE 0,
         GiveTo(frames, type, Append(text, Here), 1, nl),
         Here = "\n" <=> type = "NEWLINE", text # <<>> \/ Here \notin Whitespace
  PROVE  Inv'
<1>1. TypeOK /\ BeginsVisibly(text) /\ IsSequence(text)
  BY DEF Inv, Texted, TypeOK
<1>2. PICK h, s, u : h = Here /\ s = <<Here>> /\ u = Append(text, h)
  OBVIOUS
<1>3. IsNext(s, 1) /\ u = text \o s /\ NewLines(s) = nl
  BY <1>1, <1>2, HereIsNext
<1>4. BeginsVisibly(u)
  BY <1>1, <1>2, AppendedVisibly
<1>5. GiveTo(frames, type, u, 1, nl)
  BY <1>2
<1> QED
  BY <1>3, <1>4, <1>5, GivenMore

-----------------------------------------------------------------------------
(* The actions that change the frames                                      *)

\* A frame with more whitespace saved.
LEMMA SavedIsGood ==
  ASSUME NEW f, GoodFrame(f), NEW c \in Whitespace, NEW g, g = [f EXCEPT !.ws = Append(@, c)]
  PROVE  /\ GoodFrame(g) /\ g.open = f.open /\ g.tokens = f.tokens
         /\ FrameText(g) = FrameText(f) \o <<c>>
<1>1. DOMAIN f = {"open", "tokens", "ws", "simple"}
  BY DEF GoodFrame
<1>2. /\ g.open = f.open /\ g.tokens = f.tokens /\ g.simple = f.simple /\ g.ws = Append(f.ws, c)
      /\ DOMAIN g = {"open", "tokens", "ws", "simple"}
  BY <1>1
<1>3. IsSequence(f.open) /\ IsTokens(f.tokens) /\ IsSequence(f.ws) /\ AllIn(f.ws, Whitespace)
  BY DEF GoodFrame, IsFrame
<1>4. PICK w, v : w = f.ws /\ v = Append(w, c)
  OBVIOUS
<1>5. /\ IsSequence(v) /\ Len(w) \in Nat /\ DOMAIN v = 1 .. Len(w) + 1 /\ v[Len(w) + 1] = c
      /\ \A i \in 1 .. Len(w) : v[i] = w[i] /\ w[i] \in Whitespace
  BY <1>3, <1>4, Pushing DEF AllIn, IsSequence
<1>6. AllIn(v, Whitespace)
  <2>1. \A i \in 1 .. Len(w) + 1 : i \in 1 .. Len(w) \/ i = Len(w) + 1
    BY <1>5
  <2> QED
    BY <1>5, <2>1 DEF AllIn
<1>7. GoodFrame(g)
  BY <1>2, <1>3, <1>4, <1>5, <1>6 DEF GoodFrame, IsFrame, KnowsItsLast
<1>8. FrameText(g) = FrameText(f) \o <<c>>
  <2>1. PICK a, e : a = f.open \o TextOf(f.tokens) /\ e = <<c>>
    OBVIOUS
  <2>2. IsSequence(a)
    BY <1>3, <2>1, TextOfIsSequence, Joining
  <2>3. IsSequence(w) /\ IsSequence(e) /\ v = w \o e
    BY <1>3, <1>4, <2>1, JoiningOne
  <2>4. (a \o w) \o e = a \o (w \o e)
    BY <2>2, <2>3, JoiningThree
  <2>5. FrameText(f) = a \o w /\ FrameText(g) = a \o v
    BY <1>2, <1>4, <2>1 DEF FrameText
  <2> QED
    BY <2>1, <2>3, <2>4, <2>5, Zenon
<1> QED
  BY <1>2, <1>7, <1>8

LEMMA SavingWhitespace ==
  ASSUME Inv, SaveWhitespace
  PROVE  Inv'
<1>1. PICK c, s, g : c = Here /\ s = <<c>> /\ g = [Top EXCEPT !.ws = Append(@, c)]
  OBVIOUS
<1>2. /\ mode = "pull" /\ ~AtEnd /\ c \in Whitespace
      /\ frames' = Retopped(frames, g) /\ pos' = pos + 1
      /\ input' = input /\ mode' = mode /\ text' = text /\ line' = line
  BY <1>1 DEF SaveWhitespace, Pulls, Sees, Same
<1>3. TypeOK /\ GoodFrames(frames) /\ Kept /\ Lines /\ Dollar /\ text = <<>>
  BY <1>2 DEF Inv, Texted
<1>4. IsNext(s, 1) /\ NewLines(s) = 0
  <2>1. c # "\n"
    BY <1>2, Zenon DEF Whitespace
  <2> QED
    BY <1>1, <1>2, <1>3, <2>1, HereIsNext
<1>5. AreFrames(frames) /\ Len(frames) \in Nat \ {0} /\ Top = frames[Len(frames)] /\ GoodFrame(Top)
  BY <1>3, FramesAreFrames DEF Top
<1>6. /\ GoodFrame(g) /\ g.open = Top.open /\ g.tokens = Top.tokens
      /\ FrameText(g) = FrameText(Top) \o s
  <2>1. PICK f : f = Top
    OBVIOUS
  <2>2. GoodFrame(f) /\ g = [f EXCEPT !.ws = Append(@, c)]
    BY <1>1, <1>5, <2>1
  <2>3. GoodFrame(g) /\ g.open = f.open /\ g.tokens = f.tokens /\ FrameText(g) = FrameText(f) \o <<c>>
    BY <1>2, <2>2, SavedIsGood
  <2> QED
    BY <1>1, <2>1, <2>3, Zenon
<1>7. GoodFrames(frames')
  <2>1. Len(frames) = 1 => g.tokens # <<>>
    BY <1>3, <1>5, <1>6 DEF GoodFrames
  <2> QED
    BY <1>2, <1>3, <1>5, <1>6, <2>1, RetoppedIsGood
<1>8. FramesText(frames') = FramesText(frames) \o s
  <2>1. frames # <<>> /\ IsFrame(g) /\ IsSequence(s) /\ FrameText(g) = FrameText(Last(frames)) \o s
    BY <1>3, <1>4, <1>6 DEF GoodFrames, GoodFrame, IsNext, Top
  <2> QED
    BY <1>2, <1>5, <2>1, ChangedTop
<1>9. Written' = Written \o s
  <2>1. IsSequence(FramesText(frames)) /\ IsSequence(FramesText(frames) \o s)
    BY <1>3, <1>4, WrittenIsSequence, Joining DEF IsNext
  <2>2. Written = FramesText(frames) /\ Written' = FramesText(frames) \o s
    BY <1>2, <1>3, <1>8, <2>1, JoiningNothing DEF Written
  <2> QED
    BY <2>2
<1>10. Kept' /\ HiddenLine' = HiddenLine /\ pos' \in 0 .. Len(input)
  BY <1>2, <1>4, <1>9, KeptOn
<1>11. /\ Len(frames') = Len(frames) /\ Last(frames') = g
       /\ frames'[1].tokens = frames[1].tokens /\ (Len(frames) = 1 => frames'[1] = g)
  <2>1. /\ Len(frames') = Len(frames) /\ frames'[Len(frames)] = g
        /\ \A i \in 1 .. Len(frames) - 1 : frames'[i] = frames[i]
    BY <1>2, <1>3, ChangingTop DEF GoodFrames
  <2>2. \A k \in Nat \ {0} : k = 1 \/ 1 \in 1 .. k - 1
    OBVIOUS
  <2>3. Len(frames) = 1 \/ 1 \in 1 .. Len(frames) - 1
    BY <1>5, <2>2
  <2> QED
    BY <1>5, <1>6, <2>1, <2>3 DEF Last
<1>12. Lines'
  <2>1. NewLines(Written \o s) = NewLines(Written) + 0 /\ NewLines(Written) \in Nat
    BY <1>3, <1>4, WrittenIsSequence, NewLinesJoined, NewLinesAreNumbered DEF IsNext
  <2> QED
    BY <1>2, <1>3, <1>9, <1>10, <1>11, <2>1 DEF Lines
<1>13. Dollar'
  BY <1>2, <1>11, DollarStays
<1>14. Saved'
  <2>1. pos \in Nat /\ input[pos + 1] \in Whitespace
    BY <1>1, <1>2, <1>3 DEF Here, TypeOK
  <2> QED
    BY <1>2, <2>1 DEF Saved
<1>15. TypeOK' /\ Texted'
  BY <1>2, <1>3, <1>10 DEF TypeOK, Texted, BeginsVisibly
<1> QED
  BY <1>7, <1>10, <1>12, <1>13, <1>14, <1>15 DEF Inv

\* Two characters, or three, that are read together.
LEMMA TwoAreNext ==
  ASSUME TypeOK, NEW a, NEW b, Here = a, Then(b), a # "\n", b # "\n", NEW s, s = <<a, b>>
  PROVE  IsNext(s, 2) /\ NewLines(s) = 0 /\ s # <<>> /\ s[1] = a /\ Len(s) = 2
<1>1. IsSequence(input) /\ pos \in Nat /\ Len(input) \in Nat /\ DOMAIN input = 1 .. Len(input)
  BY DEF TypeOK, IsSequence
<1>2. IsSequence(s) /\ Len(s) = 2 /\ s[1] = a /\ s[2] = b
  <2>1. s \in Seq({a, b})
    OBVIOUS
  <2> QED
    BY <2>1, SequenceIsSequence
<1>3. pos + 2 <= Len(input) /\ input[pos + 1] = a /\ input[pos + 2] = b
  BY <1>1 DEF Then, Here
<1>4. \A k \in 1 .. 2 : s[k] = input[pos + k] /\ s[k] # "\n"
  BY <1>2, <1>3
<1>5. IsNext(s, 2)
  BY <1>2, <1>3, <1>4 DEF IsNext
<1>6. NewLines(s) = 0
  BY <1>2, <1>4, NoNewLines
<1>7. s # <<>>
  BY <1>2, EmptyIsSequence
<1> QED
  BY <1>2, <1>5, <1>6, <1>7

LEMMA ThreeAreNext ==
  ASSUME TypeOK, NEW a, NEW b, NEW c, Here = a, Then(b), pos + 3 \in DOMAIN input, input[pos + 3] = c,
         a # "\n", b # "\n", c # "\n", NEW s, s = <<a, b, c>>
  PROVE  IsNext(s, 3) /\ NewLines(s) = 0 /\ s # <<>> /\ s[1] = a /\ Len(s) = 3
<1>1. IsSequence(input) /\ pos \in Nat /\ Len(input) \in Nat /\ DOMAIN input = 1 .. Len(input)
  BY DEF TypeOK, IsSequence
<1>2. IsSequence(s) /\ Len(s) = 3 /\ s[1] = a /\ s[2] = b /\ s[3] = c
  <2>1. s \in Seq({a, b, c})
    OBVIOUS
  <2> QED
    BY <2>1, SequenceIsSequence
<1>3. pos + 3 <= Len(input) /\ input[pos + 1] = a /\ input[pos + 2] = b /\ input[pos + 3] = c
  BY <1>1 DEF Then, Here
<1>4. \A k \in 1 .. 3 : s[k] = input[pos + k] /\ s[k] # "\n"
  BY <1>2, <1>3
<1>5. IsNext(s, 3)
  BY <1>2, <1>3, <1>4 DEF IsNext
<1>6. NewLines(s) = 0
  BY <1>2, <1>4, NoNewLines
<1>7. s # <<>>
  BY <1>2, EmptyIsSequence
<1> QED
  BY <1>2, <1>5, <1>6, <1>7

\* The frame of a substitution that is opened.
LEMMA OpenedIsGood ==
  ASSUME NEW open, IsSequence(open), NEW f, f = Frame(open, <<>>)
  PROVE  GoodFrame(f) /\ FrameText(f) = open /\ f.open = open /\ f.ws = <<>>
<1>1. /\ f.open = open /\ f.tokens = <<>> /\ f.ws = <<>> /\ f.simple = FALSE
      /\ DOMAIN f = {"open", "tokens", "ws", "simple"}
  BY DEF Frame
<1>2. IsSequence(<<>>) /\ Len(<<>>) = 0 /\ DOMAIN <<>> = {}
  BY EmptyIsSequence
<1>3. IsFrame(f)
  BY <1>1, TextOfNothing, EmptyIsSequence DEF IsFrame
<1>4. AllIn(f.ws, Whitespace) /\ IsSpaced(f.tokens) /\ KnowsItsLast(f)
  BY <1>1, <1>2 DEF AllIn, IsSpaced, KnowsItsLast
<1>5. FrameText(f) = open
  BY <1>1, TextOfNothing, JoiningNothing DEF FrameText
<1> QED
  BY <1>1, <1>3, <1>4, <1>5 DEF GoodFrame

LEMMA OpeningSubstitution ==
  ASSUME Inv, OpenSubstitution
  PROVE  Inv'
<1>1. PICK s, f : /\ s = IF pos + 3 \in DOMAIN input /\ input[pos + 3] = "?" THEN <<"$", "{", "?">> ELSE <<"$", "{">>
                  /\ f = Frame(s, <<>>)
  BY Zenon
<1>2. /\ mode = "pull" /\ ~AtEnd /\ Here = "$" /\ Then("{")
      /\ frames' = Append(frames, f) /\ pos' = pos + Len(s)
      /\ input' = input /\ mode' = mode /\ text' = text /\ line' = line
  BY <1>1, Zenon DEF OpenSubstitution, Pulls, Sees, Same
<1>3. TypeOK /\ GoodFrames(frames) /\ Kept /\ Lines /\ Dollar /\ text = <<>>
  BY <1>2, Zenon DEF Inv, Texted
<1>4. "$" # "\n" /\ "{" # "\n" /\ "?" # "\n" /\ "$" \notin Whitespace
  BY Zenon DEF Whitespace
<1>5. IsNext(s, Len(s)) /\ NewLines(s) = 0 /\ s # <<>> /\ s[1] = "$"
  <2>1. PICK a, b, c : a = "$" /\ b = "{" /\ c = "?"
    BY Zenon
  <2>2. Here = a /\ Then(b) /\ a # "\n" /\ b # "\n" /\ c # "\n"
    BY <1>2, <1>4, <2>1, Zenon
  <2>3. s = IF pos + 3 \in DOMAIN input /\ input[pos + 3] = c THEN <<a, b, c>> ELSE <<a, b>>
    BY <1>1, <2>1, Zenon
  <2>4. IsNext(s, Len(s)) /\ NewLines(s) = 0 /\ s # <<>> /\ s[1] = a
    BY <1>3, <2>2, <2>3, TwoAreNext, ThreeAreNext
  <2> QED
    BY <2>1, <2>4, Zenon
<1>6. BeginsVisibly(s)
  BY <1>4, <1>5, Zenon DEF BeginsVisibly
<1>16. pos + 1 \in Dollars
  <2>1. ~AtEnd
    BY <1>2, Zenon
  <2>2. pos + 1 \in DOMAIN input
    BY <1>3, <2>1 DEF TypeOK, IsSequence, AtEnd
  <2> QED
    BY <1>2, <2>2, Zenon DEF Dollars, Here
<1>17. s # <<>> /\ IsSequence(s) /\ IsNext(s, Len(s)) /\ NewLines(s) = 0
  BY <1>5, Zenon DEF IsNext
<1>18. /\ mode = "pull" /\ frames' = Append(frames, f) /\ pos' = pos + Len(s)
       /\ input' = input /\ mode' = mode /\ text' = text /\ line' = line
  BY <1>2, Zenon
<1>7. GoodFrame(f) /\ FrameText(f) = s /\ f.open = s /\ f.ws = <<>>
  BY <1>1, <1>17, OpenedIsGood, Zenon
<1>8. AreFrames(frames) /\ Len(frames) \in Nat \ {0} /\ IsSequence(frames)
  BY <1>3, FramesAreFrames DEF AreFrames
<1>9. /\ IsSequence(frames') /\ Len(frames') = Len(frames) + 1 /\ frames'[Len(frames) + 1] = f
      /\ \A i \in 1 .. Len(frames) : frames'[i] = frames[i]
  BY <1>8, <1>18, Pushing
<1>10. frames'[1] = frames[1] /\ Last(frames') = f /\ frames' # <<>>
  <2>1. \A k \in Nat \ {0} : 1 \in 1 .. k
    OBVIOUS
  <2>2. 1 \in 1 .. Len(frames)
    BY <1>8, <2>1
  <2> QED
    BY <1>8, <1>9, <2>2, EmptyIsSequence DEF Last
<1>11. GoodFrames(frames')
  <2>1. \A i \in 1 .. Len(frames) + 1 : i \in 1 .. Len(frames) \/ i = Len(frames) + 1
    BY <1>8
  <2>2. \A i \in 2 .. Len(frames) + 1 : i \in 2 .. Len(frames) \/ i = Len(frames) + 1
    BY <1>8
  <2>3. \A i \in 2 .. Len(frames) : i \in 1 .. Len(frames)
    BY <1>8
  <2>4. \A i \in 1 .. Len(frames') : GoodFrame(frames'[i])
    BY <1>3, <1>7, <1>9, <2>1 DEF GoodFrames
  <2>5. Openings(frames')
    BY <1>3, <1>6, <1>7, <1>9, <1>10, <1>17, <2>2, <2>3 DEF GoodFrames, Openings
  <2> QED
    BY <1>3, <1>9, <1>10, <2>4, <2>5 DEF GoodFrames
<1>12. FramesText(frames') = FramesText(frames) \o s
  <2>1. IsFrame(f)
    BY <1>7 DEF GoodFrame
  <2> QED
    BY <1>7, <1>8, <1>18, <2>1, FramePushed
<1>13. Written' = Written \o s
  <2>1. IsSequence(FramesText(frames)) /\ IsSequence(FramesText(frames) \o s)
    BY <1>3, <1>17, WrittenIsSequence, Joining
  <2>2. Written = FramesText(frames) /\ Written' = FramesText(frames) \o s
    BY <1>3, <1>12, <1>18, <2>1, JoiningNothing DEF Written
  <2> QED
    BY <2>2
<1>14. Kept' /\ HiddenLine' = HiddenLine /\ pos' \in 0 .. Len(input)
  BY <1>13, <1>17, <1>18, KeptOn
<1>15. Lines'
  <2>1. NewLines(Written \o s) = NewLines(Written) + 0 /\ NewLines(Written) \in Nat
    BY <1>3, <1>17, WrittenIsSequence, NewLinesJoined, NewLinesAreNumbered
  <2> QED
    BY <1>3, <1>10, <1>13, <1>14, <1>18, <2>1 DEF Lines
<1>20. Dollar'
  <2>1. Dollars' = Dollars
    BY <1>18, Zenon DEF Dollars
  <2>2. pos + 1 \in 1 .. pos'
    <3>1. Len(s) \in Nat \ {0}
      BY <1>17, Popping
    <3> QED
      BY <1>3, <1>18, <3>1 DEF TypeOK
  <2> QED
    BY <1>16, <2>1, <2>2 DEF Dollar
<1>21. Saved'
  BY <1>7, <1>10 DEF Saved, Top
<1>22. TypeOK' /\ Texted'
  BY <1>3, <1>14, <1>18 DEF TypeOK, Texted, BeginsVisibly
<1> QED
  BY <1>11, <1>14, <1>15, <1>20, <1>21, <1>22 DEF Inv

-----------------------------------------------------------------------------
(* The actions                                                             *)

LEMMA FirstCharacter ==
  ASSUME Inv, mode = "pull"
  PROVE  text = <<>> /\ Append(text, Here) = <<Here>>
<1>1. text = <<>>
  BY DEF Inv, Texted
<1>2. Append(<<>>, Here) = <<Here>>
  OBVIOUS
<1> QED
  BY <1>1, <1>2

LEMMA StartingText ==
  ASSUME Inv, mode = "pull", ~AtEnd, NEW m, m \notin {"idle", "pull"}, NEW c, Goes(m, <<Here>>, c, 1),
         Here # "\n", Here \notin Whitespace
  PROVE  Inv'
<1>1. Goes(m, Append(text, Here), c, 1)
  BY FirstCharacter
<1> QED
  BY <1>1, GoingOn

\* A comment, a number or a quoted string starts.
LEMMA Starting ==
  ASSUME Inv, HashComment \/ StartNumber \/ StartQuoted
  PROVE  Inv'
<1>1. mode = "pull" /\ ~AtEnd /\ Here # "\n" /\ Here \notin Whitespace
  BY Zenon DEF HashComment, StartOfComment, StartNumber, StartQuoted, Pulls, Sees, Whitespace, Digits
<1>2. \E m \in {"comment", "number", "quoted"} : Goes(m, <<Here>>, 0, 1)
  BY Zenon DEF HashComment, StartNumber, StartQuoted
<1> QED
  BY <1>1, <1>2, StartingText

\* The text of a token goes on with a character.
LEMMA GoingOnWithOne ==
  ASSUME Inv, \/ CommentChar \/ NumberChar \/ QuotedChar
              \/ EndQuoted /\ ~(count > 0)
              \/ Third /\ Sees({"\""})
  PROVE  Inv'
<1>1. ~AtEnd /\ Here # "\n"
  BY Zenon DEF CommentChar, InComment, NumberChar, QuotedChar, EndQuoted, Third, Sees, NumberChars, Digits, Controls
<1>2. mode \in {"comment", "number", "quoted", "third"}
  BY Zenon DEF CommentChar, NumberChar, QuotedChar, EndQuoted, Third
<1>3. text # <<>>
  BY <1>2 DEF Inv, Texted
<1>4. \E c : \E m \in {"comment", "number", "quoted", "third", "triple"} : Goes(m, Append(text, Here), c, 1)
  BY Zenon DEF CommentChar, NumberChar, QuotedChar, EndQuoted, Third
<1> QED
  BY <1>1, <1>3, <1>4, GoingOn

\* A token is returned without a further character.
LEMMA Returning ==
  ASSUME Inv, \/ EndOfInput \/ EndComment \/ EndNumber \/ EndUnquoted \/ EndTriple
              \/ Third /\ ~Sees({"\""})
  PROVE  Inv'
<1>1. \E type \in {"END", "COMMENT", "VALUE", "UNQUOTED_TEXT"} : Give(type, text, 0)
  <2>1. CASE EndOfInput
    <3>1. text = <<>> /\ Give("END", <<>>, 0)
      BY <2>1 DEF EndOfInput, Inv, Texted
    <3> QED
      BY <3>1
  <2>2. CASE EndComment \/ EndNumber \/ EndUnquoted \/ EndTriple \/ (Third /\ ~Sees({"\""}))
    BY <2>2, Zenon DEF EndComment, EndNumber, EndUnquoted, EndTriple, Third
  <2> QED
    BY <2>1, <2>2
<1> QED
  BY <1>1, GivingNothingMore

\* A token is returned with a further character.
LEMMA ReturningOne ==
  ASSUME Inv, Newline \/ Punctuate \/ (EndQuoted /\ count > 0)
  PROVE  Inv'
<1>1. CASE Newline
  <2>1. mode = "pull" /\ ~AtEnd /\ Here = "\n" /\ GiveTo(frames, "NEWLINE", <<"\n">>, 1, 1)
    BY <1>1 DEF Newline, Pulls, Sees
  <2>2. GiveTo(frames, "NEWLINE", Append(text, Here), 1, 1) /\ Here \notin Whitespace
    BY <2>1, FirstCharacter DEF Whitespace
  <2> QED
    BY <2>1, <2>2, GivingOneMore
<1>2. CASE Punctuate
  <2>1. mode = "pull" /\ ~AtEnd /\ Here \in DOMAIN Punctuation
    BY <1>2, Zenon DEF Punctuate, Pulls, Sees
  <2>2. PICK type : type = Punctuation[Here]
    OBVIOUS
  <2>3. GiveTo(frames, type, <<Here>>, 1, 0)
    BY <1>2, <2>2, Zenon DEF Punctuate, Give
  <2>4. Here \notin Whitespace /\ Here # "\n" /\ type # "NEWLINE"
    BY <2>1, <2>2, PunctuationMarks
  <2>5. GiveTo(frames, type, Append(text, Here), 1, 0)
    BY <2>1, <2>3, FirstCharacter
  <2> QED
    BY <2>1, <2>4, <2>5, GivingOneMore
<1>3. CASE EndQuoted /\ count > 0
  <2>1. /\ mode = "quoted" /\ ~AtEnd /\ Here # "\n"
        /\ \E type \in {"VALUE"} : GiveTo(frames, type, Append(text, Here), 1, 0)
    BY <1>3, Zenon DEF EndQuoted, Sees, Give
  <2>2. text # <<>>
    BY <2>1 DEF Inv, Texted
  <2> QED
    BY <2>1, <2>2, GivingOneMore
<1> QED
  BY <1>1, <1>2, <1>3

\* Text without quotes.
LEMMA ReadingUnquoted ==
  ASSUME Inv, StartUnquoted \/ UnquotedChar
  PROVE  Inv'
<1>1. ~AtEnd /\ Here # "\n" /\ Here \notin Whitespace
  BY Zenon DEF StartUnquoted, UnquotedChar, InUnquoted
<1>2. CASE StartUnquoted
  <2>1. text = <<>> /\ Goes("unquoted", <<>>, 0, 0)
    BY <1>2, FirstCharacter DEF StartUnquoted
  <2> QED
    BY <2>1, GoingOnWithNothing
<1>3. CASE UnquotedChar
  <2>1. \/ Goes("unquoted", Append(text, Here), 0, 1)
        \/ \E type \in {"VALUE"} : GiveTo(frames, type, Append(text, Here), 1, 0)
    BY <1>3, Zenon DEF UnquotedChar, Give
  <2> QED
    BY <1>1, <2>1, GoingOn, GivingOneMore
<1> QED
  BY <1>2, <1>3

\* Two characters at once.
LEMMA ReadingTwo ==
  ASSUME Inv, PlusEquals \/ SlashComment
  PROVE  Inv'
<1>1. PICK a, b : /\ Here = a /\ Then(b) /\ a # "\n" /\ b # "\n" /\ a \notin Whitespace
                  /\ \/ GiveTo(frames, "PLUS_EQUALS", <<a, b>>, 2, 0)
                     \/ Goes("comment", <<a, b>>, 0, 2)
  <2>1. CASE PlusEquals
    <3>1. Here = "+" /\ Then("=") /\ "+" # "\n" /\ "=" # "\n" /\ "+" \notin Whitespace
      BY <2>1, Zenon DEF PlusEquals, Pulls, Sees, Whitespace
    <3>2. GiveTo(frames, "PLUS_EQUALS", <<"+", "=">>, 2, 0)
      BY <2>1, Zenon DEF PlusEquals, Give
    <3> QED
      BY <3>1, <3>2, Zenon
  <2>2. CASE SlashComment
    <3>1. Here = "/" /\ Then("/") /\ "/" # "\n" /\ "/" \notin Whitespace
      BY <2>2, Zenon DEF SlashComment, StartOfComment, Sees, Whitespace
    <3>2. Goes("comment", <<"/", "/">>, 0, 2)
      BY <2>2, Zenon DEF SlashComment
    <3> QED
      BY <3>1, <3>2, Zenon
  <2> QED
    BY <2>1, <2>2
<1>2. mode = "pull"
  BY Zenon DEF PlusEquals, SlashComment, Pulls
<1>3. TypeOK /\ text = <<>>
  BY <1>2 DEF Inv, Texted
<1>4. PICK s : s = <<a, b>>
  OBVIOUS
<1>5. IsNext(s, 2) /\ NewLines(s) = 0 /\ s # <<>> /\ s[1] = a
  BY <1>1, <1>3, <1>4, TwoAreNext
<1>6. BeginsVisibly(s) /\ text \o s = s
  BY <1>1, <1>3, <1>5, JoiningNothing DEF BeginsVisibly, IsNext
<1>7. CASE GiveTo(frames, "PLUS_EQUALS", <<a, b>>, 2, 0)
  BY <1>4, <1>5, <1>6, <1>7, GivenMore
<1>8. CASE Goes("comment", <<a, b>>, 0, 2)
  <2>1. /\ mode' = "comment" /\ text' = s /\ pos' = pos + 2 /\ input' = input /\ frames' = frames
        /\ line' = line + NewLines(s) /\ line' \in Nat
    BY <1>3, <1>4, <1>5, <1>8 DEF Goes, Same, TypeOK
  <2> QED
    BY <1>5, <1>6, <2>1, Going
<1> QED
  BY <1>1, <1>7, <1>8

\* In three quotes.
LEMMA ReadingTriple ==
  ASSUME Inv, TripleChar
  PROVE  Inv'
<1>1. /\ mode = "triple" /\ ~AtEnd /\ text' = Append(text, Here) /\ pos' = pos + 1 /\ line' = CountedLine
      /\ input' = input /\ mode' = mode /\ frames' = frames
  BY Zenon DEF TripleChar, Same
<1>2. TypeOK /\ BeginsVisibly(text) /\ line \in Nat /\ IsSequence(text) /\ text # <<>>
  BY <1>1 DEF Inv, Texted, TypeOK
<1>3. PICK h, s, u : h = Here /\ s = <<Here>> /\ u = Append(text, h)
  OBVIOUS
<1>4. IsNext(s, 1) /\ text \o s = u /\ NewLines(s) = IF h = "\n" THEN 1 ELSE 0
  BY <1>1, <1>2, <1>3, HereIsNext
<1>5. BeginsVisibly(u) /\ u # <<>>
  BY <1>2, <1>3, AppendedVisibly
<1>6. line' = line + NewLines(s) /\ line' \in Nat
  BY <1>1, <1>2, <1>3, <1>4 DEF CountedLine
<1>7. mode' = "triple" /\ text' = u
  BY <1>1, <1>3
<1> QED
  BY <1>1, <1>4, <1>5, <1>6, <1>7, Going

LEMMA Taking ==
  ASSUME Inv, Take
  PROVE  Inv'
<1>1. /\ mode = "idle" /\ mode' \in {"idle", "pull"}
      /\ UNCHANGED <<input, pos, text, frames, line>>
  BY Zenon DEF Take
<1>2. TypeOK' /\ GoodFrames(frames)' /\ Kept' /\ Lines' /\ Dollar'
  BY <1>1 DEF Inv, TypeOK, Kept, Read, Tight, Lines, HiddenLine, Written, Dollar, Dollars
<1>3. Last(frames).ws = <<>> /\ text = <<>> /\ Len(frames) = 1 /\ frames[1].ws = <<>>
  BY <1>1 DEF Inv, Texted, Last
<1>4. Saved' /\ Texted'
  BY <1>1, <1>3 DEF Saved, Texted, Top, BeginsVisibly
<1> QED
  BY <1>2, <1>4 DEF Inv

LEMMA Throwing ==
  ASSUME Inv, Throw
  PROVE  Inv'
<1>1. Goes("failed", text, count, 0)
  BY DEF Throw
<1> QED
  BY <1>1, GoingOnWithNothing

\* An escape: a newline in it is hidden.
LEMMA Escaping ==
  ASSUME Inv, Escape
  PROVE  Inv'
<1>1. PICK n, s : n = EscapeLength /\ s = SubSeq(input, pos + 1, pos + n)
  OBVIOUS
<1>2. /\ mode = "quoted" /\ ~AtEnd /\ Here = "\\" /\ n > 0
      /\ \E c : Goes("quoted", text \o s, c, n)
  BY <1>1, Zenon DEF Escape, Sees
<1>3. TypeOK /\ BeginsVisibly(text) /\ text # <<>> /\ IsSequence(text) /\ line \in Nat
  BY <1>2 DEF Inv, Texted, TypeOK
<1>4. IsSequence(input) /\ pos \in Nat /\ Len(input) \in Nat /\ DOMAIN input = 1 .. Len(input)
  BY <1>3 DEF TypeOK, IsSequence
<1>5. /\ pos + 2 \in DOMAIN input
      /\ \/ n = 2 /\ input[pos + 2] \in Escapable
         \/ n = 6 /\ input[pos + 2] = "u" /\ pos + 6 \in DOMAIN input
  <2>1. n # 0
    BY <1>2
  <2> QED
    BY <1>1, <2>1, Zenon DEF EscapeLength
<1>6. n \in {2, 6} /\ pos + n <= Len(input)
  BY <1>4, <1>5
<1>7. IsSequence(s) /\ Len(s) = n /\ \A k \in 1 .. n : s[k] = input[pos + k]
  <2> DEFINE E == {input[k] : k \in 1 .. Len(input)}
  <2>1. input \in Seq(E)
    BY <1>4, SequenceOverElements
  <2> HIDE DEF E
  <2>2. s \in Seq(E) /\ Len(s) = n /\ \A k \in 1 .. n : s[k] = input[pos + k]
    BY <1>1, <1>4, <1>6, <2>1
  <2> QED
    BY <2>2, SequenceIsSequence
<1>8. IsNext(s, n)
  BY <1>6, <1>7 DEF IsNext
<1>9. HiddenLine \/ NewLines(s) = 0
  <2> SUFFICES ASSUME ~HiddenLine, NEW k \in 1 .. n
               PROVE  s[k] # "\n"
    BY <1>7, NoNewLines
  <2>1. s[k] = input[pos + k]
    BY <1>7
  <2>2. CASE k = 1
    BY <1>2, <2>1, <2>2 DEF Here
  <2>3. CASE k = 2
    <3>1. "\n" \notin Escapable /\ "u" # "\n"
      BY Zenon DEF Escapable
    <3> QED
      BY <1>5, <2>1, <2>3, <3>1
  <2>4. CASE k \in 3 .. 6 /\ n = 6
    <3>1. input[pos + 1] = "\\" /\ input[pos + 2] = "u"
      BY <1>2, <1>5, <2>4 DEF Here
    <3>2. PICK i, j : i = pos + 1 /\ j = pos + k
      OBVIOUS
    <3>3. i \in DOMAIN input /\ j \in DOMAIN input /\ j \in i + 2 .. i + 5 /\ i + 1 = pos + 2
      BY <1>4, <1>6, <2>4, <3>2
    <3>4. input[i] = "\\" /\ input[i + 1] = "u"
      BY <3>1, <3>2, <3>3, Zenon
    <3>5. input[j] # "\n"
      BY <3>3, <3>4, Zenon DEF HiddenLine
    <3> QED
      BY <2>1, <3>2, <3>5
  <2> QED
    BY <1>6, <2>2, <2>3, <2>4
<1>10. PICK u : u = text \o s
  OBVIOUS
<1>11. u # <<>> /\ BeginsVisibly(u)
  <2>1. 1 \in 1 .. Len(text) /\ IsSequence(s) /\ Len(s) \in Nat /\ Len(text) \in Nat
    BY <1>3, <1>7, Popping DEF IsSequence
  <2>2. IsSequence(u) /\ u[1] = text[1] /\ Len(u) = Len(text) + Len(s)
    BY <1>3, <1>10, <2>1, Joining
  <2>3. Len(u) # 0
    BY <2>1, <2>2
  <2> QED
    BY <1>3, <2>2, <2>3, EmptyIsSequence DEF BeginsVisibly
<1>12. /\ mode' = "quoted" /\ text' = u /\ pos' = pos + n /\ input' = input /\ frames' = frames
       /\ line' = line
  BY <1>2, <1>10 DEF Goes, Same
<1>13. HiddenLine \/ line' = line + NewLines(s)
  BY <1>3, <1>9, <1>12
<1> QED
  BY <1>3, <1>8, <1>10, <1>11, <1>12, <1>13, Going

\* Whitespace that is dropped is not missed, if it is not asked for.
LEMMA DroppedWhitespace ==
  ASSUME NEW p, NEW b, NEW w, NEW s, IsSequence(p), IsSequence(b), IsSequence(w), IsSequence(s),
         AllIn(w, Whitespace)
  PROVE  /\ Visible((p \o (b \o w)) \o s) = Visible(p \o (b \o s))
         /\ NewLines((p \o (b \o w)) \o s) = NewLines(p \o (b \o s))
         /\ w = <<>> => (p \o (b \o w)) \o s = p \o (b \o s)
<1>1. PICK v : v = p \o b
  OBVIOUS
<1>2. p \o (b \o w) = v \o w
  BY <1>1, JoiningThree
<1>3. p \o (b \o s) = v \o s
  BY <1>1, JoiningThree
<1>4. PICK y : y = v \o w
  OBVIOUS
<1>5. IsSequence(v) /\ IsSequence(y)
  BY <1>1, <1>4, Joining
<1>6. /\ Visible(y \o s) = Visible(y) \o Visible(s)
      /\ Visible(v \o s) = Visible(v) \o Visible(s)
      /\ Visible(y) = Visible(v) \o Visible(w)
  BY <1>4, <1>5, VisibleJoined
<1>7. Visible(y \o s) = Visible(v \o s)
  <2>1. Visible(w) = <<>>
    BY VisibleBlank
  <2>2. IsSequence(Visible(v))
    BY <1>5, VisibleIsSequence
  <2>3. Visible(v) \o <<>> = Visible(v)
    BY <2>2, JoiningNothing
  <2> QED
    BY <1>6, <2>1, <2>3
<1>8. NewLines(w) = 0
  <2>1. "\n" \notin Whitespace
    BY Zenon DEF Whitespace
  <2>2. DOMAIN w = 1 .. Len(w)
    BY DEF IsSequence
  <2> QED
    BY <2>1, <2>2, NoNewLines DEF AllIn
<1>9. NewLines(y \o s) = NewLines(v \o s)
  <2>1. /\ NewLines(y \o s) = NewLines(y) + NewLines(s)
        /\ NewLines(v \o s) = NewLines(v) + NewLines(s)
        /\ NewLines(y) = NewLines(v) + NewLines(w)
    BY <1>4, <1>5, NewLinesJoined
  <2>2. NewLines(v) \in Nat /\ NewLines(s) \in Nat
    BY <1>5, NewLinesAreNumbered
  <2> QED
    BY <1>8, <2>1, <2>2
<1>10. w = <<>> => y \o s = v \o s
  BY <1>4, <1>5, JoiningNothing
<1> QED
  BY <1>2, <1>3, <1>4, <1>7, <1>9, <1>10

\* In tight text nothing was saved where a substitution is closed.
AtBrace == Here = "}"

LEMMA NothingIsDropped ==
  ASSUME Inv, mode = "pull", ~AtEnd, AtBrace, Len(frames) > 1, Tight
  PROVE  Top.ws = <<>>
<1> SUFFICES ASSUME Top.ws # <<>> PROVE FALSE
  OBVIOUS
<1>1. TypeOK /\ Dollar /\ Saved
  BY Zenon DEF Inv
<1>2. pos > 0 /\ input[pos] \in Whitespace /\ \E j \in 1 .. pos : j \in Dollars
  BY <1>1, Zenon DEF Dollar, Saved
<1>3. IsSequence(input) /\ pos \in 0 .. Len(input) /\ Len(input) \in Nat /\ DOMAIN input = 1 .. Len(input)
  BY <1>1 DEF TypeOK, IsSequence
<1>4. ~AtEnd
  BY Zenon
<1>5. pos \in DOMAIN input /\ pos + 1 \in DOMAIN input
  <2>1. pos # Len(input) /\ pos > 0
    BY <1>2, <1>4, Zenon DEF AtEnd
  <2>2. \A l \in Nat : \A k \in 0 .. l : k # l /\ k > 0 => k \in 1 .. l /\ k + 1 \in 1 .. l
    OBVIOUS
  <2> QED
    BY <1>3, <2>1, <2>2, Zenon
<1>6. input[pos + 1] = "}"
  BY Zenon DEF Here, AtBrace
<1> QED
  BY <1>2, <1>5, <1>6, Zenon DEF Tight, Dollars

LEMMA ClosingSubstitution ==
  ASSUME Inv, CloseSubstitution
  PROVE  Inv'
<1>1. PICK fs, o, k, w, c, s : /\ fs = Popped(frames) /\ o = Top.open /\ k = TextOf(Top.tokens) /\ w = Top.ws
                               /\ c = Here /\ s = <<c>>
  OBVIOUS
<1>2. /\ mode = "pull" /\ ~AtEnd /\ Here = "}" /\ AtBrace /\ InSubst
      /\ GiveTo(fs, "SUBSTITUTION", (o \o k) \o <<"}">>, 1, 0)
  BY <1>1, Zenon DEF CloseSubstitution, Pulls, Sees, AtBrace
<1>3. Tight => w = <<>>
  BY <1>1, <1>2, NothingIsDropped, Zenon DEF InSubst
<1>4. GiveTo(fs, "SUBSTITUTION", (o \o k) \o s, 1, 0) /\ mode = "pull" /\ ~AtEnd
  BY <1>1, <1>2, Zenon
<1>5. c # "\n" /\ InSubst
  BY <1>1, <1>2, Zenon
<1>6. TypeOK /\ GoodFrames(frames) /\ text = <<>>
  BY <1>4 DEF Inv, Texted
<1>7. /\ AreFrames(frames) /\ Len(frames) \in Nat \ {0} /\ Len(frames) > 1
      /\ Top = frames[Len(frames)] /\ GoodFrame(Top) /\ IsSequence(frames) /\ frames # <<>>
  BY <1>5, <1>6, FramesAreFrames DEF Top, InSubst, GoodFrames
<1>8. /\ IsSequence(fs) /\ Len(fs) = Len(frames) - 1
      /\ \A i \in 1 .. Len(frames) - 1 : fs[i] = frames[i]
  BY <1>1, <1>7, Popping
<1>9. GoodFrames(fs) /\ fs[1] = frames[1]
  <2>1. /\ 1 \in 1 .. Len(frames) - 1
        /\ \A i \in 1 .. Len(frames) - 1 : i \in 1 .. Len(frames)
        /\ \A i \in 2 .. Len(frames) - 1 : i \in 1 .. Len(frames) - 1 /\ i \in 2 .. Len(frames)
    BY <1>7
  <2>2. fs[1] = frames[1] /\ fs # <<>>
    BY <1>7, <1>8, <2>1, EmptyIsSequence
  <2>3. \A i \in 1 .. Len(fs) : GoodFrame(fs[i])
    BY <1>6, <1>8, <2>1 DEF GoodFrames
  <2>4. Openings(fs)
    BY <1>6, <1>8, <2>1, <2>2 DEF GoodFrames, Openings
  <2> QED
    BY <1>6, <1>8, <2>2, <2>3, <2>4 DEF GoodFrames
<1>10. IsSequence(o) /\ IsSequence(k) /\ IsSequence(w) /\ AllIn(w, Whitespace) /\ o # <<>> /\ BeginsVisibly(o)
  <2>1. IsFrame(Top) /\ AllIn(Top.ws, Whitespace)
    BY <1>7 DEF GoodFrame
  <2>2. Len(frames) \in 2 .. Len(frames)
    BY <1>7
  <2>3. o # <<>> /\ BeginsVisibly(o)
    BY <1>1, <1>6, <1>7, <2>2 DEF GoodFrames, Openings
  <2> QED
    BY <1>1, <2>1, <2>3, TextOfIsSequence DEF IsFrame
<1>11. IsNext(s, 1) /\ NewLines(s) = 0 /\ IsSequence(s)
  BY <1>1, <1>4, <1>5, <1>6, HereIsNext DEF IsNext
<1>12. PICK p, b, txt : p = FramesText(fs) /\ b = o \o k /\ txt = b \o s
  OBVIOUS
<1>13. IsSequence(p) /\ IsSequence(b) /\ IsSequence(txt)
  <2>1. AreFrames(fs)
    BY <1>9, FramesAreFrames
  <2> QED
    BY <1>10, <1>11, <1>12, <2>1, FramesTextIsSequence, Joining
<1>14. BeginsVisibly(txt)
  <2>1. 1 \in 1 .. Len(o)
    BY <1>10, Popping
  <2>2. b[1] = o[1] /\ Len(b) = Len(o) + Len(k) /\ Len(k) \in Nat /\ Len(o) \in Nat
    BY <1>10, <1>12, <2>1, Joining DEF IsSequence
  <2>3. 1 \in 1 .. Len(b)
    BY <2>1, <2>2
  <2>4. txt[1] = b[1]
    BY <1>11, <1>12, <1>13, <2>3, Joining
  <2> QED
    BY <1>10, <2>2, <2>4 DEF BeginsVisibly
<1>15. Written = p \o (b \o w)
  <2>1. FramesText(frames) = FramesText(Popped(frames)) \o FrameText(Last(frames))
    BY <1>7, TopApart
  <2>2. FrameText(Last(frames)) = b \o w
    BY <1>1, <1>12 DEF FrameText, Top
  <2>3. FramesText(frames) \o <<>> = FramesText(frames)
    BY <1>6, WrittenIsSequence, JoiningNothing
  <2> QED
    BY <1>1, <1>6, <1>12, <2>1, <2>2, <2>3 DEF Written
<1>16. /\ Visible(Written \o s) = Visible(p \o txt)
       /\ NewLines(Written \o s) = NewLines(p \o txt)
       /\ Tight => Written \o s = p \o txt
  <2>1. /\ Visible((p \o (b \o w)) \o s) = Visible(p \o (b \o s))
        /\ NewLines((p \o (b \o w)) \o s) = NewLines(p \o (b \o s))
        /\ w = <<>> => (p \o (b \o w)) \o s = p \o (b \o s)
    BY <1>10, <1>11, <1>13, DroppedWhitespace
  <2> QED
    BY <1>3, <1>12, <1>15, <2>1, Zenon
<1>17. NewLines(p \o txt) = NewLines(Written) + 0
  BY <1>6, <1>11, <1>16, WrittenIsSequence, NewLinesJoined
<1>18. \E type : type # "NEWLINE" /\ GiveTo(fs, type, txt, 1, 0)
  BY <1>4, <1>12
<1>19. Len(fs) > 1 => Len(frames) > 1
  BY <1>7
<1> QED
  BY <1>9, <1>11, <1>12, <1>13, <1>14, <1>16, <1>17, <1>18, <1>19, Given

-----------------------------------------------------------------------------
(* The invariant                                                           *)

\* START alone is in the queue.
LEMMA FirstFrame ==
  ASSUME NEW t, t = Token("START", <<>>, 0), NEW f, f = Frame(<<>>, <<t>>), NEW fs, fs = <<f>>
  PROVE  GoodFrames(fs) /\ Len(fs) = 1 /\ fs[1] = f /\ f.ws = <<>> /\ FramesText(fs) = <<>> /\ LinesAreRight(f.tokens)
<1>1. t.type = "START" /\ t.text = <<>>
  BY DEF Token
<1>2. PICK ts : ts = <<t>>
  OBVIOUS
<1>3. /\ f.open = <<>> /\ f.tokens = ts /\ f.ws = <<>> /\ f.simple = FALSE
      /\ DOMAIN f = {"open", "tokens", "ws", "simple"}
  BY <1>2 DEF Frame
<1>4. IsSequence(<<>>) /\ Len(<<>>) = 0 /\ DOMAIN <<>> = {}
  BY EmptyIsSequence
<1>5. /\ IsSequence(ts) /\ Len(ts) = 1 /\ ts[1] = t /\ ts = Append(<<>>, t)
      /\ IsSequence(fs) /\ Len(fs) = 1 /\ fs[1] = f
  <2>1. <<>> \o ts = ts /\ <<>> \o ts = Append(<<>>, t)
    BY <1>2, JoiningOne, JoiningNothing, EmptyIsSequence
  <2> QED
    BY <1>2, <2>1, JoiningOne, EmptyIsSequence
<1>6. TextOf(ts) = <<>> /\ IsTokens(ts)
  <2>1. TextOf(Append(<<>>, t)) = TextOf(<<>>) \o t.text /\ IsTokens(Append(<<>>, t))
    BY <1>1, TextOfNothing, TextOfAppended, EmptyIsSequence
  <2> QED
    BY <1>1, <1>4, <1>5, <2>1, TextOfNothing, JoiningNothing
<1>7. IsFrame(f)
  BY <1>3, <1>4, <1>6 DEF IsFrame
<1>8. KnowsItsLast(f)
  BY <1>1, <1>3, <1>5 DEF KnowsItsLast, IsSimple
<1>9. IsSpaced(ts) /\ LinesAreRight(ts)
  <2>1. ~IsWhitespace(t)
    BY <1>1 DEF IsWhitespace
  <2>2. \A i \in 1 .. Len(ts) : i = 1
    BY <1>5
  <2> QED
    BY <1>5, <2>1, <2>2 DEF IsSpaced, LinesAreRight
<1>10. AllIn(f.ws, Whitespace)
  BY <1>3, <1>4 DEF AllIn
<1>11. GoodFrame(f)
  BY <1>3, <1>7, <1>8, <1>9, <1>10 DEF GoodFrame
<1>12. ts # <<>> /\ fs # <<>>
  BY <1>4, <1>5
<1>13. \A i \in 1 .. Len(fs) : i = 1
  BY <1>5
<1>14. GoodFrames(fs)
  <2>1. Openings(fs)
    BY <1>3, <1>5 DEF Openings
  <2> QED
    BY <1>3, <1>5, <1>11, <1>12, <1>13, <2>1 DEF GoodFrames
<1>15. FramesText(fs) = FrameText(f)
  <2>1. AreFrames(fs)
    BY <1>14, FramesAreFrames
  <2> QED
    BY <1>5, <2>1, OneFrame
<1>16. FrameText(f) = <<>>
  BY <1>3, <1>4, <1>6, JoiningNothing DEF FrameText
<1> QED
  BY <1>3, <1>5, <1>9, <1>14, <1>15, <1>16

LEMMA InvInit == ParserInit => Inv
<1> SUFFICES ASSUME ParserInit PROVE Inv
  OBVIOUS
<1>1. Init(Documents) \/ Init(Expressions)
  BY DEF ParserInit
<1>2. PICK t, f : t = Token("START", <<>>, 0) /\ f = Frame(<<>>, <<t>>)
  OBVIOUS
<1>3. /\ input \in Documents \cup Expressions /\ pos = 0 /\ line = 1 /\ mode = "idle" /\ text = <<>>
      /\ frames = <<f>>
  BY <1>1, <1>2 DEF Init
<1>4. IsSequence(input)
  BY <1>3, TextsAssumption
<1>5. IsSequence(<<>>) /\ Len(input) \in Nat
  BY <1>4, EmptyIsSequence DEF IsSequence
<1>6. TypeOK
  BY <1>3, <1>4, <1>5 DEF TypeOK
<1>7. /\ GoodFrames(frames) /\ Len(frames) = 1 /\ frames[1] = f /\ f.ws = <<>>
      /\ FramesText(frames) = <<>> /\ LinesAreRight(f.tokens)
  BY <1>2, <1>3, FirstFrame
<1>8. Written = <<>> /\ Read = <<>>
  <2>1. Written = <<>>
    BY <1>3, <1>5, <1>7, JoiningNothing DEF Written
  <2>2. IsSequence(Read) /\ Len(Read) = 0
    BY <1>3, <1>6, <1>7, WrittenIsSequence
  <2> QED
    BY <2>1, <2>2, NoElements
<1>9. Kept
  BY <1>8 DEF Kept
<1>10. Lines
  <2>1. NewLines(<<>>) = 0
    BY <1>6, NothingIsNext
  <2> QED
    BY <1>3, <1>7, <1>8, <2>1 DEF Lines
<1>11. Dollar
  BY <1>7 DEF Dollar
<1>12. Saved /\ Texted
  BY <1>3, <1>7 DEF Saved, Texted, BeginsVisibly
<1> QED
  BY <1>6, <1>7, <1>9, <1>10, <1>11, <1>12 DEF Inv

LEMMA InvNext == Inv /\ [ParserNext]_allVars => Inv'
<1> SUFFICES ASSUME Inv, [ParserNext]_allVars PROVE Inv'
  OBVIOUS
<1>1. CASE UNCHANGED vars
  <2>1. UNCHANGED <<input, allow_comments, pos, mode, text, count, frames, line, taken>>
    BY <1>1 DEF vars
  <2>2. TypeOK' /\ GoodFrames(frames)' /\ Kept'
    BY <2>1 DEF Inv, TypeOK, Kept, Read, Tight, Written
  <2>3. Lines' /\ Dollar' /\ Saved' /\ Texted'
    BY <2>1 DEF Inv, Lines, HiddenLine, Written, Dollar, Dollars, Saved, Top, Texted
  <2> QED
    BY <2>2, <2>3 DEF Inv
<1>2. CASE Next
  <2>1. CASE Take
    BY <2>1, Taking
  <2>2. CASE SaveWhitespace
    BY <2>2, SavingWhitespace
  <2>3. CASE HashComment \/ StartNumber \/ StartQuoted
    BY <2>3, Starting
  <2>4. CASE CommentChar \/ NumberChar \/ QuotedChar
    BY <2>4, GoingOnWithOne
  <2>5. CASE EndOfInput \/ EndComment \/ EndNumber \/ EndUnquoted \/ EndTriple
    BY <2>5, Returning
  <2>6. CASE Newline \/ Punctuate
    BY <2>6, ReturningOne
  <2>7. CASE StartUnquoted \/ UnquotedChar
    BY <2>7, ReadingUnquoted
  <2>8. CASE EndQuoted
    BY <2>8, GoingOnWithOne, ReturningOne
  <2>9. CASE Third
    BY <2>9, GoingOnWithOne, Returning
  <2>10. CASE PlusEquals \/ SlashComment
    BY <2>10, ReadingTwo
  <2>11. CASE Escape
    BY <2>11, Escaping
  <2>12. CASE TripleChar
    BY <2>12, ReadingTriple
  <2>13. CASE OpenSubstitution
    BY <2>13, OpeningSubstitution
  <2>14. CASE CloseSubstitution
    BY <2>14, ClosingSubstitution
  <2>15. CASE Throw
    BY <2>15, Throwing
  <2> QED
    BY <1>2, <2>1, <2>2, <2>3, <2>4, <2>5, <2>6, <2>7, <2>8, <2>9, <2>10, <2>11, <2>12, <2>13, <2>14, <2>15
       DEF Next
<1>3. UNCHANGED vars \/ Next
  BY DEF ParserNext, allVars, Speculate, AskNext, TokenizerFails, AddToken, Build
<1> QED
  BY <1>1, <1>2, <1>3

LEMMA InvImplies == Inv => TextIsKept /\ WhitespaceIsText /\ LinesAreCounted
<1> SUFFICES ASSUME Inv PROVE TextIsKept /\ WhitespaceIsText /\ LinesAreCounted
  OBVIOUS
<1>1. TextIsKept
  BY DEF Inv, Kept, TextIsKept
<1>2. WhitespaceIsText
  <2> SUFFICES ASSUME NEW ts \in Lists, NEW i \in DOMAIN ts, IsWhitespace(ts[i])
               PROVE  ts[i].type = "UNQUOTED_TEXT" <=> i > 1 /\ IsSimple(ts[i - 1].type) /\ IsSimple(ts[i + 1].type)
    BY DEF WhitespaceIsText
  <2>1. PICK j \in DOMAIN frames : ts = frames[j].tokens
    BY DEF Lists
  <2>2. GoodFrame(frames[j])
    BY DEF Inv, GoodFrames, IsSequence
  <2>3. IsSequence(ts) /\ IsSpaced(ts)
    BY <2>1, <2>2 DEF GoodFrame, IsFrame, IsTokens
  <2>4. i \in 1 .. Len(ts)
    BY <2>3 DEF IsSequence
  <2> QED
    BY <2>3, <2>4 DEF IsSpaced
<1>3. LinesAreCounted
  BY DEF Inv, Lines, LinesAreCounted
<1> QED
  BY <1>1, <1>2, <1>3

LEMMA Invariance == ParserSpec => []Inv
BY InvInit, InvNext, PTL DEF ParserSpec

\* The tokens of any text that was read are the text, to its last character.
THEOREM TheTextIsKept == ParserSpec => []TextIsKept
<1>1. Inv => TextIsKept
  BY InvImplies
<1> QED
  BY <1>1, Invariance, PTL

\* Whitespace between two simple values is text, all other is not, in any text.
THEOREM TheWhitespaceIsText == ParserSpec => []WhitespaceIsText
<1>1. Inv => WhitespaceIsText
  BY InvImplies
<1> QED
  BY <1>1, Invariance, PTL

\* Every token of any text is on its line, unless a newline is in an escape.
THEOREM TheLinesAreCounted == ParserSpec => []LinesAreCounted
<1>1. Inv => LinesAreCounted
  BY InvImplies
<1> QED
  BY <1>1, Invariance, PTL
=============================================================================
