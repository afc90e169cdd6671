--------------------------- MODULE MCResolverTests ---------------------------
(***************************************************************************)
(* The documents of lib/tests/config_substitution_test.cc, with what the   *)
(* test requires.  The test sees the one order in which its unordered maps *)
(* happen to list the children; here every order is taken.                 *)
(***************************************************************************)
EXTENDS MCResolver

R(id, path) == Ref(id, path, FALSE)
Q(id, path) == Ref(id, path, TRUE)
O(kv)       == Obj(kv, FALSE)
Text2(r, s) == Concatenation(<<r, Text(s)>>)

\* Resolving the document must give the value at the path, or the error.
Expect(fields, path, v) ==
  [path |-> path, expect |-> v] @@ Whole(Document(fields), Plainly)
\* Resolving a value against the document.
ExpectFrom(v0, fields, v) ==
  [path |-> <<>>, expect |-> v] @@ Against(v0, Document(fields))

A  == <<"a">>
B  == <<"b">>
AB == <<"a", "b">>
Cycle == Err("cycle")

Chain(ref(_, _)) ==
  <<<<"foo", ref(1, <<"bar">>)>>, <<"bar", ref(2, AB)>>, <<"a", O("b" :> ref(3, <<"foo">>))>>>>
Defaults == <<"defaults", O("a" :> Text("1") @@ "b" :> Text("2"))>>
Item1    == R(1, <<"defaults">>)
Item2    == <<"item2", O("b" :> R(2, <<"item1", "b">>))>>

Tested == {
  \* :242-278 cycles
  ExpectFrom(R(9, A), <<<<"a", R(1, A)>>>>, Cycle),
  ExpectFrom(R(9, <<"foo">>), Chain(R), Cycle),
  ExpectFrom(Q(9, <<"foo">>), Chain(R), Cycle),
  ExpectFrom(Q(9, <<"foo">>), Chain(Q), NoValue),
  Expect(<<<<"a", R(1, B)>>, <<"b", R(2, A)>>>>, <<>>, Cycle),
  \* :224-228, :302-317 overridden substitutions
  Expect(<<<<"a", Text("1")>>, <<"b", R(1, A)>>, <<"a", Text("2")>>>>, B, Text("2")),
  Expect(<<<<"a", R(1, <<"x">>)>>, <<"a", Text("42")>>>>, A, Text("42")),
  Expect(<<<<"a", R(1, A)>>, <<"a", Text("42")>>>>, A, Text("42")),
  \* :319-419 delayed merge object, problems 1, 2 and 4
  Expect(<<Defaults, <<"item1", Item1>>, <<"item1", O("b" :> Text("3"))>>, Item2>>,
         <<"item2", "b">>, Text("3")),
  Expect(<<Defaults, <<"item1", Item1>>, <<"item1", O("b" :> O("c" :> Text("43")))>>, Item2>>,
         <<"item2", "b">>, O("c" :> Text("43"))),
  Expect(<<Defaults, <<"item1", O("b" :> Text("7"))>>, <<"item1", Item1>>, Item2>>,
         <<"item1", "b">>, Text("2")),
  \* :681-866 self references
  Expect(<<<<"a", Text("1")>>, <<"a", R(1, A)>>>>, A, Text("1")),
  Expect(<<<<"a", Q(1, A)>>>>, <<>>, Empty),
  Expect(<<<<"a", O("b" :> Text("1"))>>, <<"a", O("b" :> R(1, AB))>>>>, AB, Text("1")),
  Expect(<<<<"a", O("b" :> Text("5"))>>, <<"a", R(1, A)>>>>, AB, Text("5")),
  Expect(<<<<"a", Text("1")>>, <<"a", Text2(R(1, A), "foo")>>>>, A, Scalar(<<"1", "foo">>, TRUE)),
  Expect(<<<<"a", Text2(Q(1, A), "foo")>>>>, A, Text("foo")),
  Expect(<<<<"a", Text2(Q(1, B), "foo")>>, <<"b", Q(2, A)>>>>, A, Text("foo")),
  Expect(<<<<"a", Text("1")>>,
           <<"a", Concatenation(<<Q(1, A), Text("foo"), Q(2, A)>>)>>>>,
         A, Scalar(<<"1", "foo", "1">>, TRUE)),
  Expect(<<<<"a", Text("1")>>, <<"a", R(1, A)>>, <<"a", Text("2")>>>>, A, Text("2")),
  Expect(<<<<"a", Text("1")>>, <<"a", Text("2")>>, <<"a", R(1, A)>>>>, A, Text("2")),
  Expect(<<<<"bar", O("foo" :> Text("42") @@ "baz" :> R(1, <<"bar", "foo">>))>>,
           <<"bar", O("foo" :> Text("43"))>>>>, <<"bar", "baz">>, Text("43")),
  Expect(<<<<"bar", O("a" :> R(1, <<"foo", "d">>) @@ "b" :> Text("1"))>>,
           <<"bar", O("b" :> Text("3"))>>,
           <<"foo", O("c" :> R(2, <<"bar", "b">>) @@ "d" :> Text("2"))>>,
           <<"foo", O("d" :> Text("4"))>>>>, <<"bar", "a">>, Text("4")),
  Expect(<<<<"a", Text("1")>>, <<"a", List(<<R(1, A), Text("2")>>)>>>>, <<>>, Cycle) }

\* a = ${?a.b}${?a.c}, and a = ${?x}${a} with x not in the environment either
Forgetful == {
  Expect(<<<<"a", Concatenation(<<Q(1, AB), Q(2, <<"a", "c">>)>>)>>>>, <<>>, Empty),
  [Expect(<<<<"a", Concatenation(<<Q(1, <<"x">>), R(2, A)>>)>>>>, <<>>, Cycle)
     EXCEPT !.options = WithEnv] }

\* The tests, and the small documents.
TestedAndSmall == Tested \cup AllDocuments

-----------------------------------------------------------------------------
\* Resolution ends as the test requires, in every order of the maps.
ResolvesAsTested ==
  Finished /\ "expect" \in DOMAIN query =>
    IF IsErr(query.expect) THEN ctl.op = "throw" /\ ctl.kind = query.expect.kind
    ELSE /\ ctl.op = "return"
         /\ Plain(At(ctl.v, query.path)) = Plain(query.expect)
=============================================================================
