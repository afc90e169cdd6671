------------------------------ MODULE MCResolver ------------------------------
(***************************************************************************)
(* Small documents for the resolver.  A document is a sequence of fields   *)
(* <<key, value>>; a repeated key becomes new.with_fallback(existing), as  *)
(* config_parser::parse_object does it.                                    *)
(***************************************************************************)
EXTENDS Resolver, Solution

Put(root, field) ==
  LET key == field[1]
      v   == IF key \in DOMAIN root.kv THEN with_fallback(field[2], root.kv[key]) ELSE field[2]
  IN  Obj((key :> v) @@ root.kv, root.ign)

Document(fields) == FoldLeft(Put, Empty, fields)

Text(s) == Scalar(<<s>>, TRUE)

\* The kinds of values below.
Basic         == {"text", "ref", "optional", "object", "inobject", "intext"}
Few           == {"text", "ref", "optional", "inobject"}
Substitutions == {"text", "ref", "optional"}
Lists         == {"inlist"}
Pairs         == {"pair"}

\* Field number n holds the substitutions 2n and 2n + 1, with these paths.
ValuesOf(n, kind, paths) ==
  CASE kind = "text"     -> {Text("1")}
    [] kind = "object"   -> {Obj("b" :> Text("2"), FALSE)}
    [] kind = "list"     -> {List(<<Text("2")>>)}
    [] kind = "ref"      -> {Ref(2 * n, p, FALSE) : p \in paths}
    [] kind = "optional" -> {Ref(2 * n, p, TRUE) : p \in paths}
    [] kind = "inobject" -> {Obj("b" :> Ref(2 * n, p, FALSE), FALSE) : p \in paths}
    [] kind = "inlist"   -> {List(<<Ref(2 * n, p, FALSE)>>) : p \in paths}
    [] kind = "intext"   -> {Concatenation(<<Ref(2 * n, p, FALSE), Text("3")>>) : p \in paths}
    [] kind = "pair"     -> {Concatenation(<<Ref(2 * n, p, TRUE), Ref(2 * n + 1, q, TRUE)>>) :
                               p \in paths, q \in paths}

Field(kinds, n, key, paths) ==
  {<<key, v>> : v \in UNION {ValuesOf(n, kind, paths) : kind \in kinds}}

Plainly    == [useEnv |-> FALSE, allowUnresolved |-> FALSE]
Unresolved == [useEnv |-> FALSE, allowUnresolved |-> TRUE]
WithEnv    == [useEnv |-> TRUE, allowUnresolved |-> FALSE]

Whole(d, options) == [value |-> d, root |-> d, options |-> options]
Against(d, other) == [value |-> d, root |-> other, options |-> Plainly]

Here  == {<<"a">>, <<"b">>, <<"a", "b">>}
There == {<<"x">>, <<"x", "b">>}

\* a given twice (the second a layer over the first), then b.
LayeredA(below, kinds, others) ==
  {Whole(Document(<<f, g, h>>), Plainly) :
     f \in Field(below, 1, "a", Here), g \in Field(kinds, 2, "a", Here),
     h \in Field(others, 3, "b", Here)}

\* Three layers of a.
ThreeLayers(below, kinds) ==
  {Whole(Document(<<f, g, h>>), Plainly) :
     f \in Field(below, 1, "a", Here), g \in Field(kinds, 2, "a", Here),
     h \in Field(kinds, 3, "a", Here)}

\* config::resolve_with: a value resolved against another, resolved document.
Elsewhere(kinds) ==
  {Against(Document(<<f, g>>), Document(<<<<"x", v>>>>)) :
     f \in Field(kinds, 1, "a", There), g \in Field(kinds, 2, "b", There \cup {<<"a">>}),
     v \in {Text("5"), Obj("b" :> Text("6"), FALSE)}}

\* x is not in the document.
WithMissing(kinds, options) ==
  {Whole(Document(<<f, g, h>>), options) :
     f \in Field(Few, 1, "a", There \cup {<<"b">>}), g \in Field(kinds, 2, "a", There),
     h \in Field(Substitutions, 3, "b", There)}

AllDocuments ==
  LayeredA(Few \cup {"object"}, Basic \cup Lists, {"text", "ref", "inobject"})
  \cup LayeredA(Lists, {"inobject"}, {"text"})
  \cup ThreeLayers({"text", "object", "ref"}, Basic)
  \cup Elsewhere(Basic \cup Lists \cup Pairs)
  \cup WithMissing(Few \cup Pairs, WithEnv) \cup WithMissing(Few \cup Lists, Unresolved)

NoEnv  == Empty
XinEnv == Obj("x" :> Text("7"), FALSE)

-----------------------------------------------------------------------------
(* Properties of a whole resolution *)

\* The result solves the document's equations (see Solution), whatever the
\* order in which the unordered maps list the children, through partial
\* resolution, memos, look-back in merges and contexts handed around.
ReturnsASolution ==
  Finished /\ ctl.op = "return" /\ ~Cyclic(query.root) =>
    LET seen == [root |-> IF query.value = query.root THEN ctl.v ELSE query.root,
                 env  |-> IF UseEnv THEN Env ELSE NoEnv]
    IN  Plain(Evaluate(query.value, <<>>, seen)) = Plain(ctl.v)

\* A document without a cycle fails only for what the user wrote: a missing
\* substitution, or values that cannot be concatenated; never with a cycle,
\* a bug_or_broken_exception or an access through a null root.
FailsOnlyForTheDocument ==
  Finished /\ ctl.op = "throw" /\ ~Cyclic(query.root) =>
    ctl.kind \in {"unresolved_substitution", "type"}

\* A cycle that nothing can break (no optional substitution, no merge to look
\* back in) is reported, from wherever the resolution enters it.
CyclesAreReported ==
  /\ Finished
  /\ Cyclic(query.root)
  /\ \A p \in Places(query.root, Context0) : ~p.within /\ ~p.ref.optional
  => ctl.op = "throw"
=============================================================================
