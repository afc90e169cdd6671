------------------------------ MODULE MCConfigs ------------------------------
(***************************************************************************)
(* Small configs for Configs: two keys at each of two levels.              *)
(***************************************************************************)
EXTENDS Configs

Keys  == {"a", "b"}
Rows  == {<<a>> : a \in Keys} \cup {<<a, b>> : a, b \in Keys} \cup {<<"a", "b", "a">>}

Ints  == {-9, -4, -1, 0, 1, 5, 8, 30}
Words == {"", "ns", "milli", "second", "m", "hours", "weeks"}
Texts == {String(Text(<<n>>, w)) : n \in {-5, 0, 7}, w \in Words} \cup {String(Text(<<>>, w)) : w \in {"yes", "second"}}
Lists == {List(<<>>), List(<<Number(1), Number(30)>>), List(<<Number(1), Number(2)>>),
          List(<<Number(1), Reference>>), List(<<Number(1), Boolean(TRUE)>>)}
Leaves == {Number(n) : n \in Ints} \cup Texts \cup Lists \cup {Boolean(TRUE), Null, Reference}

Shapes(vs) == {NewObject(f) : f \in UNION {[K -> vs] : K \in SUBSET Keys}}
\* Every leaf on its own, and every object of a few kinds of value in two levels.
Few  == {Number(1), Null, Reference}
Made == {NewObject([a |-> v]) : v \in Leaves} \cup Shapes(Few \cup Shapes(Few))
Set  == {Number(5), NewObject([b |-> Null])}
=============================================================================
