------------------------------ MODULE HoconMerge ------------------------------
(***************************************************************************)
(* The merge algebra: config_mergeable::with_fallback and the joining of   *)
(* adjacent values (config_concatenation).  These operators recurse over   *)
(* the value tree and are evaluated by TLC only.                           *)
(***************************************************************************)
EXTENDS HoconNodes

RECURSIVE ignores_fallbacks(_)
ignores_fallbacks(v) ==
  IF IsDelayed(v) THEN ignores_fallbacks(Last(v.stack)) ELSE IgnoresFallbacksHere(v)

(***************************************************************************)
(* config_value::with_fallback dispatches on the class of the fallback;    *)
(* simple_config_object::merged_with_object merges key by key.  A delayed  *)
(* merge has no override of its own: it goes into the new stack as a whole.*)
(***************************************************************************)
MergedWithNonObject(v, fallback) ==
  IF ~Resolved(v) THEN ConstructDelayedMerge(v, <<v, fallback>>)
  ELSE IF v.t = "obj" THEN Obj(v.kv, TRUE)
  ELSE Err("bug")

RECURSIVE with_fallback(_, _)
with_fallback(v, fallback) ==
  LET keys   == DOMAIN v.kv \cup DOMAIN fallback.kv
      kept   == [k \in keys |->
                   CASE k \notin DOMAIN v.kv        -> fallback.kv[k]
                     [] k \notin DOMAIN fallback.kv -> v.kv[k]
                     [] k \in DOMAIN v.kv \cap DOMAIN fallback.kv ->
                          with_fallback(v.kv[k], fallback.kv[k])]
      failed == {k \in keys : IsErr(kept[k])}
  IN  IF ignores_fallbacks(v) THEN v
      ELSE IF Unmergeable(fallback)
      THEN ConstructDelayedMerge(v, <<v>> \o UnmergedValues(fallback))
      ELSE IF fallback.t # "obj" \/ ~IsObject(v) THEN MergedWithNonObject(v, fallback)
      ELSE IF v.t = "mergeobj" THEN Err("bug")
      ELSE IF failed # {} THEN kept[CHOOSE k \in failed : TRUE]
      ELSE Obj(kept, fallback.ign)

\* with_fallback over a whole stack, the first layer winning.
Merged(stack) ==
  FoldLeft(LAMBDA a, b : IF IsErr(a) THEN a
                         ELSE IF ~HasValue(a) THEN b ELSE with_fallback(a, b),
           NoValue, stack)

-----------------------------------------------------------------------------
(***************************************************************************)
(* config_concatenation::join: what becomes of two neighbours, NoValue     *)
(* when they must stay apart.  default_transformer refuses to turn an      *)
(* object into a list; unquoted text next to an object or a list is        *)
(* dropped, whatever the text is.                                          *)
(***************************************************************************)
JoinedPair(left, right) ==
  LET kinds == {left.t, right.t}
  IN  IF IsObject(left) /\ IsObject(right) THEN with_fallback(right, left)
      ELSE IF kinds = {"list"} THEN List(left.items \o right.items)
      ELSE IF "list" \in kinds /\ (IsObject(left) \/ IsObject(right)) THEN Err("type")
      ELSE IF /\ IsObject(left) \/ left.t = "list"
              /\ right.t = "scalar" /\ ~right.quoted THEN left
      ELSE IF "concat" \in kinds THEN Err("bug")
      ELSE IF Unmergeable(left) \/ Unmergeable(right) THEN NoValue
      ELSE IF kinds = {"scalar"} /\ left.text # <<>> /\ right.text # <<>>
      THEN Scalar(left.text \o right.text, TRUE)
      ELSE Err("type")

\* config_concatenation::consolidate, on pieces that no longer nest.
consolidate(pieces) ==
  LET flat == FoldLeft(LAMBDA s, p : s \o (IF p.t = "concat" THEN p.pieces ELSE <<p>>),
                       <<>>, pieces)
      join(built, right) ==
        IF built = <<>> THEN <<right>>
        ELSE IF IsErr(Last(built)) THEN built
        ELSE LET joined == JoinedPair(Last(built), right)
             IN  IF HasValue(joined) THEN Append(Front(built), joined)
                                     ELSE Append(built, right)
  IN  IF Len(pieces) < 2 THEN pieces ELSE FoldLeft(join, <<>>, flat)

\* config_concatenation::concatenate, as the parser calls it.
concatenate(pieces) ==
  LET c == consolidate(pieces)
  IN  IF c = <<>> THEN NoValue
      ELSE IF IsErr(Last(c)) \/ Len(c) = 1 THEN Last(c)
      ELSE Concatenation(c)
=============================================================================
