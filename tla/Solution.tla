------------------------------- MODULE Solution -------------------------------
(***************************************************************************)
(* What resolving a document means, without saying how: the resolved       *)
(* document solves the equations the document states.  Every substitution  *)
(* stands for what its path has in the solution, except that a layer of a  *)
(* merge that looks itself up sees only the layers below it.               *)
(***************************************************************************)
EXTENDS HoconMerge, TLC

\* A resolved value without the flags that only steer later merges.
RECURSIVE Plain(_)
Plain(v) ==
  CASE v.t = "scalar" -> [t |-> "scalar", text |-> v.text]
    [] v.t = "list"   -> [t |-> "list", items |-> [i \in DOMAIN v.items |-> Plain(v.items[i])]]
    [] v.t = "obj"    -> [t |-> "obj", kv |-> [k \in DOMAIN v.kv |-> Plain(v.kv[k])]]
    [] OTHER          -> v

Walk(v, key) == IF v.t = "obj" /\ key \in DOMAIN v.kv THEN v.kv[key] ELSE NoValue
At(root, path) == FoldLeft(Walk, root, path)

\* root with the value at path replaced, or removed by NoValue.
RECURSIVE With(_, _, _)
With(root, path, v) ==
  IF path = <<>> THEN v
  ELSE IF root.t # "obj" THEN root
  ELSE LET kept  == [k \in DOMAIN root.kv \cup {path[1]} |->
                       IF k = path[1] THEN With(Walk(root, k), Tail(path), v) ELSE root.kv[k]]
           there == {k \in DOMAIN kept : HasValue(kept[k])}
       IN  Obj([k \in there |-> kept[k]], root.ign)

(***************************************************************************)
(* Evaluate(v, path, seen): the value of the node v found at path, when    *)
(* substitutions see the root seen.root, and seen.env for what it lacks.   *)
(***************************************************************************)
Lookup(seen, path) ==
  IF HasValue(At(seen.root, path)) THEN At(seen.root, path) ELSE At(seen.env, path)

RECURSIVE Evaluate(_, _, _)
EvaluateAll(s, path, seen) ==
  SelectSeq([i \in DOMAIN s |-> Evaluate(s[i], path, seen)], HasValue)

EvaluateLayers(s, path, seen) ==
  LET sees(v, below) == IF Unmergeable(v) THEN [seen EXCEPT !.root = With(@, path, below)]
                        ELSE seen
      over(v, below) == Merged(SelectSeq(<<Evaluate(v, path, sees(v, below)), below>>, HasValue))
  IN  FoldRight(over, s, NoValue)

Evaluate(v, path, seen) ==
  CASE v.t = "ref"    -> LET found == Lookup(seen, v.path)
                         IN  IF HasValue(found) \/ v.optional THEN found ELSE v
    [] v.t = "list"   -> List(EvaluateAll(v.items, path, seen))
    [] v.t = "concat" -> concatenate(EvaluateAll(v.pieces, path, seen))
    [] IsDelayed(v)   -> EvaluateLayers(v.stack, path, seen)
    [] v.t = "obj"    ->
         LET kv    == [k \in DOMAIN v.kv |-> Evaluate(v.kv[k], Append(path, k), seen)]
             there == {k \in DOMAIN kv : HasValue(kv[k])}
         IN  Obj([k \in there |-> kv[k]], v.ign)
    [] OTHER          -> v

-----------------------------------------------------------------------------
(***************************************************************************)
(* The substitutions of a document: at is the place each is resolved at    *)
(* (that of its concatenation or list, which are resolved whole), within   *)
(* says whether a merge contains it, and a substitution that is a layer of *)
(* a merge has below it what it looks back to.                             *)
(***************************************************************************)
Context0 == [at |-> <<>>, within |-> FALSE, layer |-> FALSE, below |-> NoValue]

RECURSIVE Places(_, _)
Places(v, c) ==
  CASE v.t = "ref" -> {[ref |-> v] @@ c}
    [] v.t \in {"list", "concat"} -> UNION {Places(m, c) : m \in ToSet(Members(v))}
    [] IsDelayed(v) ->
         UNION {Places(v.stack[i],
                       [at |-> c.at, within |-> TRUE, layer |-> Unmergeable(v.stack[i]),
                        below |-> Merged(SubSeq(v.stack, i + 1, Len(v.stack)))]) :
                  i \in DOMAIN v.stack}
    [] v.t = "obj" ->
         UNION {Places(v.kv[k], [at |-> Append(c.at, k), within |-> c.within,
                                 layer |-> FALSE, below |-> NoValue]) : k \in DOMAIN v.kv}
    [] OTHER -> {}

LooksBack(p) == p.layer /\ IsPrefix(p.at, p.ref.path)

\* Resolving p's substitution resolves q's, in the same document.
Needs(p, q) ==
  /\ ~LooksBack(p)
  /\ IsPrefix(p.ref.path, q.at) \/ IsPrefix(q.at, p.ref.path)

RECURSIVE Reach(_, _)
Reach(places, from) ==
  LET next == from \cup {q \in places : \E p \in from : Needs(p, q)}
  IN  IF next = from THEN from ELSE Reach(places, next)

\* A place inside a layer of another merge counts as cyclic: it has no path
\* from the root that With could rebuild.
RECURSIVE Cyclic(_)
Cyclic(document) ==
  LET places == Places(document, Context0)
      before(p) == With(document, p.at, p.below)
  IN  \E p \in places :
        \/ p \in Reach(places, {q \in places : Needs(p, q)})
        \/ LooksBack(p) /\ (before(p) = document \/ Cyclic(before(p)))
=============================================================================
