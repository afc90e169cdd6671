--------------------------- MODULE MCConfigParser ---------------------------
(***************************************************************************)
(* Small documents for the config parser.                                  *)
(***************************************************************************)
EXTENDS ConfigParser, ParsedMerge

Shape(path, kind) == [path |-> path, kind |-> kind, append |-> FALSE, inner |-> FALSE]
Plus(shape)       == [shape EXCEPT !.append = TRUE]
Inner(shape)      == [shape EXCEPT !.inner = TRUE]

A  == <<"a">>
AB == <<"a", "b">>

FieldShapes ==
  {Shape(A, k) : k \in {"simple", "object", "array", "concatenation"}}
  \cup {Inner(Shape(A, "simple")), Shape(AB, "object")}
  \cup {Plus(Shape(A, "simple")), Plus(Shape(AB, "object"))}

\* What CommentsBelong takes of Concatenate: it makes no comments up.
Pieces == {Simple, List(<<>>), List(<<Simple>>), Object([k \in {} |-> NoValue])}
            \cup {Object([k \in {"a"} |-> v]) : v \in {Simple, List(<<>>), Value("reference", A, <<>>)}}
ASSUME NoCommentsMadeUp ==
  \A n \in 1 .. 3 : \A s \in [1 .. n -> Pieces] :
    Concatenate(s).comments = <<>> /\ HasValue(Concatenate(s))

PlusShapes == {Shape(A, "object"), Plus(Shape(A, "simple"))}

\* An included file: with a substitution, without one, or an exception.
Files == {[v |-> Object([k \in {"a"} |-> Value("reference", <<"b">>, <<>>)]), resolved |-> FALSE],
          [v |-> Object([k \in {"a"} |-> Simple]), resolved |-> TRUE],
          [v |-> Error, resolved |-> TRUE]}
NoFiles == {}
=============================================================================
