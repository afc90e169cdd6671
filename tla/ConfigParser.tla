----------------------------- MODULE ConfigParser -----------------------------
(***************************************************************************)
(* config_parser: from the node tree of a document to values.  The machine *)
(* has a frame for every parse_object, parse_array, parse_concatenation    *)
(* and parse in progress.  The document is not given: its nodes are chosen *)
(* one by one, as the document parser could have produced them, so a       *)
(* behaviour is one document and what is proved holds for all of them.     *)
(***************************************************************************)
EXTENDS ParsedValues, Stacks, FiniteSets

CONSTANTS
  Shapes,             \* fields: [path, append (+=), kind (of value), inner (comment inside)]
  Includes,           \* what an include gives: [v, resolved], v = Error for an exception
  MaxNodes,           \* bound: the nodes of a document, those needed to end it aside
  WithFallback(_, _), \* config_value::with_fallback
  Concatenate(_)      \* config_concatenation::concatenate, Error when it throws

ASSUME MaxNodesAssumption == MaxNodes \in Nat
ASSUME ShapesAssumption   ==
  \A f \in Shapes : /\ IsSequence(f.path) /\ f.path # <<>>
                    /\ f.append \in BOOLEAN /\ f.inner \in BOOLEAN

VARIABLES
  flavor,       \* the syntax
  stack,        \* the functions in progress, the innermost last
  ctl,          \* what goes on between them
  path_stack,   \* the paths of the fields in progress
  array_count,  \* the lists and += in progress
  count         \* the nodes of the document so far

vars == <<flavor, stack, ctl, path_stack, array_count, count>>

-----------------------------------------------------------------------------
(***************************************************************************)
(* A frame holds the locals of parse, parse_object, parse_array or         *)
(* parse_concatenation, and start, the array_count parse_value saw before  *)
(* it called them.  field is the field parse_object is at: its value is    *)
(* being parsed, or its line is searched for a trailing comment.  seen,    *)
(* item and given are history: the children so far, the last field or      *)
(* element, and the comments that fields and elements got.                 *)
(***************************************************************************)
NoField == [stage |-> "none", path |-> <<>>, append |-> FALSE, v |-> NoValue]

Frame(fn, values, start) ==
  [fn |-> fn, values |-> values, comments |-> <<>>, newline |-> FALSE, start |-> start,
   field |-> NoField, v |-> NoValue, seen |-> <<>>, item |-> 0, given |-> {}]

NextChild   == [op |-> "next"]
Node(n)     == [op |-> "node", n |-> n]
Parse(kind) == [op |-> "parse", kind |-> kind]
Parsed(v)   == [op |-> "value", v |-> v]
Throw(kind) == [op |-> "throw", kind |-> kind]
Done(v)     == [op |-> "done", v |-> v]

Top       == stack[Len(stack)]
SetTop(f) == stack' = Retopped(stack, f)

Child(fn, t) == ctl.op = "node" /\ Top.fn = fn /\ ctl.n.t = t
\* Mutant: the value goes to whatever node is open.
AwaitsAny(fn) == ctl.op = "value"
Awaits(fn)    == ctl.op = "value" /\ Top.fn = fn
Between      == Top.field.stage = "none"
Trailing     == Top.field.stage = "trailing"

Init ==
  /\ flavor \in {"JSON", "CONF"}
  /\ stack = <<Frame("document", <<>>, 0)>>
  /\ ctl = NextChild
  /\ path_stack = <<>>
  /\ array_count = 0
  /\ count = 0

-----------------------------------------------------------------------------
(***************************************************************************)
(* The document: the next child of the innermost node.  A comment ends     *)
(* with its line; fields, includes and elements are separated by a newline *)
(* or a comma; JSON has no comments, concatenations, includes, += or paths *)
(* of several keys.                                                        *)
(***************************************************************************)
Items == {"field", "include", "value"}

NodesAfter(i)  == {Top.seen[j].t : j \in i + 1 .. Len(Top.seen)}
After(types)   == \E i \in DOMAIN Top.seen : Top.seen[i].t \in types /\ NodesAfter(i) \cap Items = {}
AfterItem      == \E i \in DOMAIN Top.seen : Top.seen[i].t \in Items /\ "comma" \notin NodesAfter(i)
NoItem         == NodesAfter(0) \cap Items = {}
Separated      == NoItem \/ After(IF flavor = "JSON" THEN {"comma"} ELSE {"newline", "comma"})
InComment      == Top.seen # <<>> /\ Last(Top.seen).t = "comment"

\* No end yet: a value is missing, or the bracket would be in the comment.
ValueIsMissing == \/ Top.fn = "concatenation" /\ Len(Top.values) < 2
                  \/ Top.fn = "document" /\ ~HasValue(Top.v)
InBrackets     == Top.fn = "array" \/ (Top.fn = "object" /\ Len(stack) > 2)
IsUnfinished   == ValueIsMissing \/ (InComment /\ InBrackets)

Kinds == IF flavor = "JSON" THEN {"simple", "object", "array"}
         ELSE {"simple", "object", "array", "concatenation"}

Punctuation ==
  {[t |-> t, id |-> count + 1] :
     t \in (IF Top.fn = "concatenation" THEN {} ELSE {"newline"})
       \cup (IF Top.fn = "concatenation" \/ flavor = "JSON" \/ InComment THEN {} ELSE {"comment"})
       \cup (IF Top.fn \in {"object", "array"} /\ AfterItem /\ ~InComment THEN {"comma"} ELSE {})}

\* What is JSON too.
PathsSeen == {Top.seen[i].shape.path : i \in {j \in DOMAIN Top.seen : Top.seen[j].t = "field"}}
IsJson(f) == Len(f.path) = 1 /\ ~f.append /\ ~f.inner /\ f.kind # "concatenation"

Fields ==
  IF Top.fn # "object" \/ ~Separated \/ InComment THEN {}
  ELSE {[t |-> "field", id |-> count + 1, shape |-> f] :
          f \in {g \in Shapes : flavor = "JSON" => IsJson(g) /\ g.path \notin PathsSeen}}

IncludeNodes ==
  IF Top.fn # "object" \/ ~Separated \/ InComment \/ flavor = "JSON" THEN {}
  ELSE {[t |-> "include", id |-> count + 1]}

ValueNodes ==
  {[t |-> "value", id |-> count + 1, kind |-> k] :
     k \in IF InComment THEN {}
           ELSE CASE Top.fn = "document"      -> IF HasValue(Top.v) THEN {} ELSE {"object", "array"}
                  [] Top.fn = "array"         -> IF Separated THEN Kinds ELSE {}
                  [] Top.fn = "concatenation" -> {"simple", "object", "array"}
                  [] Top.fn = "object"        -> {}}

Needed(n) == IsUnfinished /\ n.t = IF InComment THEN "newline" ELSE "value"

NextNode ==
  /\ ctl.op = "next"
  /\ \/ /\ \E n \in Punctuation \cup Fields \cup IncludeNodes \cup ValueNodes :
             /\ count < MaxNodes \/ Needed(n)
             /\ ctl' = Node(n)
             /\ SetTop([Top EXCEPT !.seen = Append(@, n)])
        /\ count' = count + 1
     \/ /\ ~IsUnfinished
        /\ flavor = "JSON" /\ Top.fn \in {"object", "array"} => NoItem \/ AfterItem
        /\ ctl' = Node([t |-> "end", id |-> 0])
        /\ UNCHANGED <<stack, count>>
  /\ UNCHANGED <<flavor, path_stack, array_count>>

-----------------------------------------------------------------------------
(* parse_value                                                             *)

ParseSimple ==
  /\ ctl = Parse("simple")
  /\ ctl' = Parsed(Simple)
  /\ UNCHANGED <<flavor, stack, path_stack, array_count, count>>

ParseObject ==
  /\ ctl = Parse("object")
  /\ stack' = Append(stack, Frame("object", [k \in {} |-> NoValue], array_count))
  /\ ctl' = NextChild
  /\ UNCHANGED <<flavor, path_stack, array_count, count>>

\* Mutant: the list is not counted.
ListUncounted == array_count
ListOpened    == array_count + 1

ParseArray ==
  /\ ctl = Parse("array")
  /\ stack' = Append(stack, Frame("array", <<>>, array_count))
  /\ array_count' = ListOpened
  /\ ctl' = NextChild
  /\ UNCHANGED <<flavor, path_stack, count>>

ParseConcatenation ==
  /\ ctl = Parse("concatenation")
  /\ stack' = Append(stack, Frame("concatenation", <<>>, array_count))
  /\ ctl' = NextChild
  /\ UNCHANGED <<flavor, path_stack, array_count, count>>

\* The tail of parse_value: array_count must be what it was.
ParseReturns(v, lists) ==
  /\ ctl' = IF lists # Top.start THEN Throw("bug")
            ELSE IF IsError(v) THEN Throw("type")
            ELSE Parsed(v)
  /\ stack' = Popped(stack)

-----------------------------------------------------------------------------
(* Comments and newlines between the children of an object, a list or the  *)
(* document.                                                               *)

Comment ==
  /\ ctl.op = "node" /\ ctl.n.t = "comment" /\ Between
  /\ SetTop([Top EXCEPT !.comments = Append(@, ctl.n.id), !.newline = FALSE])
  /\ ctl' = NextChild
  /\ UNCHANGED <<flavor, path_stack, array_count, count>>

Comma ==
  /\ ctl.op = "node" /\ ctl.n.t = "comma" /\ Between
  /\ ctl' = NextChild
  /\ UNCHANGED <<flavor, stack, path_stack, array_count, count>>

\* A blank line drops the comments.  Mutant: every newline does.
NoComments(f)           == <<>>
CommentsAfterNewline(f) == IF f.newline THEN <<>> ELSE f.comments

Newline ==
  /\ ctl.op = "node" /\ ctl.n.t = "newline" /\ Between /\ ~HasValue(Top.v)
  /\ SetTop([Top EXCEPT !.comments = CommentsAfterNewline(Top), !.newline = TRUE])
  /\ ctl' = NextChild
  /\ UNCHANGED <<flavor, path_stack, array_count, count>>

-----------------------------------------------------------------------------
(* parse_object                                                            *)

\* Mutant: += is taken anywhere.
NeverRefused(f)  == FALSE
AppendRefused(f) == f.append /\ array_count > 0

Field ==
  /\ Child("object", "field") /\ Between
  /\ LET f == ctl.n.shape
     IN  /\ path_stack' = Append(path_stack, f.path)
         /\ SetTop([Top EXCEPT !.newline = FALSE, !.item = ctl.n.id,
                               !.comments = IF f.inner THEN Append(@, ctl.n.id) ELSE @,
                               !.field = [stage |-> "value", path |-> f.path,
                                          append |-> f.append, v |-> NoValue]])
         /\ IF AppendRefused(f)
            THEN ctl' = Throw("parse") /\ UNCHANGED array_count
            ELSE /\ ctl' = Parse(f.kind)
                 /\ array_count' = IF f.append THEN array_count + 1 ELSE array_count
  /\ UNCHANGED <<flavor, count>>

\* Mutant: += stays counted.
AppendStays  == array_count
AppendClosed == IF Top.field.append THEN array_count - 1 ELSE array_count

\* += refers to full_current_path(), the front of the path stack.
FieldValue ==
  /\ Awaits("object")
  /\ LET v == PrependComments(ctl.v, Top.comments)
     IN  SetTop([Top EXCEPT !.comments = <<>>,
                            !.field.stage = "trailing",
                            !.field.v = IF Top.field.append THEN Appended(path_stack[1], v)
                                        ELSE v])
  /\ array_count' = AppendClosed
  /\ ctl' = NextChild
  /\ UNCHANGED <<flavor, path_stack, count>>

\* new.with_fallback(existing) for every key of both.
MergedOver(new, values) ==
  [k \in DOMAIN values \cup DOMAIN new |->
     IF k \notin DOMAIN new THEN values[k]
     ELSE IF k \notin DOMAIN values THEN new[k]
     ELSE WithFallback(new[k], values[k])]

Refused(values) == \E k \in DOMAIN values : IsError(values[k])

\* Mutant: the path stays on the stack.
PathKept == path_stack
PathLeft == Popped(path_stack)

\* Merge the field over what its key has; JSON allows no duplicates.
FieldDone(v, next) ==
  LET key    == Top.field.path[1]
      new    == IF Len(Top.field.path) = 1 THEN v ELSE ValueUnderPath(Tail(Top.field.path), v)
      values == MergedOver([k \in {key} |-> new], Top.values)
  IN  /\ path_stack' = PathLeft
      /\ SetTop([Top EXCEPT !.values = values, !.field = NoField,
                            !.given = @ \cup {[id |-> Top.item, comments |-> v.comments]}])
      /\ ctl' = IF flavor = "JSON" /\ key \in DOMAIN Top.values THEN Throw("parse")
                ELSE IF Refused(values) THEN Throw("merge") ELSE next
      /\ UNCHANGED <<flavor, array_count, count>>

\* A comment on the same line, perhaps after a comma, goes with the field.
TrailingComment ==
  /\ Child("object", "comment") /\ Trailing
  /\ FieldDone(AppendComments(Top.field.v, <<ctl.n.id>>), NextChild)

TrailingComma ==
  /\ Child("object", "comma") /\ Trailing
  /\ ctl' = NextChild
  /\ UNCHANGED <<flavor, stack, path_stack, array_count, count>>

\* Any other node ends the search and is looked at again.
TrailingOver ==
  /\ ctl.op = "node" /\ ctl.n.t \notin {"comment", "comma"} /\ Trailing
  /\ FieldDone(Top.field.v, ctl)

\* Nothing to relativize: objects do not override relativized.
Include ==
  /\ Child("object", "include") /\ Between
  /\ \E r \in Includes :
       LET values == MergedOver(r.v.parts, Top.values)
       IN  IF IsError(r.v) \/ (array_count > 0 /\ ~r.resolved)
           THEN ctl' = Throw("config") /\ UNCHANGED stack
           ELSE /\ SetTop([Top EXCEPT !.values = values, !.newline = FALSE])
                /\ ctl' = IF Refused(values) THEN Throw("merge") ELSE NextChild
  /\ UNCHANGED <<flavor, path_stack, array_count, count>>

EndObject ==
  /\ Child("object", "end") /\ Between
  /\ ParseReturns(Object(Top.values), array_count)
  /\ UNCHANGED <<flavor, path_stack, array_count, count>>

-----------------------------------------------------------------------------
(* parse_array: v is the element that may still get comments of its line.  *)

WithElement(f) ==
  LET v == AppendComments(f.v, f.comments)
  IN  [f EXCEPT !.values = Append(@, v), !.v = NoValue, !.comments = <<>>,
                !.given = @ \cup {[id |-> f.item, comments |-> v.comments]}]

ElementLineEnds ==
  /\ Child("array", "newline") /\ HasValue(Top.v)
  /\ SetTop([WithElement(Top) EXCEPT !.newline = TRUE])
  /\ ctl' = NextChild
  /\ UNCHANGED <<flavor, path_stack, array_count, count>>

Element ==
  /\ Child("array", "value")
  /\ SetTop([(IF HasValue(Top.v) THEN WithElement(Top) ELSE Top)
               EXCEPT !.newline = FALSE, !.item = ctl.n.id])
  /\ ctl' = Parse(ctl.n.kind)
  /\ UNCHANGED <<flavor, path_stack, array_count, count>>

ElementValue ==
  /\ Awaits("array")
  /\ SetTop([Top EXCEPT !.v = PrependComments(ctl.v, Top.comments), !.comments = <<>>])
  /\ ctl' = NextChild
  /\ UNCHANGED <<flavor, path_stack, array_count, count>>

EndArray ==
  /\ Child("array", "end")
  /\ LET f == IF HasValue(Top.v) THEN WithElement(Top) ELSE Top
     IN  ParseReturns(List(f.values), array_count - 1)
  /\ array_count' = array_count - 1
  /\ UNCHANGED <<flavor, path_stack, count>>

-----------------------------------------------------------------------------
(* parse_concatenation                                                     *)

Piece ==
  /\ Child("concatenation", "value")
  /\ ctl' = Parse(ctl.n.kind)
  /\ UNCHANGED <<flavor, stack, path_stack, array_count, count>>

PieceValue ==
  /\ Awaits("concatenation")
  /\ SetTop([Top EXCEPT !.values = Append(@, ctl.v)])
  /\ ctl' = NextChild
  /\ UNCHANGED <<flavor, path_stack, array_count, count>>

EndConcatenation ==
  /\ Child("concatenation", "end")
  /\ ParseReturns(Concatenate(Top.values), array_count)
  /\ UNCHANGED <<flavor, path_stack, array_count, count>>

-----------------------------------------------------------------------------
(* parse: the value at the root; what follows its line is not looked at.   *)

Root ==
  /\ Child("document", "value")
  /\ ctl' = Parse(ctl.n.kind)
  /\ UNCHANGED <<flavor, stack, path_stack, array_count, count>>

RootValue ==
  /\ Awaits("document")
  /\ SetTop([Top EXCEPT !.v = PrependComments(ctl.v, Top.comments), !.comments = <<>>,
                        !.newline = FALSE])
  /\ ctl' = NextChild
  /\ UNCHANGED <<flavor, path_stack, array_count, count>>

RootLineEnds ==
  /\ Child("document", "newline") /\ HasValue(Top.v)
  /\ ctl' = Done(AppendComments(Top.v, Top.comments))
  /\ UNCHANGED <<flavor, stack, path_stack, array_count, count>>

EndDocument ==
  /\ Child("document", "end")
  /\ ctl' = Done(Top.v)
  /\ UNCHANGED <<flavor, stack, path_stack, array_count, count>>

-----------------------------------------------------------------------------
Next ==
  \/ NextNode
  \/ ParseSimple \/ ParseObject \/ ParseArray \/ ParseConcatenation
  \/ Comment \/ Comma \/ Newline
  \/ Field \/ FieldValue \/ TrailingComment \/ TrailingComma \/ TrailingOver
  \/ Include \/ EndObject
  \/ ElementLineEnds \/ Element \/ ElementValue \/ EndArray
  \/ Piece \/ PieceValue \/ EndConcatenation
  \/ Root \/ RootValue \/ RootLineEnds \/ EndDocument

Spec == Init /\ [][Next]_vars

-----------------------------------------------------------------------------
(* Properties *)

Functions == {"document", "object", "array", "concatenation"}

IsFrame(f) ==
  /\ DOMAIN f = {"fn", "values", "comments", "newline", "start", "field", "v", "seen", "item", "given"}
  /\ f.fn \in Functions
  /\ f.start \in Int
  /\ DOMAIN f.field = {"stage", "path", "append", "v"}
  /\ f.field.stage \in {"none", "value", "trailing"}
  /\ f.field.stage # "none" => f.fn = "object"

\* Type correctness: every frame runs a function, and only objects are at a
\* field, whoever a value is returned to.
TypeOK ==
  /\ ctl.op \in {"next", "node", "parse", "value", "throw", "done"}
  /\ array_count \in Int
  /\ IsSequence(path_stack)
  /\ IsSequence(stack) /\ stack # <<>>
  /\ \A i \in DOMAIN stack : IsFrame(stack[i])

\* A list, or a += whose value is not complete.
Counts(f)  == f.fn = "array" \/ (f.field.stage = "value" /\ f.field.append)
AtField(f) == f.field.stage # "none"

\* array_count is the number of lists and += in progress, at every node, so
\* that a += or an unresolved include inside of one is noticed and no other
\* is refused.  (A += that throws has not been counted.)
ArrayCountIsNesting ==
  ctl.op # "throw" => array_count = Cardinality({i \in DOMAIN stack : Counts(stack[i])})

\* path_stack holds the paths of the fields in progress, outermost first.
PathStackIsNesting ==
  LET fields(n) == {i \in 1 .. n : AtField(stack[i])}
  IN  ctl.op # "throw" =>
        /\ Len(path_stack) = Cardinality(fields(Len(stack)))
        /\ \A i \in fields(Len(stack)) : path_stack[Cardinality(fields(i))] = stack[i].field.path

\* The exception "unbalanced array count" is never thrown.
Balanced == ctl.op = "throw" => ctl.kind # "bug"

\* A += makes a substitution, and no path names the elements of a list: no +=
\* is parsed inside a list or inside another +=.
AppendsAreOutsideLists ==
  ctl.op # "throw" =>
    \A i, j \in DOMAIN stack :
      i < j /\ Counts(stack[i]) => ~(stack[j].field.stage = "value" /\ stack[j].field.append)

(***************************************************************************)
(* Which comments belong to a field or element, by the text alone: those   *)
(* above it since the last one and the last blank line, those inside it,   *)
(* and the one that follows it on its line, perhaps after a comma.  (A     *)
(* line with nothing but a comma is a blank line.)                         *)
(***************************************************************************)
OnlyCommas(seen, i, j) == \A k \in i + 1 .. j - 1 : seen[k].t = "comma"
BlankLine(seen, k) ==
  seen[k].t = "newline" /\ \E i \in 1 .. k - 1 : seen[i].t = "newline" /\ OnlyCommas(seen, i, k)

Owns(seen, p, c) ==
  /\ seen[c].t = "comment"
  /\ \/ p < c /\ OnlyCommas(seen, p, c)
     \/ /\ c < p
        /\ \A k \in c + 1 .. p - 1 : seen[k].t \notin {"field", "value"} /\ ~BlankLine(seen, k)
        /\ ~\E k \in 1 .. c - 1 : seen[k].t \in {"field", "value"} /\ OnlyCommas(seen, k, c)

Owned(seen, p) ==
  {c \in DOMAIN seen : Owns(seen, p, c) \/ (c = p /\ seen[c].t = "field" /\ seen[c].shape.inner)}

\* The comments of some nodes, in the order of the text, in which ids grow.
Lists(comments, seen, nodes) ==
  /\ comments \in Seq(Nat)
  /\ Range(comments) = {seen[c].id : c \in nodes}
  /\ \A i, j \in DOMAIN comments : i < j => comments[i] < comments[j]

\* Every field and element gets the comments that belong to it, in order,
\* whatever follows and whatever was nested in it.
CommentsGoWith ==
  \A i \in DOMAIN stack : \A g \in stack[i].given :
    \A p \in DOMAIN stack[i].seen :
      stack[i].seen[p].id = g.id =>
        Lists(g.comments, stack[i].seen, Owned(stack[i].seen, p))

\* += refers to the field it appends to: its path from the root.
AppendRefersToItself ==
  Top.field.stage = "trailing" /\ Top.field.append =>
    Top.field.v.parts[1].parts = FlattenSeq(path_stack)
=============================================================================
