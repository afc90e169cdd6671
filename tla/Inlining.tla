------------------------------- MODULE Inlining -------------------------------
(***************************************************************************)
(* What an include stands for: the text of the file, in its place.         *)
(***************************************************************************)
EXTENDS Includes

(***************************************************************************)
(* A text is a sequence of parts, objects of which the last one wins where *)
(* it can: an include stands for the parts of the file, and those of the   *)
(* files that it includes; include file(...) for the object that they are  *)
(* resolved to.  Of two files that share a name, the .conf comes after the *)
(* .json; one that fails counts as empty.                                  *)
(***************************************************************************)
Success(parts) == [fails |-> FALSE, parts |-> parts]
Failure        == [fails |-> TRUE, parts |-> <<>>]

\* What the parts come to: a layer may refer to the one before, and nothing is
\* seen below a scalar.
LayersOf(parts, key) ==
  FlattenSeq(Reverse([i \in DOMAIN parts |-> IF key \in DOMAIN parts[i] THEN parts[i][key] ELSE <<>>]))
UpToScalar(layers) ==
  LET scalars == {i \in DOMAIN layers : layers[i].t = "scalar"}
  IN  IF scalars = {} THEN layers
      ELSE SubSeq(layers, 1, CHOOSE i \in scalars : \A j \in scalars : i <= j)
Meaning(parts) ==
  [key \in UNION {DOMAIN parts[i] : i \in DOMAIN parts} |-> UpToScalar(LayersOf(parts, key))]

Resolved(text) ==
  LET r == Resolve(Meaning(text.parts))
  IN  IF text.fails \/ r.fails THEN Failure ELSE Success(<<r.v>>)

Joined(texts) ==
  IF \E i \in DOMAIN texts : texts[i].fails THEN Failure
  ELSE Success(FlattenSeq([i \in DOMAIN texts |-> texts[i].parts]))
OrEmpty(text) == IF text.fails THEN Success(<<>>) ELSE text

-----------------------------------------------------------------------------
\* The text of a file, where those of the files that exist are known.
InlinedFile(texts, file, syntax) ==
  LET asked == [file |-> file, syntax |-> syntax]
  IN  IF asked \in DOMAIN texts THEN texts[asked]
      ELSE IF syntax = "CONF" THEN Success(<<>>) ELSE Failure

\* A name is relative to the document that includes it, with an extension or
\* without, which stands for both files.
InlinedConf(texts, name, syntax) ==
  IF syntax = "JSON" THEN Success(<<>>) ELSE OrEmpty(InlinedFile(texts, [name EXCEPT !.ext = "conf"], "CONF"))
InlinedJson(texts, name, syntax) ==
  IF syntax = "CONF" THEN Success(<<>>) ELSE OrEmpty(InlinedFile(texts, [name EXCEPT !.ext = "json"], "JSON"))
InlinedName(texts, dir, name, syntax) ==
  IF name.ext # "" THEN InlinedFile(texts, RelativeTo(dir, name), Syntax(RelativeTo(dir, name), syntax))
  ELSE LET there == RelativeTo(dir, name)
       IN  Joined(<<InlinedJson(texts, there, syntax), InlinedConf(texts, there, syntax)>>)

InlinedStatement(texts, dir, s) ==
  IF s.t = "field" THEN Success(<<[k \in {s.key} |-> s.v]>>)
  ELSE LET text == InlinedName(texts, dir, s.name, "UNSPECIFIED")
       IN  IF s.how = "file" THEN Resolved(text) ELSE text
Inlined(texts, dir, body) == Joined([i \in DOMAIN body |-> InlinedStatement(texts, dir, body[i])])

\* The texts of all files, which each other's are put into.
Asked(fs) == [file : DOMAIN fs, syntax : {"CONF", "JSON"}]
Texts(fs) ==
  LET texts[a \in Asked(fs)] ==
        IF Parses(fs[a.file], a.syntax) THEN Inlined(texts, a.file.dir, fs[a.file].body) ELSE Failure
  IN  texts

\* No file includes itself, however many files are between.
Named(dir, name) ==
  IF name.ext # "" THEN {RelativeTo(dir, name)}
  ELSE {[RelativeTo(dir, name) EXCEPT !.ext = ext] : ext \in {"conf", "json"}}
Descends(fs, depth) ==
  \A file \in DOMAIN fs : \A i \in DOMAIN fs[file].body :
    LET s == fs[file].body[i]
    IN  s.t # "field" => \A other \in Named(file.dir, s.name) \cap DOMAIN fs : depth[other] < depth[file]
NoCycle(fs) == \E n \in Nat : \E depth \in [DOMAIN fs -> 0 .. n] : Descends(fs, depth)

\* The files that will do: if allow_missing is false, one of them has to exist.
Candidates(name, syntax) ==
  IF name.ext # "" THEN {[file |-> name, syntax |-> Syntax(name, syntax)]}
  ELSE {a \in {[file |-> [name EXCEPT !.ext = "conf"], syntax |-> "CONF"],
               [file |-> [name EXCEPT !.ext = "json"], syntax |-> "JSON"]} :
          syntax \in {"UNSPECIFIED", a.syntax}}
IsFound(a) == a.file \in DOMAIN files /\ ~Texts(files)[a].fails
IsMissing  ==
  /\ request.op = "parse_file_any_syntax" /\ ~request.options.allow_missing
  /\ \A a \in Candidates(request.name, request.options.syntax) : ~IsFound(a)

Expansion ==
  IF request.op = "parse_string"
  THEN IF request.text.parses THEN Inlined(Texts(files), <<>>, request.text.body) ELSE Failure
  ELSE IF IsMissing THEN Failure
  ELSE InlinedName(Texts(files), <<>>, request.name, request.options.syntax)

-----------------------------------------------------------------------------
(***************************************************************************)
(* Where the code does what is documented.  It looks for a name without    *)
(* extension in the directory of the application, whoever includes it      *)
(* (from_basename, new_file), and of a file that has to exist it takes     *)
(* notice only if it is JSON and the name has no extension (got_something).*)
(***************************************************************************)
IsAtHome(dir, name) == name.ext = "" => RelativeTo(dir, name) = name
AreAtHome(dir, body) == \A i \in DOMAIN body : body[i].t # "field" => IsAtHome(dir, body[i].name)

BasenamesAreAtHome ==
  /\ \A fs \in FileSystems : \A file \in DOMAIN fs : AreAtHome(file.dir, fs[file].body)
  /\ \A r \in Requests : IF r.op = "parse_string" THEN AreAtHome(<<>>, r.text.body) ELSE IsAtHome(<<>>, r.name)

StrictOnesAskForJson ==
  \A r \in Requests : r.op = "parse_file_any_syntax" /\ ~r.options.allow_missing =>
    r.name.ext = "" /\ r.options.syntax = "JSON"

-----------------------------------------------------------------------------
\* A document means what it would mean with the included files in place of
\* the includes, wherever they were found, and there is none if a file that has
\* to exist is missing.
IncludesAreInline ==
  Succeeded => ~Expansion.fails /\ ctl.v = Meaning(Expansion.parts)

\* A failure has a cause: a document that cannot be parsed or resolved, by a
\* name with its extension all the way, or a file that has to exist.
FailuresHaveACause == Failed => Expansion.fails
=============================================================================
