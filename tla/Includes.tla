------------------------------ MODULE Includes ------------------------------
(***************************************************************************)
(* parseable and simple_includer: a document includes files, which include *)
(* files.  The machine has a frame for every parse of a document and every *)
(* from_basename that looks for a file without extension.                  *)
(***************************************************************************)
EXTENDS Stacks, Naturals, FiniteSets, SequencesExt

CONSTANTS
  FileSystems,     \* each a function from the files that exist to what they hold
  Requests,        \* the calls of the application
  Resolve(_),      \* config::resolve where substitutions may stay: [fails, v]
  MaxIncludeDepth  \* MAX_INCLUDE_DEPTH, 50 in the code

ASSUME MaxIncludeDepthAssumption == MaxIncludeDepth \in Nat \ {0}

\* A value has layers, and nothing below a scalar.
IsValue(v)   == IsSequence(v) /\ v # <<>> /\ \A i \in 1 .. Len(v) - 1 : v[i].t # "scalar"
IsContent(c) == IsSequence(c.body) /\ \A i \in 1 .. Len(c.body) : c.body[i].t = "field" => IsValue(c.body[i].v)

ASSUME FileSystemsAssumption == \A fs \in FileSystems : \A file \in DOMAIN fs : IsContent(fs[file])
ASSUME RequestsAssumption ==
  \A r \in Requests :
    \/ r.op = "parse_string" /\ IsContent(r.text)
    \/ r.op = "parse_file_any_syntax" /\ r.options.syntax \in {"UNSPECIFIED", "CONF", "JSON"}

VARIABLES
  files,       \* what the files hold: [parses, body], a sequence of statements
  request,     \* what the application asks for
  stack,       \* the functions in progress, the innermost last
  ctl,         \* what goes on between them
  parse_stack  \* the documents that parseable::parse believes in progress

vars == <<files, request, stack, ctl, parse_stack>>

-----------------------------------------------------------------------------
(***************************************************************************)
(* A file is [dir, base, ext].  An object is a function from keys to       *)
(* values, a value the sequence of the layers that are merged once the     *)
(* substitutions in them are known: nothing is seen below a scalar.        *)
(***************************************************************************)
NoObject == [k \in {} |-> <<>>]

IsScalar(v)           == Last(v).t = "scalar"
MergedValue(new, old) == IF IsScalar(new) THEN new ELSE new \o old

WithFallback(new, old) ==
  [k \in DOMAIN new \cup DOMAIN old |->
     IF k \notin DOMAIN old THEN new[k]
     ELSE IF k \notin DOMAIN new THEN old[k]
     ELSE MergedValue(new[k], old[k])]

\* An absolute name, or one in the directory of the document that includes it.
RelativeTo(dir, name) ==
  IF name.dir # <<>> /\ name.dir[1] = "/" THEN name ELSE [name EXCEPT !.dir = dir \o @]

\* fixup_options: the syntax asked for, or else that of the extension.
Syntax(file, asked) ==
  IF asked # "UNSPECIFIED" THEN asked ELSE IF file.ext = "json" THEN "JSON" ELSE "CONF"

\* JSON has no includes, no substitutions and no repeated keys.
IsJson(body) ==
  /\ \A i \in DOMAIN body : body[i].t = "field" /\ IsScalar(body[i].v)
  /\ \A i, j \in DOMAIN body : body[i].key = body[j].key => i = j

Parses(content, syntax) == content.parses /\ (syntax = "JSON" => IsJson(content.body))

\* Mutant: a file that is missing cannot be read.
ReadsExisting(file, syntax) == file \in DOMAIN files /\ Parses(files[file], syntax)
\* What may be read: a file that is missing reads as an empty stream, which is
\* an empty object, but no JSON.
Reads(file, syntax) ==
  IF file \in DOMAIN files THEN Parses(files[file], syntax) ELSE syntax = "CONF"
Body(file) == IF file \in DOMAIN files THEN files[file].body ELSE <<>>

-----------------------------------------------------------------------------
Document(dir, body) ==
  [fn |-> "parse", dir |-> dir, body |-> body, next |-> 1, values |-> NoObject]
Basename(name, options) ==
  [fn |-> "from_basename", name |-> name, options |-> options, stage |-> "conf",
   obj |-> NoObject, got_something |-> FALSE]

\* dir is that of the include context; the application has none.
FromBasename(name, dir, options) ==
  [op |-> "from_basename", name |-> name, dir |-> dir, options |-> options]
ParseFile(file, syntax) == [op |-> "parse", file |-> file, syntax |-> syntax]
Continue   == [op |-> "continue"]
Returns(v) == [op |-> "return", v |-> v]
Throws     == [op |-> "throw"]

Top       == stack[Len(stack)]
SetTop(f) == stack' = Retopped(stack, f)

In(fn)        == stack # <<>> /\ Top.fn = fn
AtStage(name) == In("from_basename") /\ Top.stage = name
Statement     == Top.body[Top.next]
Reached(t)    == /\ In("parse") /\ ctl = Continue
                 /\ Top.next \in DOMAIN Top.body /\ Statement.t = t

\* clear_for_include
IncludeOptions == [syntax |-> "UNSPECIFIED", allow_missing |-> TRUE]

\* config::parse_file_any_syntax and config::parse_string
Init ==
  /\ files \in FileSystems
  /\ request \in Requests
  /\ parse_stack = <<>>
  /\ IF request.op = "parse_file_any_syntax"
     THEN /\ stack = <<>>
          /\ ctl = FromBasename(request.name, <<>>, request.options)
     ELSE /\ stack = IF request.text.parses THEN <<Document(<<>>, request.text.body)>> ELSE <<>>
          /\ ctl = IF request.text.parses THEN Continue ELSE Throws

-----------------------------------------------------------------------------
(* from_basename                                                           *)

NamedFile ==
  /\ ctl.op = "from_basename" /\ ctl.name.ext # ""
  /\ LET file == RelativeTo(ctl.dir, ctl.name)
     IN  ctl' = ParseFile(file, Syntax(file, ctl.options.syntax))
  /\ UNCHANGED <<files, request, stack, parse_stack>>

\* Without extension: the context is not asked for its directory.
AnySyntax ==
  /\ ctl.op = "from_basename" /\ ctl.name.ext = ""
  /\ stack' = Append(stack, Basename(ctl.name, ctl.options))
  /\ ctl' = Continue
  /\ UNCHANGED <<files, request, parse_stack>>

TryConf ==
  /\ AtStage("conf") /\ ctl = Continue
  /\ IF Top.options.syntax \in {"UNSPECIFIED", "CONF"}
     THEN /\ ctl' = ParseFile([Top.name EXCEPT !.ext = "conf"], "CONF")
          /\ UNCHANGED stack
     ELSE /\ SetTop([Top EXCEPT !.stage = "json"])
          /\ UNCHANGED ctl
  /\ UNCHANGED <<files, request, parse_stack>>

\* got_something is not set.
ConfParsed ==
  /\ AtStage("conf") /\ ctl.op = "return"
  /\ SetTop([Top EXCEPT !.stage = "json", !.obj = ctl.v])
  /\ ctl' = Continue
  /\ UNCHANGED <<files, request, parse_stack>>

TryJson ==
  /\ AtStage("json") /\ ctl = Continue
  /\ IF Top.options.syntax \in {"UNSPECIFIED", "JSON"}
     THEN /\ ctl' = ParseFile([Top.name EXCEPT !.ext = "json"], "JSON")
          /\ UNCHANGED stack
     ELSE /\ SetTop([Top EXCEPT !.stage = "both"])
          /\ UNCHANGED ctl
  /\ UNCHANGED <<files, request, parse_stack>>

JsonParsed ==
  /\ AtStage("json") /\ ctl.op = "return"
  /\ SetTop([Top EXCEPT !.stage = "both", !.got_something = TRUE, !.obj = WithFallback(@, ctl.v)])
  /\ ctl' = Continue
  /\ UNCHANGED <<files, request, parse_stack>>

\* Whatever went wrong, here or in what was included, counts as not found.
Caught ==
  /\ In("from_basename") /\ ctl.op = "throw"
  /\ SetTop([Top EXCEPT !.stage = IF Top.stage = "conf" THEN "json" ELSE "both"])
  /\ ctl' = Continue
  /\ UNCHANGED <<files, request, parse_stack>>

BasenameReturns ==
  /\ AtStage("both") /\ ctl = Continue
  /\ ctl' = IF ~Top.options.allow_missing /\ ~Top.got_something THEN Throws ELSE Returns(Top.obj)
  /\ stack' = Popped(stack)
  /\ UNCHANGED <<files, request, parse_stack>>

-----------------------------------------------------------------------------
(* parse                                                                   *)

\* The object that would pop parse_stack at the end of parse is a temporary:
\* it pops at once.
Entered(file) == Popped(Append(parse_stack, file))

Parse ==
  /\ ctl.op = "parse"
  /\ IF Len(parse_stack) >= MaxIncludeDepth
     THEN ctl' = Throws /\ UNCHANGED <<stack, parse_stack>>
     ELSE /\ parse_stack' = Entered(ctl.file)
          /\ IF Reads(ctl.file, ctl.syntax)
             THEN /\ stack' = Append(stack, Document(ctl.file.dir, Body(ctl.file)))
                  /\ ctl' = Continue
             ELSE ctl' = Throws /\ UNCHANGED stack
  /\ UNCHANGED <<files, request>>

\* Mutant: the statement is looked at again.
SameStatement(f) == f.next
NextStatement(f) == f.next + 1

ValuesMerged(f, obj) == WithFallback(obj, f.values)

Field ==
  /\ Reached("field")
  /\ SetTop([Top EXCEPT !.values = ValuesMerged(Top, [k \in {Statement.key} |-> Statement.v]),
                        !.next = NextStatement(Top)])
  /\ UNCHANGED <<files, request, ctl, parse_stack>>

\* Mutant: files are looked for where the application runs.
NoDirectory(f)      == <<>>
CurrentDirectory(f) == f.dir

Include ==
  /\ Reached("include")
  /\ ctl' = FromBasename(Statement.name, CurrentDirectory(Top), IncludeOptions)
  /\ UNCHANGED <<files, request, stack, parse_stack>>

\* include file(...) resolves what it included, include "..." does not.
Resolution(obj) == IF Statement.how = "file" THEN Resolve(obj) ELSE [fails |-> FALSE, v |-> obj]

Included ==
  /\ In("parse") /\ ctl.op = "return"
  /\ IF Resolution(ctl.v).fails
     THEN ctl' = Throws /\ UNCHANGED stack
     ELSE /\ SetTop([Top EXCEPT !.values = ValuesMerged(Top, Resolution(ctl.v).v),
                                !.next = NextStatement(Top)])
          /\ ctl' = Continue
  /\ UNCHANGED <<files, request, parse_stack>>

EndOfDocument ==
  /\ In("parse") /\ ctl = Continue /\ Top.next \notin DOMAIN Top.body
  /\ ctl' = Returns(Top.values)
  /\ stack' = Popped(stack)
  /\ UNCHANGED <<files, request, parse_stack>>

Unwind ==
  /\ In("parse") /\ ctl.op = "throw"
  /\ stack' = Popped(stack)
  /\ UNCHANGED <<files, request, ctl, parse_stack>>

-----------------------------------------------------------------------------
Next ==
  \/ NamedFile \/ AnySyntax \/ TryConf \/ ConfParsed \/ TryJson \/ JsonParsed
  \/ Caught \/ BasenameReturns
  \/ Parse \/ Field \/ Include \/ Included \/ EndOfDocument \/ Unwind

Spec == Init /\ [][Next]_vars /\ WF_vars(Next)

-----------------------------------------------------------------------------
(* Properties *)

Ended     == stack = <<>> /\ ctl.op \in {"return", "throw"}
Succeeded == stack = <<>> /\ ctl.op = "return"
Failed    == stack = <<>> /\ ctl.op = "throw"

\* Files that include each other are noticed: no more than MAX_INCLUDE_DEPTH
\* documents are being parsed.
DepthIsBounded ==
  Cardinality({i \in DOMAIN stack : stack[i].fn = "parse"}) <= MaxIncludeDepth
=============================================================================
