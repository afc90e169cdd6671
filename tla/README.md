# Verification of cpp-hocon

TLA+ models of the HOCON library in `src/lib`, TLC configurations that check
them on small instances, and TLAPS proofs about them. cpp-hocon is a
single-threaded library: there are no processes or messages. What is hard in it
is order (of layers, of the children of unordered maps, of tokens), recursion
through a document that may refer to itself, state carried through copied
contexts, exceptions that unwind half of a computation, and caches.

## 1. Inventory

A text becomes tokens (tokenizer), the tokens a tree of nodes that keeps every
character (document parser), the nodes a tree of values (config parser, which
calls the includer, which parses further files), and the values, once resolved
(resolver), are read through `config`. Values are immutable and shared; every
operation builds new ones.

| component | state | operations | hard behaviour | what makes it correct |
|---|---|---|---|---|
| values (`values/*.cc`) | immutable trees; every container caches its resolve status | `with_fallback`, `join`, `replace_child`, peek, `with_value`, `without_path`, `with_only_path` | delayed merges; cached status; moved-from arguments | status equals that of the children; the first layer wins; merges do not nest |
| resolver (`resolve_context.cc`, `resolve_source.cc`, `resolve_substitutions` of every value) | call stack; in each `resolve_context` memos, restriction, cycle markers; in each `resolve_source` root and path of parents | `resolve`, `lookup_subst`, `replace_within_current_parent` | cycles, look-back in merges, partial resolution, memos, exceptions, order of maps | the result solves the document's equations; cycles and nothing else are called cycles; it ends |
| config parser (`config_parser.cc`) | `_path_stack`, `array_count`, `_line_number`, pending comments | `parse_object`, `parse_array`, `parse_concatenation`, `parse_include`, `create_value_under_path` | `+=` becomes a substitution of the current path; comments on the line before and the same line; duplicate keys | path stack and array count follow the nesting; every comment ends at one value; the last field wins |
| includes (`parseable.cc`, `simple_includer.cc`) | thread-local `parse_stack`, current directory of each include context | `parse`, `relative_to`, `from_basename`, `include`, `include_file` | include cycles, missing files, `.conf` and `.json` of one name | cycles are reported; missing files are empty only where allowed |
| document parser (`config_document_parser.cc`) | token iterator, put-back buffer, equals count | `parse_value`, `parse_key`, `parse_object`, `parse_array`, `parse_include` | tokens put back; separators by newline or comma | rendering the nodes gives back the text |
| document nodes and editing (`nodes/*.cc`, `simple_config_document.cc`) | immutable node trees | `set_value`, `remove`, `has_value`, `indentation` | duplicate keys, nested paths, commas, braces | after set the value is there once; the rest of the text is kept |
| tokenizer (`tokenizer.cc`) | token queue, whitespace saver, line number, `allow_comments` | `next` | read-ahead and put-back of characters | tokens render to the text; whitespace between simple values is kept |
| paths (`path.cc`, `path_builder.cc`, `path_parser.cc`) | linked keys; a stack of elements under construction | `sub_path`, `prepend`, `parse`, `speculative_fast_parse_path` | quoted dots, empty keys, numbers and keywords with periods | a path is what its text says; parse and render are inverse |
| origins (`simple_config_origin.cc`) | description, line range, comments | `merge_origins` | merging of ranges and comments | the range covers both |
| config getters (`config.cc`, `default_transformer.cc`) | the root object | typed getters, `has_path`, `entry_set`, durations, environment | unit arithmetic in fixed width, conversions, null and unresolved values | all ways to ask agree; value or exception, never a wrong number |

How they call each other: `parseable::parse` runs tokenizer, document parser and
config parser in turn; `config_parser::parse_include` calls the includer, which
calls `parseable::parse` of another file, and the config parser merges its
result with `with_fallback`, as it merges a repeated key. `config::resolve`
starts the resolver; the resolver's `lookup_subst` falls back to the
environment (`config::env_variables_as_config_object`).

PROJECT.json lists under "hazards" what is hard to test in this code, line by line.

## 2. Modules

| module | models |
|---|---|
| `HoconNodes` | the value classes as records, their constructors, cached resolve status, `replace_child`, peeking and `find_in_object`; no recursion, so it can be proved about |
| `HoconMerge` | the recursive algebra: `with_fallback`, `join`, `concatenate`, `ignores_fallbacks` |
| `ResolveSource` | `resolve_source`: root, path of parents, replacing a parent up to the root |
| `Stacks`, `StackProofs` | sequences used as stacks, and lemmas about them and about joined sequences |
| `Resolver` | `resolve_context::resolve` and every `resolve_substitutions` as a machine with an explicit call stack |
| `ResolverProofs` | theorems about `Resolver` |
| `SubstitutionCycles` | the abstract specification of the cycle markers |
| `Solution` | what a resolved document must satisfy, stated without an algorithm |
| `MCResolver`, `MCResolverTests` | small documents, and the documents of `lib/tests/config_substitution_test.cc` |
| `ParsedValues` | values as the config parser makes them: type, parts, comments; substitutions by their path |
| `ParsedMerge` | `with_fallback` and `concatenate` on those values (recursive, for the runs only) |
| `ConfigParser` | `config_parser.cc` as a machine with an explicit call stack, over every document the document parser can produce |
| `ConfigParserProofs` | theorems about `ConfigParser` |
| `MCConfigParser` | the kinds of field and of included file |
| `Includes` | `parseable::parse` and `simple_includer`: documents that include files |
| `Inlining` | what an include stands for: the text of the file in its place |
| `IncludesProofs` | theorems about `Includes` |
| `MCIncludes` | small file systems |
| `ConfigNodes` | node trees with their layout, and the editing operations on them (recursive, for TLC only) |
| `DocumentEditing` | a document that is edited again and again; what it means and when it can be parsed |
| `MCDocumentEditing` | small documents |
| `Tokenizer` | `token_iterator`, character by character, with what it puts back, its whitespace savers and its queue |
| `Paths` | `path`, `path_builder`, the fast path parser, the tokens of path nodes and rendering, as operators |
| `PathParser` | `path_parser` on the tokens that `Tokenizer` gives it, as a machine; it composes the two |
| `TokenizerProofs` | theorems about `Tokenizer` as `PathParser` starts it |
| `MCPathParser` | pieces of text, and paths that are rendered |
| `DocumentParser` | `parse_context` of the document parser as a machine with an explicit call stack and the put-back buffer |
| `DocumentParserProofs`, `DocumentTextProofs` | theorems about `DocumentParser`: its control, lines and counts; the text in its nodes |
| `MCDocumentParser` | vocabularies, and the grammar, stated without an algorithm |
| `Durations` | the unit arithmetic of durations in fixed width |
| `DurationProofs` | the theorem that it is exact |
| `Configs` | the getters of `config`, the operations that make another config, and the cached resolve status |
| `MCConfigs` | small objects |

### How Resolver corresponds to the code

`stack` is the C++ call stack, one frame per activation of
`resolve_context::resolve` or of a class's `resolve_substitutions` (field `fn`);
`ctl` is what is happening between two frames: a call, a return or an exception
on its way out. An action is the code between two calls of `resolve`:
`SubstObject`, `ObjectChild`, `ObjectChildDone`, `ObjectDone` are
`simple_config_object::modify_may_throw` with its modifier (before the loop, the
call for a child, after it, after the loop); `SubstMerge`, `Layer`, `LayerDone`,
`MergeDone` the loop over the layers of a delayed merge; `SubstReference`, the
`Lookup*` actions and `ReferenceDone` are `config_reference` with the inlined
`lookup_subst`; `Unwind` and `CycleCaught` the exceptions. `ObjectChild` takes
the children in any order, as an `unordered_map` may.

A `resolve_context` is copied whenever it changes, and only `memoize` keeps the
memos. The code passes contexts through `std::move`; where it then reads the
moved-from object (`config_reference.cc:52`, `resolve_source.cc:102`) the model
goes on with `MovedFrom`, an empty context, which is what libstdc++'s move
constructors leave, and sets the history variable `reused`.

Abstractions: an object identity is a value (references carry an id, because the
cycle markers compare pointers); numbers, booleans and null are scalars of text;
origins are left out. References are never relativized in this code
(`prefix_length` stays 0), so `find_in_object` looks a path up once.

The merge algebra is a parameter of `Resolver` (`WithFallback`, `MergedStack`,
`Consolidate`, `IgnoresFallbacks`). The runs give it `HoconMerge`; the proofs
assume nothing about it.

### How ConfigParser corresponds to the code

`stack` has a frame for each activation of `parse`, `parse_object`,
`parse_array` and `parse_concatenation` with their locals (`values`,
`comments`, `newline`); `path_stack` and `array_count` are the members of
`parse_context`. The document is not a constant: `NextNode` chooses the next
child of the innermost node among those that `config_document_parser` can have
put there (separators, the end of a comment, what JSON forbids), and `MaxNodes`
bounds how many are chosen before the document must be ended. So one behaviour
is one document, and what is proved holds for all of them. The other actions are
the branches of the loops over the children and what follows a value in each of
the four functions. The history fields `seen`, `item` and `given` of a frame
record the children so far, the last field or element, and which comments it
got; no action that models code reads them.

What an included file gives is a constant, `Includes`: an object with or without
substitutions, or an exception (`Includes`, the module, models where it comes
from). `WithFallback` and `Concatenate` are constants too; `ParsedMerge` gives
them to the runs. Simple values are one value; origins keep their comments only.

### How Includes corresponds to the code

A frame is a `parseable::parse` at one of the statements of its document, or a
`from_basename` at one of its stages. `NamedFile` and `AnySyntax` are the two
branches of `from_basename`; `TryConf` to `BasenameReturns` its code for a name
without extension; `Parse` is `parseable::parse` with `fixup_options` and the
reader; `Include` and `Included` are `parse_include` of the config parser before
and after it calls the includer, with `clear_for_include` and, for
`include file(...)`, the resolution of what was included. `Caught` and `Unwind`
are the exceptions. An object maps keys to the layers of a value, so that merges
with substitutions keep their order.

Two details are deliberate. `Entered` pops `parse_stack` at once, as the code
does (finding `include_depth`). A file that does not exist reads as an empty
stream, because the reader opens an `ifstream` and never looks whether that
worked; an empty stream is an empty object in CONF and an error in JSON.

External: the includer of an application (only the default one is modelled), the
file system.

`Inlining` says what the result should be without the machine: a text is a sequence
of parts, objects of which the last wins where it can; an include stands for the parts of
its file (`InlinedStatement`), `include file(...)` for the object that they are resolved
to. `Texts` are those of all files of a system, each put into the others, and `Meaning`
is what parts come to: for each key its layers, the last first, up to the first scalar.
`Expansion` is the text of a request; it fails where a text that is asked for by its full
name does, and where a file has to exist and no file of the name is found (`IsMissing`).

This reference follows the headers and not the code: `InlinedName` takes every name
relative to the document that includes it (`config_include_context.hpp:24`), and a file
that has to exist is found whichever of `.conf` and `.json` it is (`config.hpp:200`). The
code does neither: it looks for a name without extension where the program runs
(`simple_includer.cc:94`), and notices only the `.json` (`:105`, `:117`). So the
comparison is made where the two agree, and these conditions have names:
`BasenamesAreAtHome` (a name without extension is used by documents in the directory of
the application, or is absolute) and `StrictOnesAskForJson` (what may not be missing
is JSON and named without extension). Outside them the code is wrong (section 6).

### How DocumentEditing corresponds to the code

A node is a record with its type; a field keeps the nodes before its path, the
path and the value; whitespace and comments are nodes without text. `ConfigNodes`
has one operator per method of `config_node_object`, `config_node_field` and
`config_node_complex_value` that editing calls, and the loops are split into
named parts: `ChangeValueOnPath` from `Deletes`, `Replacement`, `AfterDeleted`
and `Kept`; `AddValueOnPath` from `Indentation`, `PlaceBefore`, `NeedsComma`,
`Inserted` and `Appended`. `DocumentEditing` edits the nodes that the last edit
left, as an application does that calls `with_value_text` and `without_path` on
what they returned.

`indent_text` looks at the node it has just inserted. That is a newline when the
document has no braces and lines that are not indented, and then it inserts another
one, without end (`config_node_complex_value.cc:32`). `SetValueEnds` says when
setting a value ends (always, if the value is on one line); otherwise the step is
`SetValueHangs`, after which there is no document and no further edit.

Two definitions judge the result: `Meaning`, what the config parser makes of the
nodes, and `Readable`, the grammar of `parse_object`; `Occurrences` counts how often a
path is set. The new value is taken as parsed; arrays at the root, which throw, are left
out.

`AllDocuments` leaves out documents for which the code is known to fail, all
found with this model: a comma after a newline or after whitespace (removing the
setting before it leaves the comma; adding one adds a second), a comment at the
end of the text without a newline (it swallows a setting added after it), `+=`
fields (kept by a set, which then appends), and settings hidden by a later
scalar of their parent (a value set there stays hidden, and `has_value` finds what the
parser does not: `HiddenIsFound`). Two exceptions are in the properties, by name: in JSON
a value set below a scalar makes a second setting of the same key (`BelowScalar`), and of
settings whose last is in an object of its own the one before it is kept
(`LastIsInAnObject`).

### How Tokenizer, Paths and PathParser correspond to the code

`mode` is the function that reads (`pull_next_token`, `pull_comment`,
`pull_number`, ...), `text` what it has collected, `pos` how much of the text is
read and not put back. `pull_substitution` calls `pull_next_token` again, so
`frames` has a token list and a `whitespace_saver` for the iterator and for each
open substitution. An action is one turn of a loop. `Take` is `next()`, which
refills the queue before it hands out the last token in it. Characters stand for
their class where the code only asks for that: a letter, a reserved character, a
byte above 127. `lexical_cast` is external, as `IsNumber` over `IntDigits` digits.
An escape `\u` without hexadecimal digits leaves a character uninitialized, so
`Stands` gives both outcomes.

`PathParser` asks `Tokenizer` for a token when it wants one: `Speculate` is
`speculative_fast_parse_path`, `AddToken` a turn of the loop of
`parse_path_expression`, `Build` its end; `entry` says whether a path, the node of
a path, or every token is wanted. `Paths` has the rest as operators, and
`Configs` uses it too.

The model keeps what the code does and a reader may not expect: whitespace before
the `}` of a substitution is dropped; whitespace before a newline has the number
of the next line; an integer too large for `int64_t` is unquoted text; after
`"\u0000"`, a string of nothing, a further quote begins three quotes; bytes above
127 are rejected in quoted strings; the fast parser trims newlines around a path,
the other does not; `sub_path(0)` of a path node drops its first token.

### How DocumentParser corresponds to the code

A frame is an activation of `parse`, `parse_single_value`, `parse_object`,
`parse_array`, `parse_include` or `consolidate_values` with its locals; `buffer` is
the stack of tokens put back, `equals_count` and `line_number` are the members.
A step takes one token, from `buffer` or from the tokenizer, and does everything
the code does before it takes the next: the helpers `Collect` (the list that
`next_token_collecting_whitespace` appends to), `Takes` (take one, put back some)
and `ParseValue`, `Leave` (the beginning and the end of `parse_value`) are shared
by the actions, which are named for the places where the loops wait. The actions
`RootParsed` to `ValueParsed` are what follows when a called function returns.

The tokens are not a constant: `Following` chooses the next one among those the
tokenizer can return there (`CanFollow` knows that whitespace comes once, that it
is part of a value exactly between simple values, and that nothing follows the
end), over one of the `Vocabularies`. So a behaviour is a text, and what is proved
holds for every text. A node has its children and its `text`, what `get_tokens()`
returns: the token of a leaf, or the texts of the children in their order. A key
whose text is no path is a word of `NoPath`: `path_parser` would throw for it, but
`parse_key` passes it a null origin, which is followed first. The outcome is
`NullOrigin`: parsing stops there and nothing is reported. `closed` is a history
variable, the `)` tokens that `parse_include` took and gave no node.

### How Configs corresponds to the code

An object has its values and the status it was made with, as the class caches it;
`WithValue`, `WithoutPath`, `WithOnlyPath` and `AtPath` recompute it where the code
does. The getters are operators that return a value or what is thrown:
`FindKeyOrNull`, `FindKey`, `FindOrNull` are the functions of those names with the
conversion of `default_transformer`. `Then` with `IntRangeChecked` is `get_int`.
The state is a config, the operation that made it and the object it was made of.

`Durations` follows the arithmetic step by step: seconds and nanoseconds from a
number of some unit, then a number of another unit. Only the sign of a result
is checked; a signed overflow is undefined, so `Checked` has the outcomes with and
without that check. The ratios between the units and the limit of an `int64_t` are
constants.

## 3. Runs

| run | question |
|---|---|
| `documents` | For every document of fields `a, a, b` (seven kinds of value, substitutions of `a`, `b`, `a.b`), of three layers of `a`, of two fields resolved against another document, of fields whose substitutions only the environment has, or nothing (then with `allow_unresolved`), and for the documents of `config_substitution_test.cc`: do contexts keep their discipline, does the result solve the document and is it what the test requires, in every order of the maps; does resolution end; does it implement `SubstitutionCycles`? |
| `config_parser` | For every document of up to six nodes, with every kind of field: do path stack and array count follow the nesting, and does every comment go to the field or element it stands beside? |
| `includes` | For every small system of files without an include cycle, some missing or broken, where the conditions of section 2 hold: does a document mean what it would with the files in place of the includes, does it fail only for a reason, does parsing end? |
| `editing` | For every two edits of every small document that end: is the value set, once, or gone, is everything else what it was, can the result be parsed? |
| `tokens_and_paths` | For every text of a few pieces: is every character in one token, is whitespace text exactly between values, is each token on its line? For every short path expression: is the path what its text says, whichever parser reads it, and is a rendered path read as the same? |
| `document_parser` | For every text of a few words, in JSON and CONF, as a document and as a single value: is exactly the grammar accepted, is every token in the tree once and in order (but for one parenthesis), is the end never read past, are `=` and lines counted right, does parsing end? |
| `configs` | For every small object and every two operations on it: is the cached status right, do all ways to ask for a path agree, are durations that fit exact? |
| `forgetful`, `plus_equals`, `include_depth`, `lost_parenthesis`, `operations` | Disagreements between the code and its own comments and documentation (section 6). |

Properties of `documents`: `MarkersAreActive` relates the markers
that a call carries to the substitutions on the stack; `RestrictionRestored` says
that a callee gives back the restriction it was given; `ReturnsASolution` that the
result equals what the document evaluates to when every substitution is read
from the result itself (from the layers below, inside a merge that looks back);
`FailsOnlyForTheDocument` that a document without cycle fails only with an
unresolved substitution or values that cannot be joined; `CyclesAreReported`
that a document whose cycle nothing can break fails; `ResolvesAsTested` that the tested
documents come out as their tests require, of which a test sees one order of the maps;
`Terminates` that every resolution ends; `EntersOnce` is the refinement of
`SubstitutionCycles`.

Properties of `config_parser`: `ArrayCountIsNesting`, `PathStackIsNesting` and
`AppendsAreOutsideLists` relate the two members of `parse_context`, which are
changed and restored by hand around every value, to the functions in progress;
`Balanced` says the exception for an unbalanced count is never thrown;
`CommentsGoWith` compares the comments each field and element gets with a
definition that reads the children from left to right without the parser's state.

Properties of `includes`: `IncludesAreInline` and `FailuresHaveACause` compare
the result with `Expansion`, which puts the text of the files in place of the
includes: that a file is broken or missing must not be swallowed where it counts, nor be
fatal where it does not; `Terminates` holds where the files do not include each other in
a cycle.

Properties of `editing`: `EditIsDone` and `OthersAreKept` compare the meaning of the
nodes before and after an edit, and `EditIsDone` asks that duplicates of what was set are
gone, and that what was removed is gone for `has_value` too; `StaysReadable` is about
commas, newlines and braces. They speak of edits that end.

Properties of `tokens_and_paths`: `TextIsKept` says that tokens, saved whitespace
and what is being read make up the text read so far, so nothing put back is lost
or read twice; `WhitespaceIsText` and `LinesAreCounted` judge each token by its
neighbours and the text before it (a text with a newline after a `\u` is left out of the
last one, see section 6); `PathIsMeant` compares the keys with a reading
of the text that knows neither tokens nor the fast parser; `NodeIsThePath` says
that the node of a path renders to its text, and that each key `add_value_on_path`
writes from what is left of it reads as that key; `RenderedIsRead` reads what
`render` writes.

Properties of `document_parser`: `NothingIsLost` says that the nodes, the value being
returned and the tokens put back are, in this order, the tokens read, each one once
(the end and the `)` of `include file("x")` have no node; that the latter is lost when
the document is rendered is the run `lost_parenthesis`);
`NeverPastEnd` that the tokenizer's empty queue is never asked; `EqualsBalanced`
that `_equals_count` is the number of fields with `=` in progress; `ErrorsAreOnTheirLine`
that an error that is reported has the line of its token, after any putting back; `OnlyTheGrammar`
that what is accepted is the language of `Values`, `Members` and `Items`, a grammar
without state.

Properties of `configs`: `StatusIsRight` compares cached statuses with the values;
`PathsAndValuesAgree` relates `has_path`, `get_value`, peeking and `entry_set`;
`GettersAgree` the typed getters; `DurationIsExact` compares durations with exact
arithmetic. `OperationsAsDocumented`, of the run `operations`, has what `config.hpp` says of
`with_value`, `without_path` and `with_only_path`, a conjunct for each; none of them holds.

Bounds. `documents`: three fields and three paths are the smallest documents where a
substitution can look back in a merge, look back inside a look-back, reach a
sibling through a partially resolved parent, and where two fields form a cycle.
Each of the seven kinds of value is the upper of two layers, and all but a list the middle
or upper of three; the lower layers and the other field have the kinds that make a difference to them (a list
below an object is where looking into a merge fails).
The environment has one key. Stack depth and document size are bounded by the
document, so no state constraint is used. `CHECK_DEADLOCK FALSE`: a finished
resolution has no next step.

`config_parser`: six nodes, and those needed to end the document, reach a list in
the object of a `+=`, a `+=` in an object in a list, and a field with a comment and
a blank line before it and a comment beside it.
`includes`: a document of two statements, five further files in three directories, three
levels; names without extension and files that must exist are those of section 2
(`NamesAreAtHome`, `StrictRequests`); `MaxIncludeDepth` is 50 as in the code, and 3 in the run that looks for the
limit. `editing`: two settings with five kinds of separator, with and without
braces, JSON and CONF; the second edit starts from what the first produced, among
others from an object it created. An object of several lines set in a document that is not
indented does not end (`NeverAdded`), and all other edits do. `tokens_and_paths`: six alphabets, each for what
the code confuses most easily (whitespace between values, quotes in a row, escapes,
substitutions in each other, numbers), up to five pieces of text, and path
expressions of up to five pieces; an integer has two digits, so three overflow.
`document_parser`: six vocabularies of up to eight words, so that a nested object or
array with a separator, a comment, a trailing comma and something wrong after it
occurs. `configs`: two keys on two levels and a path of three; a long has 9 bits, an
int 5, and the ratios of the units are 4, 3 and 2, so that every conversion
overflows for some numbers and truncates for others. In each of them what was
parsed, edited or asked as often as the bound says has no next step, hence
`CHECK_DEADLOCK FALSE`.

Fairness. `WF` of the whole next-state relation: the library runs in the caller's
thread and a call that can go on does. `config_parser`, `editing` and `configs` check
safety only.

Some documents are excluded by name: `Cyclic` documents have no unique solution,
so `ReturnsASolution` and `FailsOnlyForTheDocument` leave them to
`CyclesAreReported`. A merge inside a layer of another merge counts as cyclic
there, because it has no path from the root. `IsPlain` leaves out of `PathIsMeant`
the path expressions whose reading depends on the parser: newlines around a path,
three quotes, `+`, and a comment in the middle. `ErrorsAreOnTheirLine` leaves out
texts with strings of several lines, whose token is on its last line.
`DurationIsExact` is about durations that fit, whose seconds fit, and that do not come to
nothing although they are below zero (`Vanishes`): the check of the sign refuses those,
and of what does not fit it notices only some, so a wrong number may come out
(section 6).

## 4. Proofs

`ResolverProofs` proves for every document, environment, option and value
algebra, without assumptions on the constants:

* `TypeCorrect`: `[]TypeOK`; frames run functions of the class of their value,
  and every call and return carries a well-formed context.
* `Markers`: `[]MarkersAreActive`; `NeverReentered`: `[]NoReentry`.
* `Refinement`: `Spec => EntersOnce`; a substitution that is being resolved is
  never entered, so recursion is no deeper than the substitutions of the document.

`MarkersAreActive` is not inductive: after a return, the caller goes on with a
context the callee returned or with one saved in its frame before the call
(`config_reference` restores it after an exception, `config_concatenation` keeps
the one with its restriction). `MarkerInv` therefore adds `NoReentry` and
`KeptMarkers`: the context saved in a frame has as markers the substitutions
active below that frame (and the frame's own, for a reference). Each action
preserves it through three lemmas: pushing a frame that is no reference, popping
one, and replacing the top by a frame of the same function and value leave
`Active` unchanged; only entering and leaving a reference change it, by its own
value. The invariant holds until `reused`; what happens then is the finding
`forgetful`.

`RestrictionIsRestored`, `[]RestrictionRestored`, holds until
`reused` as well. At a return only the frames say what the restriction was before
the call, so `RestrictInv` says it of each of them: the context kept in a frame has
the restriction the frame below called with (`Expected`: the tail of its own for
an object, none for the piece of a concatenation, the path looked up for a
reference), and so has the context of the call in progress (`AtHand`). The step
that keeps it is one lemma for the actions that call, one for those that return or
throw, and one for those that go on with the frame on top.

`ConfigParserProofs` proves for every document, every set of fields and included
files and every merge algebra, the last with one hypothesis on the algebra, the
others with none:

* `TypeCorrect`: `[]TypeOK`.
* `ArrayCountFollows`: `[]ArrayCountIsNesting`; `NoAppendInLists`:
  `[]AppendsAreOutsideLists`.
* `PathStackFollows`: `[]PathStackIsNesting`.
* `AlwaysBalanced`: `[]Balanced`.
* `CommentsBelong`: `[]CommentsGoWith`.

None of them is inductive. For the counts: after a value returns, nothing but the frame says
what the counts were when it was called. `Inv` joins `TypeOK`, `Balanced` and
two more parts. `Control` says which function can be where: a frame below the
top is at a value of its own (an object at its field). `Nesting` says that each
frame's `start` is the number of lists and `+=` below it, and that `array_count`
and `path_stack` are those of the whole stack. A step pushes a frame, pops one or
replaces the top by one that counts the same; one lemma for each of the three
carries `Nesting` over, and the actions cite it. Counting the frames uses
`FiniteSetTheorems`.

For the comments, `CommentsInv` says how far each frame has come with the nodes it
has seen (`Ready`). While a value is parsed, the frame holds the comments above it and
inside it (`Awaiting`). Between values it is in one of three states (`Settled`): it
collects comments for a next item, and then there is no item on this line that could
still get one (`Loose`); or it looks for the comment behind a field (`Trails`); or it
keeps an element that is not written yet, whose comment it may have met (`Pends`). What
was given is right (`Given`) and stays so, because something other than a comma already
stands behind the item: what an item owns is decided by its line (`AboveStays` and
the lemmas after it), and later nodes do not change it. The exception is the end of the
text, after which no node comes. The frames below the top await their value. The
hypothesis, `ConcatenationIsPlain`, is that `concatenate` gives no comments when its
pieces have none; the pieces have none because only fields and elements are given
comments, and the code joins origins by joining the comments they have.
`NoCommentsMadeUp` of `MCConfigParser` lets TLC evaluate it for all sequences of up to
three small pieces.

`DocumentParserProofs` proves for every text of any length and nesting, JSON or
CONF, under the two assumptions that name the entries and flavors and say that a
word that is no path is no punctuation, layout or end:

* `NeverReadsPastEnd`: `[]NeverPastEnd`. The invariant behind it is `EndHeld`: once
  the end was read, and while the parser goes on, it is the first of the tokens put
  back. Every action is one of three: it takes a token that is not the end
  (`Consuming`), it puts the token back, alone or under the layout behind the
  values (`GivingOneBack`, `GivingBack`), or it reads none (`Returning`).
* `EqualsFollow`: `[]EqualsBalanced`. After an object or array returns, only its
  frame says what the count was, so `Inv` has `Good`: in each frame the count it
  noted is the number of fields with `=` below it, and `equals_count` is that of
  the whole stack. A frame can be at `=` only where a value is awaited (`IsFrame`).
  `GoodPushed`, `GoodPopped` and `GoodReplaced` carry it over the three things that
  happen to a stack; what is counted is `Number` of `StackProofs`, which the proofs
  of the config parser use too.
* `ErrorsAreLocated`: `[]ErrorsAreOnTheirLine`. `LineInv` says where the lines are:
  without strings of several lines, every token put back is on `line_number`, only
  the first of them can be other than layout (`Held`), and the next token is on that
  line too, or on the next one if a newline is the first put back. Two
  functions keep tokens of their line while others are read: `parse_key` its key, whose
  last token is the one it reports, and `consolidate_values` the layout it may put
  back (`OnLine`, `Behind`). `Standing` says that no other function is on the stack above
  them with such tokens; an action leaves none behind (`Settled`) or adds one of the
  line at hand.

`DocumentTextProofs` proves, under the same assumptions, `NodesKeepTheText`:
`[]NothingIsLost`. With `Inv` and `LineInv` of the other theorems, the invariant is
`TextInv`: what the functions in progress and the returned value hold are the first
tokens of the text in their order, but for those that get no node (`InOrder`), and what
is put back are the tokens after them, the next one on top (`Segment`). It is not inductive
without three facts about where tokens are kept. The tokens of a key count while
`parse_key` reads it and its nodes afterwards, so only the top may be at a key, and a
field has nodes only between its key and its value (`Sound`). `consolidate_values`
takes the layout behind the values out of its list and puts back a token of
it, so the last node that is layout must be one token, the last one read
(`EndsWith`), and two layout tokens never stand side by side (`AreValues`, which
needs that the tokenizer returns no whitespace twice, in `Segment`). A step adds the token it read to the text (`Gains`, and the
lemmas about each way a frame can do so), moves text between a frame, the value returned
and the frame below, or puts a token back; one lemma for each carries `InOrder` over. The
laws of `FlattenSeq` that the text of a tree needs are those of `StackProofs`. The one
token that a step may drop is the parenthesis that it enters in `closed`, so what is
proved is that nothing else is lost.

`TokenizerProofs` proves for every text, read as tokens or as a path, with any
limit on numbers, from the one assumption that texts are sequences:

* `TheTextIsKept`: `[]TextIsKept`; `TheWhitespaceIsText`: `[]WhitespaceIsText`;
  `TheLinesAreCounted`: `[]LinesAreCounted`.

The three share an invariant, because what is put back, what is saved and what is
counted depend on each other. `Kept` is `TextIsKept`, both of its cases, which already
speaks of every moment. The brace that closes a substitution drops the saved whitespace,
so it needs `Dollar` (an open substitution means that a `$` was read) and `Saved` (when
`pull_next_token` goes on after saving whitespace, the last character read is
whitespace): a dropped one is then what `Tight` excludes. `WhitespaceIsText` needs
`GoodFrames`: each `whitespace_saver` knows whether the last token of its list was simple
(`KnowsItsLast`), and whitespace in a list is text exactly between simple tokens
(`IsSpaced`). `Lines` adds to `LinesAreCounted` that the line at hand is one more than
the newlines in all that is written so far, open substitutions and the text in progress
included. `Texted` says which mode has text, and that it does not begin with whitespace.
Each action reads on, gives a token to a frame, or opens or closes a substitution;
`Going`, `Given` and `GivenIsGood` carry the invariant over them. `StackProofs` has
the laws of joining sequences that they cite.

`IncludesProofs` proves, for any number of files of any content that include each
other to any depth, any request and any `MaxIncludeDepth`:

* `IncludesStandForTheirText`: `[]IncludesAreInline`.
* `FailuresAreExplained`: `[]FailuresHaveACause`.

Both have four hypotheses. `FilesAreTrees` is that no file of a system includes itself,
through others or not: with such a cycle the code recurses without end (the finding
`include_depth`), and `Texts` would not be defined by its equation. That it is defined
without one is `TextsExist`, by induction on the depth of the files. `ResolveGivesObjects`
is that `config::resolve`, of which `Includes` knows nothing else, makes objects of
objects. `BasenamesAreAtHome` and `StrictOnesAskForJson` are the conditions under which
the code does what the headers say of names without extension and of files that have to
exist (section 2); without either the theorems are false. The assumptions of `Includes`
say that values have layers, none of them below a scalar. `TreesAreTrees`,
`ResolveGivesAnObject`, `NamesAreAtHome` and `StrictRequests` of `MCIncludes` let TLC
evaluate the hypotheses for the run. That parsing ends is liveness and stays with `Terminates`.

The invariant is `Agrees`. `Chain` says that every frame is for the text that the frame
below waits for, the lowest for the text of the request, and how far it has come: the
fields before the statement at hand are what those statements come to (`IsParse`), the
object of a `from_basename` what the files already tried come to (`IsBasename`), and where
neither counted there is a reason (`NotGot`). `Goes` says of the call, return or
exception in progress that it is for that text: what is returned is what it comes to,
and what is thrown has a cause in the statement at hand, in a file not found, or, with
nothing left on the stack, in the request (`Breaks`). Only the request may forbid that a
file is missing (`Allowed`), because the includer clears the options
(`clear_for_include`). Pushing, popping and changing the top carry `Chain` over
(`ChainPushed`, `ChainPopped`, `ChainRetopped`). What makes field after field right is
`Merging`: merging the objects of two texts with `with_fallback` is the object of the
joined text, so that an include has the same effect as its text in its place.

`DurationProofs` proves `DurationsAreExact`: in integers of any width, for any number
and any two units, whatever the ratios between the units, `ConvertsExactly` holds: where the
number, its seconds and the result fit and the result does not vanish below zero, the only
outcome is the exact one, truncated. `DurationIsExact` asks that of each `get_duration`. It
rests on two laws of
division towards zero: a common factor cancels (`QuotientCancels`), and dividing twice
is dividing once (`QuotientTwice`).

Only model-checked: `ReturnsASolution`, `FailsOnlyForTheDocument`,
`CyclesAreReported` and `ResolvesAsTested` depend on the recursive merge algebra,
and each `Terminates` is liveness; both are out of the prover's reach.
`ConfigNodes`, `Meaning` and `Readable` of `DocumentEditing`, the grammar of `MCDocumentParser` and the
getters of `Configs` are recursive, so what they are compared with stays with TLC;
of `DurationIsExact` the arithmetic is proved. `PathIsMeant`, `NodeIsThePath` and
`RenderedIsRead` compare folds over texts, which would need induction. `NeverReentered` (`[]NoReentry`) is proved and not run, because
`EntersOnce` says it as a refinement.

## 5. Plan

In this order, most important first:

1. `HoconNodes`, `HoconMerge`, `ResolveSource`, `Resolver` with `ResolverProofs` (done).
2. `ConfigParser` with `ConfigParserProofs` (done).
3. `Includes`, `Inlining` with `IncludesProofs` (done).
4. `ConfigNodes`, `DocumentEditing` (done, model-checked).
5. `DocumentParser` with `DocumentParserProofs` and `DocumentTextProofs` (done).
6. `Tokenizer` with `TokenizerProofs`, `Paths`, `PathParser` (done).
7. `Configs`, `Durations` with `DurationProofs` (done for what section 7 does not list).
8. Rendering of values and its options, origins with line ranges, includer chains.

Theorems still worth proving: of the editing and the getters, the parts that do not read
a tree to its leaves.

## 6. Disagreements with the code's own comments and documentation

* `forgetful`: `a = ${?a.b}${?a.c}` and `a = ${?x}${a}` (with the environment)
  make the resolver lose its cycle markers and recurse without end.
* `plus_equals`: in `a { b += 1 }` the substitution in front of the list is that of
  the outermost field in progress, `a`, not `a.b`.
* `include_depth`: the limit on nested includes is never reached, because the
  scope guard that pops `parse_stack` has no name; files that include each other
  recurse until the stack overflows.
* `lost_parenthesis`: the `)` of `include file("x")` gets no node
  (`config_document_parser.cc:327`), so a document with one is not rendered as it was
  written, which `config_document.hpp:10` promises, and cannot be parsed again.
* `operations`: with `with_value` a path that has a value keeps it, because the copy of
  the map is changed with `emplace` (`simple_config_object.cc:173`); below an existing
  object the rest of the path is set in the outer object (`:94`). `config.hpp:665`
  promises that the value is replaced. `without_path` of a nested path drops the other
  keys of the objects on the way (`:110`, against `config.hpp:633`); `with_only_path`
  yields an empty object (against `config.hpp:621`) or follows a null pointer.

Seen while modelling and not run:

* Resolver: `a=1,a=${a},a=${a},a=${a}` throws (pending test HC-77); what `defaults.a`
  becomes in the documents of the pending test HC-78 depends on the order of a map;
  `a = ${b} { c : 1, c : ${d} }` throws, because a piece of a concatenation is no
  parent of what it holds (`config_concatenation.cc:73`); `a = [${?x}, ${b}]` throws
  instead of dropping the element, because the copy of a list starts again when its
  first elements vanished (`simple_config_list.cc:194`).
* Parsing and includes: the comment of `a.b : 1` goes to the object `a` as well,
  because an empty list of comments means no change (`simple_config_origin.cc:48`);
  `parse_string` drops the options it is given (`parseable.cc:180`); `allow_missing` has
  no effect on a named file, so one that has to exist and does not is an empty object;
  `parse_file_any_syntax` that allows no missing file throws when only the `.conf` file
  exists (`simple_includer.cc:105`, against `config.hpp:200`); a name without extension is
  looked up in the working directory, whatever document includes it
  (`simple_includer.cc:94`, against `config_include_context.hpp:24`); a key that is no path
  is reported through a null pointer (`config_document_parser.cc:248` and `:266`,
  `path_parser.cc:119`).
* Editing: the exclusions of `AllDocuments` above; setting a value of several lines in a
  document without braces or indentation never ends (`config_node_complex_value.cc:32`);
  setting `a.b` in `{a : {b : 1}, a : {b : 1}}` keeps both (`config_node_object.cc:104`,
  against `config_document.hpp:30`); `has_path` finds `a.b` in `a.b : 1` where a later
  `a : 1` hides it; `with_value_text` throws a pointer for an
  empty value; a path set in JSON writes a key like `"x".a` as two adjacent tokens;
  whitespace next to the periods of a path makes a written key read differently.
* Tokens: a newline among the four characters after `\u` is read as one of them and not
  counted, so every later line number is one too small (`tokenizer.cc:299`).
* Paths: `sub_path(first, last)` throws where `last` is the length; a key with bytes
  above 127, as `entry_set` renders it, cannot be parsed (`config.hpp:526`).
* Config: `with_value` keeps the cached status; `operator==` of objects keeps the last
  comparison and throws for a key the other lacks (`simple_config_object.cc:192`);
  durations below zero that come to no whole second, or to nothing in the unit asked for,
  throw, though `config.hpp:605` promises them; of a result that does not fit only the sign
  is checked, so it may wrap, where `config.cc:359` and `config_test.cc:147` want an
  exception;
  the conversion of a double throws when a part of it is not a normal number
  (`2.0 s`); `get_object_list` throws a pointer; `get_config_list` fails unless the
  list is empty; an exception rethrown in `find_or_null` is sliced to `config_exception`.

## 7. Not modelled

Wording of messages, logging, rendering of values and its options, hash functions,
translation files, the build. Of values: equality, relativizing and the value
factory. Of `config`: getters of doubles, objects and lists of objects, durations
of doubles. Of origins: descriptions and line ranges, which no value depends on.
The includers of an application and their fallbacks, the file system, and
`lexical_cast` are external. The parsing of the new value in an edit is that of
`DocumentParser` and is not composed with `DocumentEditing`; likewise `Tokenizer` and
`DocumentParser` are composed by what the one may return (`CanFollow`), because the
characters of a whole document are out of TLC's reach.
