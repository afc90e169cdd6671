----------------------------- MODULE MCIncludes -----------------------------
(***************************************************************************)
(* Small file systems.                                                     *)
(***************************************************************************)
EXTENDS Inlining

Here == <<>>
Sub  == <<"d">>

File(dir, base, ext) == [dir |-> dir, base |-> base, ext |-> ext]

Scalar(at)  == <<[t |-> "scalar", at |-> at]>>
Ref(key)    == <<[t |-> "reference", key |-> key]>>
Set(key, v) == [t |-> "field", key |-> key, v |-> v]
Inc(how, name) == [t |-> "include", how |-> how, name |-> name]

Text(body) == [parses |-> TRUE, body |-> body]
Garbled    == [parses |-> FALSE, body |-> <<>>]

-----------------------------------------------------------------------------
(***************************************************************************)
(* config::resolve, for k, a scalar or k itself, and l, which may be k.    *)
(***************************************************************************)
SelfOnly(o)  == "k" \in DOMAIN o /\ \A i \in DOMAIN o["k"] : o["k"][i].t = "reference"
K(o)         == <<Last(o["k"])>>
resolve(o) ==
  [fails |-> SelfOnly(o),
   v |-> IF "k" \notin DOMAIN o \/ SelfOnly(o) THEN o
         ELSE [j \in DOMAIN o |-> IF o[j][1].t = "scalar" THEN o[j] ELSE K(o)]]

-----------------------------------------------------------------------------
\* Parsing ends.
Terminates == <>Ended

-----------------------------------------------------------------------------
B(dir, ext) == File(dir, "b", ext)
Root        == <<"/">>

\* d/main.conf, which includes files here and at the root; ./b.conf and
\* ./b.json, which include a file in d; and d/b.conf, /b.conf and /b.json.
Main == File(Sub, "main", "conf")

Leaves  == {Garbled, Text(<<Set("k", Scalar("leaf"))>>), Text(<<Set("k", Ref("k")), Set("l", Ref("k"))>>)}
Middles == {Text(<<Set("k", Scalar("b")), Inc("heuristic", B(Sub, "conf"))>>),
            Text(<<Inc("file", B(Sub, "")), Set("l", Ref("k"))>>),
            Text(<<Set("k", Ref("k"))>>)}
Jsons   == {Text(<<Set("k", Scalar("json"))>>), Text(<<Inc("heuristic", B(Sub, "conf"))>>)}
Statements ==
  {Set("k", Scalar("main")), Set("l", Ref("k"))}
  \cup {Inc(how, name) : how \in {"heuristic", "file"},
                         name \in {B(Here, "conf"), B(Root, "conf"), B(Root, "")}}
Mains   == {Text(<<s, t>>) : s, t \in Statements}

Holding(main, b, leaf, json) ==
  [f \in {Main} \cup {B(dir, ext) : dir \in {Here, Root}, ext \in {"conf", "json"}} \cup {B(Sub, "conf")} |->
     IF f = Main THEN main ELSE IF f = B(Here, "conf") THEN b ELSE IF f.ext = "json" THEN json
     ELSE leaf]
Missing == {{}, {Main}, {B(Here, "conf")}, {B(Here, "json"), B(Root, "json")},
            {B(Sub, "conf"), B(Root, "conf")}, {B(Here, "conf"), B(Here, "json")}}
Trees ==
  UNION {{[f \in DOMAIN h \ m |-> h[f]] : m \in Missing} :
           h \in {Holding(main, b, leaf, json) :
                    main \in Mains, b \in Middles, leaf \in Leaves, json \in Jsons}}

\* No file of these includes itself, and config::resolve gives objects.
ASSUME TreesAreTrees ==
  \A fs \in Trees :
    Descends(fs, [f \in DOMAIN fs |-> IF f = Main THEN 2 ELSE IF f.dir = Here THEN 1 ELSE 0])
Objects ==
  UNION {[keys -> {Scalar("x"), Ref("k"), Ref("k") \o Scalar("x"), Ref("k") \o Ref("k")}] : keys \in SUBSET {"k", "l"}}
ASSUME ResolveGivesAnObject ==
  \A o \in Objects : \A key \in DOMAIN resolve(o).v : IsValue(resolve(o).v[key])

\* The code does what is documented of these.
ASSUME NamesAreAtHome == BasenamesAreAtHome
ASSUME StrictRequests == StrictOnesAskForJson

Options == [syntax : {"UNSPECIFIED", "CONF", "JSON"}, allow_missing : {TRUE}]
           \cup {[syntax |-> "JSON", allow_missing |-> FALSE]}
Default == [syntax |-> "UNSPECIFIED", allow_missing |-> TRUE]
AnySyntaxCall(name, o) == [op |-> "parse_file_any_syntax", name |-> name, options |-> o]
Calls ==
  {AnySyntaxCall(Main, Default)}
  \cup {AnySyntaxCall(B(Here, ""), o) : o \in Options}
  \cup {[op |-> "parse_string", text |-> t] :
          t \in {Garbled, Text(<<Inc("heuristic", B(Here, "conf")), Inc("file", Main)>>)}}

\* One file that includes itself.
Cycles    == {[f \in {B(Here, "conf")} |-> Text(<<Inc("heuristic", B(Here, "conf"))>>)]}
CycleCall == {AnySyntaxCall(B(Here, "conf"), Default)}
=============================================================================
