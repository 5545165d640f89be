-------------------------------- MODULE MCBuild --------------------------------
(* Projects for Build: import graphs, directories, and programs.                *)
EXTENDS Build

K == INSTANCE Checker
G == INSTANCE GoCode
R == INSTANCE Running

CheckingUsed(root, ds) ==
  LET c == K!Check(root, ds) IN [errs |-> c.errs, binds |-> c.binds, types |-> c.types, enums |-> K!EnumNames(c)]
GeneratingUsed(root, ds, v) == LET code == G!Generate(G!NewGenerator(root, ds, v.enums, v.types)) IN code
DoingUsed(ds, v, w) == LET o == R!Outcomes(R!Written(ds, v.binds), w, R!Starts(ds)) IN o
DoingGoUsed(code, ds, w) == LET o == R!Outcomes(R!Built(code), w, R!Starts(ds)) IN o
CompilingUsed(code) == LET b == R!Compiles(code) IN b
OrderingUsed(ds, v) == LET b == R!Orderly(R!Written(ds, v.binds)) IN b
CallsOfUsed(code) == LET cs == R!Calls(code) IN cs
OwnersOfUsed(code, ident) == LET us == R!Owners(code, ident) IN us

WorldsUsed == SUBSET {"a", "b"} \cup {{"db-begin"}, {"db-commit"}}

--------------------------------------------------------------------------------
(* Writing programs.                                                            *)

S(x) == Atom("STRING", <<x>>)
N(x) == Atom("INT", <<x>>)
T(t) == Type(t)
StrT == Type("str")
Res == Applied("result", <<StrT, StrT>>)
TryOf(e) == Node("try", <<>>, <<<<e>>>>)
Read(x) == Call("fs-read-file", <<S(x)>>)
Exists(x) == Call("fs-exists", <<S(x)>>)
Not(e) == Call("not", <<e>>)
Cat(e, f) == Call("concat", <<e, f>>)
Show(e) == Do(Call("println", <<e>>))
Let(x, e) == Node("let", <<x>>, <<<<>>, <<e>>>>)
LetAs(x, t, e) == Node("let", <<x>>, <<<<t>>, <<e>>>>)
Set(x, e) == Node("set", <<x>>, <<<<e>>>>)
If(e, then, else) == Node("if", <<>>, <<<<e>>, then, else>>)
IfX(e, then, else) == Node("ifx", <<>>, <<<<e>>, <<then>>, <<else>>>>)
While(e, body) == Node("while", <<>>, <<<<e>>, body>>)
For(x, from, to, body) == Node("for-range", <<x>>, <<<<N(from), N(to)>>, body>>)
Break == Node("break", <<>>, <<>>)
Continue == Node("continue", <<>>, <<>>)
Spawn(e) == Node("spawn", <<>>, <<<<e>>>>)
Transaction(conn, body) == Node("db-transaction", <<conn>>, <<<<>>, body>>)

(* A match in the syntax of parentheses, which has branches, and in the linear  *)
(* one, which has cases besides.                                                *)
Match(e, v, ok, w, err) == MatchOf("match", <<v, w, "">>, e, ok, err, <<>>)
MatchX(e, v, ok, w, err) == MatchOf("matchx", <<v, w, "">>, e, <<ok>>, <<err>>, <<>>)
Linear(e, v, ok, w, err) ==
  MatchOf("match", <<v, w, "">>, e, ok, err, <<Case(<<"ok">>, <<v>>, ok, <<>>), Case(<<"err">>, <<w>>, err, <<>>)>>)
Variant(v) == Node("variant", <<v>>, <<<<>>>>)
Enum(name, pub, vs) == Node("enum", <<name, pub>>, <<vs>>)
Switch(e, one, two) ==
  MatchOf("match", <<"", "", "">>, e, <<>>, <<>>, <<Case(<<"Color", "red">>, <<>>, one, <<>>), Case(<<"_">>, <<>>, two, <<>>)>>)
SwitchX(e, one, two) ==
  MatchOf("matchx", <<"", "", "">>, e, <<>>, <<>>, <<Case(<<"red">>, <<>>, <<>>, <<one>>), Case(<<"blue">>, <<>>, <<>>, <<two>>)>>)

Func(name, pub, params, ret, effects, body) == Fn("fn", name, pub, params, ret, Names("effect", effects), "", <<>>, body)
Main(effects, body) == Func("main", "", <<>>, Void, effects, body)
Caught(fn, x, body) == [fn EXCEPT !.s[3] = x, !.c[4] = body]
Module(name, ds) == Node("module", <<name>>, <<ds>>)
Import(p) == Node("import", <<>>, <<<<Atom("STRING", p)>>>>)
File(x) == <<x, LiafExt>>
ProjectOf(files, dirs, root) == [files |-> files, dirs |-> dirs, root |-> root]
Alone(ds) == ProjectOf(File("a") :> Module("main", ds), <<>>, File("a"))

--------------------------------------------------------------------------------
(* Import graphs.                                                               *)

Start == Main(<<>>, <<Do(Call("helper", <<>>))>>)
Helper(pub) == Func("helper", pub, <<>>, Void, <<>>, <<>>)
ImportsOf(ps) == [i \in DOMAIN ps |-> Import(ps[i])]

(* Three files, two of them in a directory, and an empty directory.  The main   *)
(* module and b have a private function of the same name.                       *)
Graph(as, bs, cs, root) ==
  ProjectOf((File("a") :> Module("main", <<Start, Helper("")>> \o ImportsOf(as)))
            @@ (File("b") :> Module("b", ImportsOf(bs) \o <<Helper(""), Func("fb", "pub", <<>>, Void, <<>>, <<Do(Call("helper", <<>>))>>)>>))
            @@ (File("c") :> Module("c", <<Func("fc", "pub", <<>>, Void, <<>>, <<>>)>> \o ImportsOf(cs))),
            (<<"d">> :> <<File("b"), File("c")>>) @@ (<<"e">> :> <<>>), root)
ListsOf(x, y, self) == {<<>>, <<<<x>>>>, <<File(y)>>, <<File(x), <<x>>>>, <<<<y>>, <<x>>>>, <<<<self>>>>, <<<<"d">>, <<x>>>>}
Graphs ==
  {Graph(as, bs, cs, File("a")) : as \in ListsOf("b", "c", "a"), bs \in ListsOf("c", "a", "b"), cs \in ListsOf("a", "b", "c")}
  \cup {Graph(<<>>, bs, cs, <<"d">>) : bs \in ListsOf("c", "a", "b"), cs \in ListsOf("a", "b", "c")}

Plain(ds) == Module("b", ds)
With(files, imports) ==
  ProjectOf(files @@ (File("a") :> Module("main", ImportsOf(imports) \o <<Main(<<>>, <<>>)>>)), (<<"e">> :> <<>>), File("a"))
StdFile == <<"std/", "x", ".liaf">>
Oddities ==
  {Graph(<<>>, <<>>, <<>>, <<"e">>), Graph(<<>>, <<>>, <<>>, <<"nowhere">>), Graph(<<<<"e">>>>, <<>>, <<>>, File("a")),
   Graph(<<<<"nowhere">>>>, <<>>, <<>>, File("a")),
   With(StdFile :> Plain(<<Helper("pub")>>), <<<<"std/", "x">>, StdFile>>),
   With(StdFile :> Plain(ImportsOf(<<File("b")>>)), <<<<"std/", "x">>>>),
   With((StdFile :> Plain(ImportsOf(<<<<"std/", "y">>>>))) @@ (<<"std/", "y", ".liaf">> :> Plain(<<Helper("")>>)), <<StdFile>>),
   With(<<>>, <<<<"std/", "x">>>>),
   With(File("b") :> Nil, <<<<"b">>>>),
   ProjectOf(File("a") :> Nil, <<>>, File("a")),
   ProjectOf((File("a") :> Module("main", <<>>)) @@ (File("b") :> Nil), <<"d">> :> <<File("a"), File("b")>>, <<"d">>),
   ProjectOf((File("a") :> Module("main", ImportsOf(<<<<"nowhere">>>>))) @@ (File("b") :> Nil), <<"d">> :> <<File("a"), File("b")>>, <<"d">>),
   With(File("b") :> Plain(<<Func("main", "pub", <<>>, Void, <<>>, <<>>)>>), <<<<"b">>>>),
   With(File("b") :> Plain(<<Main(<<>>, <<>>)>>), <<<<"b">>>>),
   With(File("b") :> Plain(<<Helper(""), Helper("pub")>>), <<<<"b">>>>),
   With(File("b") :> Plain(<<Helper("pub"), Helper("")>>), <<<<"b">>>>),
   With((File("b") :> Plain(<<Helper("")>>)) @@ (File("c") :> Plain(<<Helper("")>>)), <<<<"b">>, <<"c">>>>)}

--------------------------------------------------------------------------------
(* Functions that go by values with a try in them: each in a function with an   *)
(* on-err, in one without a value, and in one that returns a result.  Noise has *)
(* the effects used, whatever follows.                                          *)

Noise == <<Show(S("begin")), Do(Exists("c"))>>
Told == Func("told", "", <<Field("x", StrT)>>, StrT, <<"io">>, <<Show(Ident("x")), Return(<<Ident("x")>>)>>)
Work(ret, body) == Func("work", "", <<>>, ret, <<"io", "fs">>, Noise \o body)
ShowWork == Main(<<"io", "fs">>, <<Show(Call("work", <<>>))>>)
TellWork == Main(<<"io", "fs">>, <<Match(Call("work", <<>>), "v", <<Show(Ident("v"))>>, "w", <<Show(Cat(S("no"), Ident("w")))>>)>>)
Failed == <<Show(Ident("e")), Return(<<Cat(S("failed"), Ident("e"))>>)>>
Answered(e) ==
  {Alone(<<Told, ShowWork, Caught(Work(StrT, <<Return(<<e>>)>>), "e", Failed)>>),
   Alone(<<Told, TellWork, Work(Res, <<Let("x", e), Return(<<Call("ok", <<Ident("x")>>)>>)>>)>>)}
Decided(e) ==
  {Alone(<<Told, Caught(Main(<<"io", "fs">>, Noise \o <<If(e, <<Show(S("yes"))>>, <<Show(S("no"))>>)>>), "e", <<Show(Ident("e"))>>)>>),
   Alone(<<Told, TellWork, Work(Res, <<While(e, <<Show(S("again"))>>), Return(<<Call("ok", <<S("k")>>)>>)>>)>>)}

Values == {S("k"), TryOf(Read("a")), TryOf(Read("b")), Call("told", <<S("k")>>)}
Eq(e, f) == Bin("eq", e, f)
Strings ==
  {Cat(e, f) : e, f \in Values} \cup {Call("told", <<e>>) : e \in Values}
  \cup {IfX(Exists("a"), e, f) : e, f \in Values}
  \cup {MatchX(Read("a"), "v", Cat(Ident("v"), e), "w", e) : e \in Values}
  \cup {Call("unwrap-or", <<Read("a"), e>>) : e \in Values}
Nested == {Cat(e, f) : e \in {IfX(Not(Exists("a")), v, S("k")) : v \in Values}, f \in Values}
Truths == {Exists("b"), Not(Exists("b"))} \cup {Eq(e, S("k")) : e \in Values}
Conditions == Truths \cup {Bin(op, x, y) : op \in {"and", "or"}, x, y \in Truths}

ValuePrograms == UNION {Answered(e) : e \in Values \cup Strings \cup Nested} \cup UNION {Decided(e) : e \in Conditions}

--------------------------------------------------------------------------------
(* Up to three statements after a result was kept, which settle it, leave,      *)
(* replace it or do none of this, on some paths or on all.                      *)

Look(r) == Match(Ident(r), "v", <<Show(Ident("v"))>>, "w", <<Show(Ident("w"))>>)
LookLinear(r) == Linear(Ident(r), "v", <<Show(Ident("v"))>>, "w", <<Show(Ident("w"))>>)
Steps ==
  {Look("r"), LookLinear("r"), If(Exists("b"), <<Look("r")>>, <<Look("r")>>), If(Exists("b"), <<Look("r")>>, <<>>),
   If(Exists("b"), <<Return(<<>>)>>, <<>>), If(Exists("b"), <<Look("r"), Return(<<>>)>>, <<>>),
   For("i", "0", "2", <<Look("r")>>), Set("r", Read("b")), Show(Call("unwrap-or", <<Ident("r"), S("k")>>)),
   Match(Read("b"), "x", <<Look("r")>>, "y", <<Show(Ident("y"))>>),
   Linear(Read("b"), "x", <<Look("r")>>, "y", <<Show(Ident("y"))>>)}
Bodies == {<<a>> : a \in Steps} \cup {<<a, b>> : a, b \in Steps} \cup {<<a, b, c>> : a, b, c \in Steps}
ResultPrograms ==
  {Alone(<<Main(<<"io", "fs">>, Noise \o <<Let("r", Read("a"))>> \o body)>>) : body \in Bodies}

--------------------------------------------------------------------------------
(* Programs for what the others leave out.                                      *)

Request == Type("Request")
Response == Type("Response")
Reply(e) == Call("json-response", <<N("200"), e>>)
Gate(name, pub, path) ==
  Fn("middleware", name, pub, <<Field("req", Request)>>, Applied("result", <<Request, Response>>), Names("effect", <<"fs", "io">>), "", <<>>,
     <<Show(S(name)), If(Exists(path), <<Return(<<Call("ok", <<Ident("req")>>)>>)>>, <<Return(<<Call("err", <<Reply(S("gone"))>>)>>)>>)>>)
RouteOf(path, with, body) ==
  Route(<<"GET">>, <<path>>, Names("name", with), <<Field("req", Request)>>, Response, Names("effect", <<"fs">>), "e",
        <<Return(<<Reply(Ident("e"))>>)>>, body)
TestOf(body) == Node("test", <<>>, <<<<S("t")>>, body>>)
Socket(effects, open, message) ==
  Node("ws-route", <<"", "m">>, <<<<S("/ws")>>, <<Field("ws", Type("WSConn"))>>, Names("effect", effects), <<>>, open, message, <<>>>>)

Color == Enum("Color", "", <<Variant("red"), Variant("blue")>>)
Paint == Call("field", <<Ident("Color"), Ident("red")>>)
Open == <<Let("db", TryOf(Call("db-connect", <<S("postgres"), S("dsn")>>))), Do(Exists("c"))>>
Insert == Open \o <<Transaction("db", <<Show(S("in")), Let("x", TryOf(Read("a"))), Show(Ident("x"))>>), Show(S("out"))>>
Store(ret, body) == Func("work", "", <<>>, ret, <<"io", "fs", "db">>, <<Show(S("begin"))>> \o body)
TellStored == [TellWork EXCEPT !.c[3] = Names("effect", <<"io", "fs", "db">>)]

Serving == <<RouteOf("/", <<"near", "far">>, <<Return(<<Reply(TryOf(Read("b")))>>)>>), Gate("near", "", "a"), Gate("far", "", "b"), Main(<<>>, <<>>)>>
Looping(body) == Alone(<<Main(<<"io", "fs">>, Noise \o <<For("i", "0", "2", <<Let("r", Read("a"))>> \o body), Show(S("end"))>>)>>)

Others ==
  {Alone(Serving),
   Alone(Serving \o <<Socket(<<"net", "io">>, <<Show(S("hello"))>>, <<Show(Ident("m"))>>), TestOf(<<Show(S("t")), Do(Exists("a"))>>)>>),
   Alone(Serving \o <<RouteOf("/", <<>>, <<Return(<<Reply(TryOf(Read("b")))>>)>>)>>),
   Alone(Serving \o <<RouteOf("/x", <<"near", "near">>, <<Return(<<Reply(S("k"))>>)>>)>>),
   Alone(Serving \o <<RouteOf("/x", <<"main">>, <<Return(<<Reply(TryOf(Read("b")))>>)>>)>>),
   Alone(Serving \o <<Socket(<<"io">>, <<>>, <<>>)>>),
   \* Loops.
   Looping(<<If(Exists("b"), <<Break>>, <<>>), Look("r")>>),
   Looping(<<If(Exists("b"), <<Look("r"), Continue>>, <<Look("r")>>), Show(S("next"))>>),
   Alone(<<Main(<<"io", "fs">>, <<While(Exists("a"), <<Show(S("round")), Break>>), While(Exists("b"), <<Show(S("on"))>>)>>)>>),
   Alone(<<Main(<<>>, <<Break>>)>>),
   \* A match on an enum: at the end of a function, before others, as a value.
   Alone(<<Color, ShowWork, Work(StrT, <<Switch(Paint, <<Do(S("warm"))>>, <<Do(S("cold"))>>)>>)>>),
   Alone(<<Color, ShowWork, Work(StrT, <<Let("x", S("k")), Switch(Paint, <<Set("x", S("warm"))>>, <<Set("x", S("cold"))>>), Return(<<Ident("x")>>)>>)>>),
   Alone(<<Color, ShowWork, Work(StrT, <<Let("x", SwitchX(Paint, S("warm"), S("cold"))), Return(<<Ident("x")>>)>>)>>),
   Alone(<<Color, Main(<<"io">>, <<Switch(Paint, <<Show(S("warm"))>>, <<Show(S("cold"))>>)>>)>>),
   Alone(<<Color, ShowWork, Work(StrT, <<Switch(Call("field", <<Ident("Color"), Ident("green")>>), <<Do(S("warm"))>>, <<Do(S("cold"))>>)>>)>>),
   \* Transactions, goroutines.
   Alone(<<TellStored, Store(Res, Insert \o <<Return(<<Call("ok", <<S("k")>>)>>)>>)>>),
   Alone(<<TellStored, Store(Res, Open \o <<Transaction("db", <<If(Exists("b"), <<Return(<<Call("ok", <<S("left")>>)>>)>>, <<>>)>>), Return(<<Call("ok", <<S("k")>>)>>)>>)>>),
   Alone(<<TellStored, Store(Res, Open \o <<Transaction("db", <<Return(<<Call("ok", <<S("left")>>)>>)>>)>>)>>),
   Alone(<<Main(<<"io", "fs", "db">>, <<Show(Call("work", <<>>))>>), Caught(Store(StrT, Insert \o <<Return(<<S("k")>>)>>), "e", Failed)>>),
   Alone(<<TellStored, Store(StrT, Insert)>>),
   Alone(<<Main(<<"db">>, <<Transaction("db", <<>>)>>)>>),
   Alone(<<Told, Main(<<"io", "spawn">>, <<Spawn(Call("println", <<S("k")>>)), Show(S("end"))>>)>>),
   Alone(<<Told, Caught(Main(<<"io", "fs", "spawn">>, <<Spawn(Call("println", <<TryOf(Read("a"))>>))>>), "e", <<Show(Ident("e"))>>)>>),
   \* A result that is ignored, returned unseen, replaced.
   Alone(<<Main(<<"fs">>, <<Do(Read("a"))>>)>>),
   Alone(<<TellWork, Work(Res, <<Let("r", Read("a")), Return(<<Ident("r")>>)>>)>>),
   Alone(<<TellWork, Work(Res, <<Let("r", Read("a")), Let("q", Read("b")), Return(<<Ident("r")>>)>>)>>),
   Alone(<<Main(<<"fs">>, <<LetAs("r", StrT, Read("a"))>>)>>)}

(* Modules with names in common.                                                *)
Shared(root, imported) ==
  ProjectOf((File("a") :> Module("main", <<Import(<<"b">>)>> \o root)) @@ (File("b") :> Module("b", imported)), <<>>, File("a"))
Says(name, pub, x) == Func(name, pub, <<>>, Void, <<"io">>, <<Show(S(x))>>)
Calling(name, pub, f) == Func(name, pub, <<>>, Void, <<"io">>, <<Do(Call(f, <<>>))>>)
Modules ==
  {Shared(<<Calling("main", "", "fb"), Says("helper", "", "root")>>, <<Says("helper", "", "own"), Calling("fb", "pub", "helper")>>),
   Shared(<<Calling("main", "", "fb"), Says("helper", "", "root")>>, <<Calling("fb", "pub", "helper")>>),
   Shared(<<Calling("main", "", "helper")>>, <<Says("helper", "", "own")>>),
   Shared(<<Calling("main", "", "fb")>>, <<Says("main", "", "other"), Says("fb", "pub", "own")>>),
   Shared(Serving, <<RouteOf("/b", <<"near", "inner">>, <<Return(<<Reply(TryOf(Read("a")))>>)>>), Gate("inner", "", "a")>>),
   Shared(<<Main(<<>>, <<>>), RouteOf("/b", <<"inner", "outer">>, <<Return(<<Reply(TryOf(Read("a")))>>)>>)>>,
          <<Gate("inner", "", "a"), Gate("outer", "pub", "b")>>),
   Shared(<<Main(<<>>, <<>>)>>, <<Color, Func("pick", "pub", <<>>, StrT, <<>>, <<Switch(Paint, <<Do(S("warm"))>>, <<Do(S("cold"))>>)>>)>>),
   Shared(<<Main(<<"io">>, <<Switch(Paint, <<Show(S("warm"))>>, <<Show(S("cold"))>>)>>)>>, <<Enum("Color", "pub", <<Variant("red"), Variant("blue")>>)>>)}

ProjectsUsed == Graphs \cup Oddities \cup ValuePrograms \cup ResultPrograms \cup Others \cup Modules
================================================================================
