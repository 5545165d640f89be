-------------------------------- MODULE MCEditor --------------------------------
(* Programs for Editor, and the reference writer of the linear syntax: the text *)
(* of a tree with no parenthesis that precedence makes needless.                *)
EXTENDS Editor, FrontEnd

--------------------------------------------------------------------------------
(* The linear syntax.                                                           *)

Symbol == [op \in Operators |->
  CASE op = "add" -> "+" [] op = "sub" -> "-" [] op = "mul" -> "*" [] op = "div" -> "/"
    [] op = "eq" -> "==" [] op = "neq" -> "!=" [] op = "gt" -> ">" [] op = "lt" -> "<"
    [] op = "gte" -> ">=" [] op = "lte" -> "<=" [] op = "and" -> "&&" [] OTHER -> "||"]

M(p) == Text(<<Mark(p)>>)
Grouped(inside) == M("(") \o inside \o M(")")
Listed(seq, F(_)) == Concat([i \in 1..Len(seq) |-> IF i = 1 THEN F(seq[1]) ELSE M(",") \o F(seq[i])], LAMBDA s : s)

RECURSIVE Linear(_, _)
RECURSIVE LinearStmt(_)
LinearStmts(body) == Concat(body, LinearStmt)
LinearTop(e) == Linear(e, 0)
LinearList(es) == M("(") \o Listed(es, LinearTop) \o M(")")

LinearCases(cases) ==
  Concat(cases, LAMBDA k : W("case") \o Dotted(k.c[1][1].s)
    \o (IF k.s = <<>> THEN <<>> ELSE M("(") \o Listed(k.s, W) \o M(")")) \o LinearStmts(k.c[2]))

Linear(e, min) ==
  CASE e.n = "bin" ->
         LET p == Precedence(e.s[1])
             t == Linear(e.c[1][1], p - 1) \o M(Symbol[e.s[1]]) \o Linear(e.c[1][2], p)
         IN  IF p <= min THEN Grouped(t) ELSE t
    [] e.n = "call" /\ FieldPath(e) # <<>> -> Dotted(FieldPath(e))
    [] e.n = "call" /\ FieldPath(e) = <<>> /\ e.s[1] = "field" ->
         LET b == Linear(e.c[1][1], 9)
         IN  (IF e.c[1][1].n = "try" THEN Grouped(b) ELSE b) \o Text(<<Mark("."), Word(e.c[1][2].s[1])>>)
    [] e.n = "call" /\ e.s[1] = "not" -> M("!") \o Linear(e.c[1][1], 9)
    [] e.n = "call" /\ e.s[1] = "new" -> W("new") \o W(e.c[1][1].s[1]) \o LinearList(Tail(e.c[1]))
    [] e.n = "call" /\ e.s[1] = "variant-call" -> Linear(e.c[1][1], 9) \o LinearList(Tail(e.c[1]))
    [] e.n = "call" /\ e.s[1] \notin {"field", "not", "new", "variant-call"} -> W(e.s[1]) \o LinearList(e.c[1])
    [] e.n = "try" -> W("try") \o Linear(e.c[1][1], 9)
    [] e.n = "matchx" -> W("match") \o LinearTop(e.c[1][1]) \o LinearCases(e.c[4]) \o W("end")
    [] OTHER -> FormatExpr(e)

LinearStmt(s) ==
  CASE s.n \in {"let", "set"} ->
         W(s.n) \o W(s.s[1])
         \o (IF s.n = "let" /\ s.c[1] # <<>> THEN M(":") \o TypeText(s.c[1][1]) ELSE <<>>)
         \o M("=") \o LinearTop(Last(s.c)[1])
    [] s.n = "return" -> W("return") \o Concat(s.c[1], LinearTop)
    [] s.n = "if" -> W("if") \o LinearTop(s.c[1][1]) \o W("then") \o LinearStmts(s.c[2])
                     \o (IF s.c[3] = <<>> THEN <<>> ELSE W("else") \o LinearStmts(s.c[3])) \o W("end")
    [] s.n = "match" -> W("match") \o LinearTop(s.c[1][1]) \o LinearCases(s.c[4]) \o W("end")
    [] s.n \in {"while", "for-range", "for-each", "db-transaction"} ->
         W(s.n) \o Words(s.s) \o Concat(s.c[1], LinearTop) \o LinearStmts(s.c[2]) \o W("end")
    [] s.n \in {"break", "continue"} -> W(s.n)
    [] s.n \in {"spawn", "send"} -> PrintStmt(s)
    [] OTHER -> LinearTop(s.c[1][1])

(* The last value of a function needs no return, nor that of a case, unless it  *)
(* begins with a parenthesis, which a statement takes for the older syntax, or  *)
(* with a match, which is a statement too.                                      *)
LinearLast(s, ret) ==
  LET Bare(b) == IF /\ b # <<>> /\ Last(b).n = "return" /\ Last(b).c[1] # <<>>
                    /\ Head(LinearTop(Last(b).c[1][1])) \notin {Mark("("), Word("match")}
                 THEN Front(b) \o <<Do(Last(b).c[1][1])>> ELSE b
  IN  CASE ret = Void -> LinearStmt(s)
        [] s.n = "match" -> LinearStmt([s EXCEPT !.c[4] = [i \in 1..Len(@) |-> [@[i] EXCEPT !.c[2] = Bare(@)]]])
        [] OTHER -> LinearStmts(Bare(<<s>>))
LinearBody(body, ret) == IF body = <<>> THEN <<>> ELSE LinearStmts(Front(body)) \o LinearLast(Last(body), ret)

LinearPair(x) == W(x.s[1]) \o M(":") \o TypeText(x.c[1][1])
LinearOnErrText(var, body) ==
  IF var = "" THEN <<>> ELSE W("on-err") \o W(var) \o LinearStmts(body) \o W("end")
LinearEffectsText(effects) ==
  IF effects = <<>> THEN <<>> ELSE W("effects") \o M("(") \o Listed(effects, LAMBDA e : W(e.s[1])) \o M(")")
LinearDeclText(d) ==
  CASE d.n = "import" -> W("import") \o Exprs(d.c[1])
    [] d.n = "struct" -> Optional(d.s[2]) \o W("struct") \o W(d.s[1]) \o Concat(d.c[1], LinearPair) \o W("end")
    [] d.n = "enum" ->
         LET Variant(v) == W(v.s[1]) \o IF v.c[1] = <<>> THEN <<>> ELSE M("(") \o Listed(v.c[1], LinearPair) \o M(")")
         IN  Optional(d.s[2]) \o W("enum") \o W(d.s[1]) \o Concat(d.c[1], Variant) \o W("end")
    [] d.n \in {"fn", "middleware"} ->
         Optional(d.s[2]) \o W(d.n) \o W(d.s[1]) \o M("(") \o Listed(d.c[1], LinearPair) \o M(")")
         \o TypeText(d.c[2][1]) \o LinearEffectsText(d.c[3]) \o LinearOnErrText(d.s[3], d.c[4])
         \o LinearBody(d.c[5], d.c[2][1]) \o W("end")
    [] d.n = "route" ->
         W("route") \o W(d.s[1]) \o Exprs(d.c[1])
         \o (IF d.c[2] = <<>> THEN <<>> ELSE W("with") \o M("(") \o Listed(d.c[2], LAMBDA m : W(m.s[1])) \o M(")"))
         \o M("(") \o Listed(d.c[3], LinearPair) \o M(")") \o TypeText(d.c[4][1]) \o LinearEffectsText(d.c[5])
         \o LinearOnErrText(d.s[2], d.c[6]) \o LinearBody(d.c[7], d.c[4][1]) \o W("end")
    [] d.n = "ws-route" ->
         LET Block(tag, body) == IF body = <<>> THEN <<>> ELSE W(tag) \o LinearStmts(body) \o W("end")
         IN  W("ws-route") \o Exprs(d.c[1]) \o M("(") \o Listed(d.c[2], LinearPair) \o M(")")
             \o LinearEffectsText(d.c[3]) \o Block("on-close", d.c[7]) \o Block("on-open", d.c[5])
             \o W("on-message") \o W(d.s[2]) \o LinearStmts(d.c[6]) \o W("end")
             \o LinearOnErrText(d.s[1], d.c[4]) \o W("end")
    [] d.n = "test" -> W("test") \o Exprs(d.c[1]) \o LinearStmts(d.c[2]) \o W("end")

LinearText(module) == W("module") \o W(module.s[1]) \o Concat(module.c[1], LinearDeclText)

--------------------------------------------------------------------------------
(* The programs.                                                                *)

x == Ident("x")
y == Ident("y")
One == Atom("INT", <<"1">>)
Minus == Atom("INT", <<"-", "1">>)
Str(s) == Atom("STRING", s)
IntT == Type("int")

BinOps == {"or", "and", "eq", "sub", "mul"}
Bins ==
  {Bin(o, Bin(p, x, One), Bin(q, y, Minus)) : <<o, p, q>> \in BinOps \X BinOps \X BinOps}

Params == <<Field("x", IntT), Field("y", Applied("map", <<Type("str"), Applied("list", <<IntT>>)>>))>>
Module(decls) == Node("module", <<"main">>, <<decls>>)
Fun(ret, body) == Fn("fn", "f", "", Params, ret, Names("effect", <<"net", "db">>), "", <<>>, body)

Let(v, e) == Node("let", <<v>>, <<<<>>, <<e>>>>)
LetT(v, t, e) == Node("let", <<v>>, <<<<t>>, <<e>>>>)
SetTo(v, e) == Node("set", <<v>>, <<<<e>>>>)
If(c, a, b) == Node("if", <<>>, <<<<c>>, a, b>>)
Loop(kind, names, heads, body) == Node(kind, names, <<heads, body>>)
IfX(c, a, b) == Node("ifx", <<>>, <<<<c>>, <<a>>, b>>)
Matched(v, cases) == MatchOf("match", NoNames, v, <<>>, <<>>, cases)
CaseOf(p, names, body) == Case(p, names, body, <<>>)
CaseX(p, names, e) == Case(p, names, <<Do(e)>>, <<e>>)

Exprs1 ==
  {Call("f", <<x, One>>), Call("g", <<>>),
   Chain(x, <<"a", "case">>), FieldOf(Call("f", <<x>>), "end"), FieldOf(FieldOf(Call("f", <<x>>), "a"), "b"),
   FieldOf(Bin("add", x, y), "a"), Call("not", <<Bin("and", x, y)>>), Call("not", <<FieldOf(Call("f", <<>>), "a")>>),
   Call("new", <<Ident("Point"), One, Minus>>), Call("variant-call", <<Chain(Ident("Shape"), <<"circle">>), One>>),
   Node("try", <<>>, <<<<Call("f", <<x>>)>>>>), FieldOf(Node("try", <<>>, <<<<Call("f", <<x>>)>>>>), "a"),
   Str(<<"quote", "a", "backslash", "newline">>), Str(<<>>), Atom("FLOAT", <<"-", "2.5">>), Atom("BOOL", <<"true">>),
   Bin("sub", x, Bin("sub", y, One)), Bin("mul", Call("f", <<Bin("add", x, y)>>), Minus),
   Call("list", <<One, One>>),
   MatchOf("matchx", NoNames, x, <<>>, <<>>, <<CaseX(<<"Shape", "circle">>, <<"r">>, x), CaseX(<<"_">>, <<>>, One)>>)}

ExprsS ==
  {Node("call", <<"f", "call">>, <<<<x>>>>), Node("recv", <<>>, <<<<x>>>>), IfX(x, One, <<Minus>>), IfX(x, Call("f", <<>>), <<>>),
   Call("field", <<x>>), Call("field", <<x, y, One>>), Call("field", <<Call("f", <<>>), Ident("sub")>>),
   Node("call", <<"field", "call">>, <<<<x, Ident("a")>>>>), Bin("not", x, y),
   MatchOf("matchx", <<"v", "e", "">>, x, <<One>>, <<y>>, <<>>),
   MatchOf("matchx", <<"v", "", "option">>, x, <<One>>, <<Bin("add", x, y)>>, <<>>)}

ExprUse(e) ==
  Module(<<Fun(IntT, <<LetT("y", IntT, e), SetTo("y", e), If(e, <<Return(<<e>>)>>, <<>>), Return(<<e>>)>>)>>)
Returned(e) == Module(<<Fun(IntT, <<Return(<<e>>)>>)>>)

Stmts1 ==
  {<<Let("y", One), Do(Call("f", <<y>>))>>,
   <<If(x, <<SetTo("y", One)>>, <<Node("break", <<>>, <<>>)>>)>>,
   <<If(x, <<If(y, <<Do(Call("f", <<>>))>>, <<Do(Call("g", <<>>))>>)>>, <<>>)>>,
   <<If(x, <<If(y, <<Do(Call("f", <<>>))>>, <<>>)>>, <<Do(Call("g", <<>>))>>)>>,
   <<Loop("while", <<>>, <<Bin("lt", x, One)>>, <<Node("continue", <<>>, <<>>), Return(<<>>)>>)>>,
   <<Loop("for-range", <<"i">>, <<One, Bin("add", x, One)>>, <<Do(Call("f", <<Ident("i")>>))>>)>>,
   <<Loop("for-each", <<"i">>, <<Call("list", <<x, y>>)>>, <<>>)>>,
   <<Node("db-transaction", <<"db">>, <<<<>>, <<Do(Node("try", <<>>, <<<<Call("f", <<>>)>>>>))>>>>)>>,
   <<Matched(x, <<CaseOf(<<"some">>, <<"v">>, <<Return(<<Ident("v")>>)>>), CaseOf(<<"none">>, <<>>, <<Return(<<One>>)>>)>>)>>,
   <<Matched(x, <<CaseOf(<<"Shape", "circle">>, <<"r", "body">>, <<Do(Call("f", <<>>)), Return(<<y>>)>>), CaseOf(<<"_">>, <<>>, <<Return(<<Bin("add", x, y)>>)>>)>>)>>,
   <<Node("spawn", <<>>, <<<<Call("f", <<x>>)>>>>), Node("send", <<>>, <<<<x, One>>>>)>>}

StmtsS ==
  {<<MatchOf("match", <<"v", "e", "">>, Call("f", <<>>), <<Do(Call("g", <<>>))>>, <<SetTo("y", Ident("e"))>>, <<>>)>>,
   <<MatchOf("match", <<"v", "", "option">>, x, <<>>, <<Return(<<>>)>>, <<>>)>>,
   <<Do(Node("call", <<"f", "call">>, <<<<x>>>>)), Do(Bin("add", x, y)), Do(Chain(x, <<"a">>)), Do(x), Do(Node("recv", <<>>, <<<<x>>>>))>>,
   <<Do(IfX(x, One, <<>>)), Do(MatchOf("matchx", <<"v", "e", "">>, x, <<One>>, <<y>>, <<>>))>>}

Decls1 ==
  {<<Node("import", <<>>, <<<<Str(<<"a">>)>>>>),
     Node("struct", <<"P", "pub">>, <<<<Field("sub", IntT), Field("b", Applied("option", <<IntT>>))>>>>),
     Node("enum", <<"E", "">>, <<<<Node("variant", <<"case">>, <<<<>>>>), Node("variant", <<"b">>, <<<<Field("send", IntT), Field("w", IntT)>>>>)>>>>)>>,
   <<Fn("fn", "send", "pub", <<>>, Applied("result", <<IntT, Type("str")>>), <<>>, "e", <<Return(<<Call("f", <<Ident("e")>>)>>)>>, <<Return(<<x>>)>>),
     Fn("middleware", "auth", "", <<Field("req", Type("Request"))>>, Applied("result", <<Type("Request"), Type("Response")>>), Names("effect", <<"io">>), "", <<>>, <<Return(<<Call("ok", <<x>>)>>)>>),
     Fn("middleware", "m2", "pub", <<>>, Void, <<>>, "", <<>>, <<Do(Call("f", <<>>))>>)>>,
   <<Route(<<"GET">>, <<"slash">>, Names("use", <<"auth", "m2">>), <<Field("req", Type("Request"))>>, Type("Response"), Names("effect", <<"spawn", "db">>), "e",
           <<Do(Call("log", <<Ident("e")>>)), Return(<<Call("fail", <<>>)>>)>>, <<Return(<<Call("ok", <<>>)>>)>>),
     Node("ws-route", <<"e", "m">>, <<<<Str(<<"slash">>)>>, <<Field("c", Type("Conn"))>>, Names("effect", <<"net">>), <<Do(Call("log", <<Ident("e")>>))>>,
            <<Do(Call("join", <<>>))>>, <<Do(Call("cast", <<Ident("m")>>))>>, <<Do(Call("leave", <<>>))>>>>),
     Node("ws-route", <<"", "m">>, <<<<Str(<<"slash">>)>>, <<>>, <<>>, <<>>, <<>>, <<>>, <<>>>>)>>,
   <<Node("test", <<>>, <<<<Str(<<"t">>)>>, <<Do(Call("assert", <<x>>))>>>>)>>,
   <<>>}

Operations == {Returned(e) : e \in Bins}
Shown ==
  {ExprUse(e) : e \in Exprs1}
  \cup {Module(<<Fun(Void, s)>>) : s \in Stmts1}
  \cup {Module(<<Fun(IntT, s)>>) : s \in {t \in Stmts1 : Last(t).n = "match"}}
  \cup {Module(d) : d \in Decls1}
OnlyS == {ExprUse(e) : e \in ExprsS} \cup {Module(<<Fun(Void, s)>>) : s \in StmtsS}

(* The older forms: fields, params, returns, body, call, operators of several   *)
(* operands, branches that are expressions; and the linear syntax without the   *)
(* name of the module, colons, equals and commas.                               *)
Marks == DOMAIN Single \cup DOMAIN Double
Written(words) == Concat(words, LAMBDA w : Text(<<IF w \in Marks THEN Mark(w) ELSE IF w = "1" THEN Lexeme("int", <<w>>) ELSE Word(w)>>))
Older ==
  <<"(", "module", "main", "(", "struct", "P", "(", "fields", "(", "x", "int", ")", ")", ")",
    "(", "fn", "f", "(", "params", "(", "x", "int", ")", ")", "(", "returns", "int", ")", "(", "effects", ")",
    "(", "body", "(", "if", "x", "(", "then", "1", ")", "(", "else", "x", ")", ")", "(", "do", "(", "call", "f", "x", ")", ")",
    "(", "add", "x", "1", "x", ")", ")", ")", ")">>
OlderTree ==
  Module(<<Node("struct", <<"P", "">>, <<<<Field("x", IntT)>>>>),
           Fn("fn", "f", "", <<Field("x", IntT)>>, IntT, <<>>, "", <<>>,
              <<Do(IfX(x, One, <<x>>)), Do(Node("call", <<"f", "call">>, <<<<x>>>>)),
                Return(<<Bin("add", Bin("add", x, One), x)>>)>>)>>)
Terse ==
  <<"struct", "P", "x", "int", "end", "fn", "f", "(", "x", "int", "y", "int", ")", "int",
    "let", "z", "int", "g", "(", "x", "y", ")", "set", "x", "1", "if", "x", "==", "1", "return", "x", "else", "f", "(", ")", "end",
    "match", "z", "case", "a", "(", "v", "w", ")", "x", "case", "b", "1", "end", "end">>
TerseTree ==
  Module(<<Node("struct", <<"P", "">>, <<<<Field("x", IntT)>>>>),
           Fn("fn", "f", "", <<Field("x", IntT), Field("y", IntT)>>, IntT, <<>>, "", <<>>,
              <<LetT("z", IntT, Call("g", <<x, y>>)), SetTo("x", One),
                If(Bin("eq", x, One), <<Return(<<x>>)>>, <<Do(Call("f", <<>>))>>),
                Matched(Ident("z"), <<CaseOf(<<"a">>, <<"v", "w">>, <<Return(<<x>>)>>), CaseOf(<<"b">>, <<>>, <<Return(<<One>>)>>)>>)>>)>>)

Source(tree, text, comments) ==
  [text |-> text, comments |-> comments, meaning |-> Normal(tree), printable |-> IsPrintable(tree)]
AllSources ==
  LET canonical == {Source(t, Format(t), "none") : t \in {u \in Shown \cup OnlyS : IsPrintable(u)}}
      linear == {Source(t, LinearText(t), "none") : t \in Operations \cup Shown}
      older == {Source(OlderTree, Written(Older), c) : c \in {"none", "top", "inside"}}
      terse == {Source(TerseTree, Written(Terse), c) : c \in {"none", "inside"}}
  IN  canonical \cup linear \cup older \cup terse

(* The texts that come up: those of the sources, what Format makes of them, and *)
(* each without its last lines; and how each reads and prints.                  *)
FileName == "main"
Reprinted(texts) == {Format(module) : module \in {ParseModule(t, FileName) : t \in texts} \ {Nil}}
Texts ==
  LET written == {s.text : s \in AllSources}
      printed == Reprinted(written)
      all == written \cup printed \cup Reprinted(printed)
  IN  all \cup {HalfOf(t) : t \in all}
ReadBy(file) == [t \in Texts |-> ParseModule(t, file)]
Read == ReadBy(FileName)
ReadByServer == ReadBy("format")
Printed ==
  LET trees == Range(Read) \cup Range(ReadByServer)
  IN  [module \in trees |-> IF module = Nil THEN <<>> ELSE Format(module)]
Meant == LET read == Read IN [t \in DOMAIN read |-> Normal(read[t])]

(* The values of Editor's constants.                                            *)
SourcesUsed == LET all == AllSources IN all
ReadingUsed == LET table == Read IN table
ServerReadingUsed == LET table == ReadByServer IN table
PrintingUsed == LET table == Printed IN table
MeaningUsed == LET table == Meant IN table
================================================================================
