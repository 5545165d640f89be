--------------------------------- MODULE Parser ---------------------------------
(* The recursive descent over the parenthesised syntax: pkg/parser parser.go,   *)
(* decl.go, stmt.go, expr.go, control.go, types.go, middleware.go, websocket.go *)
(* and database.go.  A parse is a tree and the position of the next token;      *)
(* position 0 is the panic of addError, which every later step keeps: the       *)
(* module is then nil, whatever was built.                                      *)
EXTENDS Lexer

Got(at, v) == [at |-> at, v |-> v]
Abort == Got(0, Nil)

Kd(ts, i) == IF i = 0 THEN "aborted" ELSE ts[i].k
Lit(ts, i) == IF i = 0 THEN "aborted" ELSE ts[i].v[1]
Nx(ts, i) == IF i = 0 \/ i = Len(ts) THEN i ELSE i + 1
Eat(ts, i, k) == IF Kd(ts, i) = k THEN Nx(ts, i) ELSE 0
Eat2(ts, i, k, l) == Eat(ts, Eat(ts, i, k), l)
Ahead(ts, i, k) == Kd(ts, i) = "(" /\ Kd(ts, Nx(ts, i)) = k
NameAt(ts, i) == i # 0 /\ IsName(ts[i])

(* The results of P, one after the other, up to a token that stops the list.    *)
Many(ts, i, stops, P(_)) ==
  LET from[j \in 0..Len(ts)] ==
        IF Kd(ts, j) \in stops \cup {"EOF", "aborted"} THEN Got(j, <<>>)
        ELSE LET x == P(j)
                 rest == from[x.at]
             IN  Got(rest.at, <<x.v>> \o rest.v)
  IN  from[i]

(* The same up to the closing parenthesis, which is taken.                      *)
Closed(ts, i, P(_)) == LET l == Many(ts, i, {")"}, P) IN Got(Eat(ts, l.at, ")"), l.v)

--------------------------------------------------------------------------------
(* types.go                                                                     *)

RECURSIVE ParseType(_, _)
ParseType(ts, i) ==
  CASE Kd(ts, i) = "IDENT" -> Got(Nx(ts, i), Type(Lit(ts, i)))
    [] Ahead(ts, i, "IDENT") /\ Lit(ts, Nx(ts, i)) \in Constructors ->
         LET args == Closed(ts, Nx(ts, Nx(ts, i)), LAMBDA j : ParseType(ts, j))
         IN  Got(args.at, Applied(Lit(ts, Nx(ts, i)), args.v))
    [] OTHER -> Abort

--------------------------------------------------------------------------------
(* expr.go, control.go: expressions.                                            *)

RECURSIVE ParseExpression(_, _)
RECURSIVE ParseStatement(_, _)

(* A dotted name is the chain of its fields; its base is no reserved word.      *)
ParsePath(ts, i) ==
  LET segs == ts[i].v
  IN  IF LookupIdent(segs[1]) # "IDENT" \/ \E n \in 2..Len(segs) : segs[n] \in Bools THEN Abort
      ELSE Got(Nx(ts, i), Chain(Ident(segs[1]), Tail(segs)))

(* The second argument of field is a name, reserved words included.             *)
ParseCallArgs(ts, i, f) ==
  IF f # "field" THEN Closed(ts, i, LAMBDA j : ParseExpression(ts, j))
  ELSE LET base == IF Kd(ts, i) \in {")", "EOF", "aborted"} THEN Got(i, <<>>)
                   ELSE LET x == ParseExpression(ts, i) IN Got(x.at, <<x.v>>)
           named == base.v # <<>> /\ NameAt(ts, base.at)
           rest == Closed(ts, IF named THEN Nx(ts, base.at) ELSE base.at, LAMBDA j : ParseExpression(ts, j))
       IN  Got(rest.at, base.v \o (IF named THEN <<Ident(Lit(ts, base.at))>> ELSE <<>>) \o rest.v)

CallAt(ts, i, f, how) ==
  LET args == ParseCallArgs(ts, i, f) IN Got(args.at, Node("call", <<f, how>>, <<args.v>>))

(* More than two operands for add, mul, and, or: nested to the left.            *)
OperatorAt(ts, i) ==
  LET op == Lit(ts, i)
      l == ParseExpression(ts, Nx(ts, i))
      r == ParseExpression(ts, l.at)
      more == Many(ts, r.at, {")"}, LAMBDA j : ParseExpression(ts, j))
      all == IF op \in {"add", "mul", "and", "or"} THEN more ELSE Got(r.at, <<>>)
  IN  Got(Eat(ts, all.at, ")"), FoldLeft(LAMBDA x, y : Bin(op, x, y), Bin(op, l.v, r.v), all.v))

OneAt(ts, i, kind) ==
  LET e == ParseExpression(ts, i) IN Got(Eat(ts, e.at, ")"), Node(kind, <<>>, <<<<e.v>>>>))

(* An optional (else e) and the parenthesis of the if.                          *)
ElseExprAt(ts, i) ==
  LET e == ParseExpression(ts, Eat2(ts, i, "(", "else"))
  IN  IF Ahead(ts, i, "else") THEN Got(Eat(ts, Eat(ts, e.at, ")"), ")"), <<e.v>>)
      ELSE Got(Eat(ts, i, ")"), <<>>)

ParseIfExpr(ts, i) ==
  LET cond == ParseExpression(ts, Nx(ts, i))
      then == ParseExpression(ts, Eat2(ts, cond.at, "(", "then"))
      else == ElseExprAt(ts, Eat(ts, then.at, ")"))
  IN  Got(else.at, Node("ifx", <<>>, <<<<cond.v>>, <<then.v>>, else.v>>))

Ident1(ts, i) == IF Kd(ts, i) = "IDENT" THEN Lit(ts, i) ELSE ""
SkipIdent(ts, i) == IF Kd(ts, i) = "IDENT" THEN Nx(ts, i) ELSE i

(* parseSingleCase: a pattern, names, a body, whose last expression is also the *)
(* value of the case.                                                           *)
ValueOf(body) ==
  IF body = <<>> THEN <<>>
  ELSE IF Last(body).n \in {"do", "return"} THEN Last(body).c[1] ELSE <<>>

ParseSingleCase(ts, i) ==
  LET pattern == IF Kd(ts, i) \in {"PATH", "IDENT"} THEN Got(Nx(ts, i), ts[i].v) ELSE Got(0, <<>>)
      names == IF Kd(ts, pattern.at) = "("
               THEN Closed(ts, Nx(ts, pattern.at),
                           LAMBDA j : IF NameAt(ts, j) THEN Got(Nx(ts, j), Lit(ts, j)) ELSE Got(0, ""))
               ELSE Got(pattern.at, <<>>)
      One(j) == IF Kd(ts, j) = "(" THEN ParseStatement(ts, j)
                ELSE LET e == ParseExpression(ts, j) IN Got(e.at, Do(e.v))
      body == Closed(ts, names.at, One)
  IN  Got(body.at, Case(pattern.v, names.v, body.v, ValueOf(body.v)))

(* Cases up to the end of the match; the first "(case" is taken already.        *)
CasesAt(ts, i) ==
  LET first == ParseSingleCase(ts, i)
      Next(j) == ParseSingleCase(ts, Eat2(ts, j, "(", "case"))
      more == Closed(ts, first.at, Next)
  IN  Got(more.at, <<first.v>> \o more.v)

(* The branches some/none or ok/err: the first tag and its name are taken; the  *)
(* content of a branch is an expression or statements.                          *)
BranchesAt(ts, i, tag, Content(_)) ==
  LET okName == Ident1(ts, i)
      ok == Content(Eat(ts, i, "IDENT"))
      j == Eat(ts, ok.at, "(")
      named == IF Lit(ts, j) # (IF tag = "some" THEN "none" ELSE "err") THEN 0 ELSE Nx(ts, j)
      k == IF tag = "some" THEN SkipIdent(ts, named) ELSE Eat(ts, named, "IDENT")
      err == Content(k)
  IN  Got(Eat(ts, err.at, ")"),
          [names |-> <<okName, Ident1(ts, named), IF tag = "some" THEN "option" ELSE "">>,
           ok |-> ok.v, err |-> err.v])

ExprBranch(ts, i) ==
  LET e == ParseExpression(ts, i) IN Got(Eat(ts, e.at, ")"), <<e.v>>)

NoNames == <<"", "", "">>
ParseMatchExpr(ts, i) ==
  LET val == ParseExpression(ts, Nx(ts, i))
      j == Eat(ts, val.at, "(")
      tag == Lit(ts, j)
      two == BranchesAt(ts, Nx(ts, j), tag, LAMBDA k : ExprBranch(ts, k))
      cases == CasesAt(ts, Nx(ts, j))
  IN  CASE tag \in {"some", "ok"} ->
             Got(two.at, MatchOf("matchx", two.v.names, val.v, two.v.ok, two.v.err, <<>>))
        [] tag = "case" -> Got(cases.at, MatchOf("matchx", NoNames, val.v, <<>>, <<>>, cases.v))
        [] OTHER -> Abort

ParseCompound(ts, i) ==
  LET k == Kd(ts, i)
      j == Nx(ts, i)
  IN  CASE k = "call" -> IF Kd(ts, j) = "IDENT" THEN CallAt(ts, Nx(ts, j), Lit(ts, j), "call") ELSE Abort
        [] k \in {"try", "recv"} -> OneAt(ts, j, k)
        [] IsOperator(k) -> OperatorAt(ts, i)
        [] k = "if" -> ParseIfExpr(ts, i)
        [] k = "match" -> ParseMatchExpr(ts, i)
        [] k = "IDENT" -> CallAt(ts, j, Lit(ts, i), "")
        [] OTHER -> Abort

ParseExpression(ts, i) ==
  LET k == Kd(ts, i)
  IN  CASE k \in {"INT", "FLOAT", "BOOL", "STRING", "IDENT"} -> Got(Nx(ts, i), Atom(k, ts[i].v))
        [] k = "PATH" -> ParsePath(ts, i)
        [] k = "(" -> ParseCompound(ts, Nx(ts, i))
        [] OTHER -> Abort

--------------------------------------------------------------------------------
(* stmt.go, control.go, database.go: statements.                                *)

Statements(ts, i) == Closed(ts, i, LAMBDA j : ParseStatement(ts, j))

ParseLoop(ts, i) ==
  LET kind == Kd(ts, i)
      j == Nx(ts, i)
      name == IF kind = "while" THEN <<>> ELSE <<Lit(ts, j)>>
      first == ParseExpression(ts, IF kind = "while" THEN j ELSE Eat(ts, j, "IDENT"))
      second == ParseExpression(ts, first.at)
      heads == IF kind = "for-range" THEN Got(second.at, <<first.v, second.v>>) ELSE Got(first.at, <<first.v>>)
      body == Statements(ts, heads.at)
  IN  Got(body.at, Node(kind, name, <<heads.v, body.v>>))

ParseDBTransaction(ts, i) ==
  LET body == Statements(ts, Eat(ts, i, "IDENT"))
  IN  Got(body.at, Node("db-transaction", <<Lit(ts, i)>>, <<<<>>, body.v>>))

(* An explicit type when a name is followed by more, or at a type constructor.  *)
ParseLetStmt(ts, i) ==
  LET j == Eat(ts, i, "IDENT")
      typed == \/ Kd(ts, j) = "IDENT" /\ Kd(ts, Nx(ts, j)) # ")"
               \/ Kd(ts, j) = "(" /\ Lit(ts, Nx(ts, j)) \in Constructors
      t == IF typed THEN ParseType(ts, j) ELSE Got(j, Nil)
      val == ParseExpression(ts, t.at)
  IN  Got(Eat(ts, val.at, ")"), Node("let", <<Lit(ts, i)>>, <<IF typed THEN <<t.v>> ELSE <<>>, <<val.v>>>>))

ParseSetStmt(ts, i) ==
  LET val == ParseExpression(ts, Eat(ts, i, "IDENT"))
  IN  Got(Eat(ts, val.at, ")"), Node("set", <<Lit(ts, i)>>, <<<<val.v>>>>))

ParseReturnStmt(ts, i) ==
  LET val == ParseExpression(ts, i)
  IN  IF Kd(ts, i) = ")" THEN Got(Nx(ts, i), Return(<<>>)) ELSE Got(Eat(ts, val.at, ")"), Return(<<val.v>>))

ElseAt(ts, i) ==
  LET els == Statements(ts, Eat2(ts, i, "(", "else"))
  IN  IF Ahead(ts, i, "else") THEN Got(Eat(ts, els.at, ")"), els.v) ELSE Got(Eat(ts, i, ")"), <<>>)

(* A branch that does not begin with "(" makes it an expression.                *)
ParseIfStmt(ts, i) ==
  LET cond == ParseExpression(ts, i)
      j == Eat2(ts, cond.at, "(", "then")
      value == ParseExpression(ts, j)
      orElse == ElseExprAt(ts, Eat(ts, value.at, ")"))
      then == Statements(ts, j)
      els == ElseAt(ts, then.at)
  IN  IF Kd(ts, j) # "("
      THEN Got(orElse.at, Do(Node("ifx", <<>>, <<<<cond.v>>, <<value.v>>, orElse.v>>)))
      ELSE Got(els.at, Node("if", <<>>, <<<<cond.v>>, then.v, els.v>>))

(* A branch whose content begins with neither parenthesis is an expression.     *)
ParseMatch(ts, i) ==
  LET val == ParseExpression(ts, i)
      j == Eat(ts, val.at, "(")
      tag == Lit(ts, j)
      n == Nx(ts, j)
      exprs == Kd(ts, Nx(ts, n)) \notin {"(", ")"}
      values == BranchesAt(ts, n, tag, LAMBDA k : ExprBranch(ts, k))
      blocks == BranchesAt(ts, n, tag, LAMBDA k : Statements(ts, k))
      cases == CasesAt(ts, n)
  IN  CASE tag \in {"some", "ok"} /\ exprs ->
             Got(values.at, Do(MatchOf("matchx", values.v.names, val.v, values.v.ok, values.v.err, <<>>)))
        [] tag \in {"some", "ok"} /\ ~exprs ->
             Got(blocks.at, MatchOf("match", blocks.v.names, val.v, blocks.v.ok, blocks.v.err, <<>>))
        [] tag = "case" -> Got(cases.at, MatchOf("match", NoNames, val.v, <<>>, <<>>, cases.v))
        [] OTHER -> Abort

ParseSpawnStmt(ts, i) ==
  LET e == ParseExpression(ts, i)
  IN  IF e.v.n = "call" THEN Got(Eat(ts, e.at, ")"), Node("spawn", <<>>, <<<<e.v>>>>)) ELSE Abort

ParseSendStmt(ts, i) ==
  LET ch == ParseExpression(ts, i)
      val == ParseExpression(ts, ch.at)
  IN  Got(Eat(ts, val.at, ")"), Node("send", <<>>, <<<<ch.v, val.v>>>>))

Doing(r) == Got(r.at, Do(r.v))
(* A call that is a statement reads all its arguments as expressions.           *)
StatementCall(ts, i, f, how) ==
  LET args == Closed(ts, i, LAMBDA j : ParseExpression(ts, j))
  IN  Got(args.at, Do(Node("call", <<f, how>>, <<args.v>>)))

ParseStatement(ts, i) ==
  LET s == Eat(ts, i, "(")
      k == Kd(ts, s)
      j == Nx(ts, s)
  IN  CASE k \in {"while", "for-range", "for-each"} -> ParseLoop(ts, s)
        [] k \in {"break", "continue"} -> Got(Eat(ts, j, ")"), Node(k, <<>>, <<>>))
        [] k = "match" -> ParseMatch(ts, j)
        [] k = "db-transaction" -> ParseDBTransaction(ts, j)
        [] k = "let" -> ParseLetStmt(ts, j)
        [] k = "set" -> ParseSetStmt(ts, j)
        [] k = "return" -> ParseReturnStmt(ts, j)
        [] k = "if" -> ParseIfStmt(ts, j)
        [] k = "spawn" -> ParseSpawnStmt(ts, j)
        [] k = "send" -> ParseSendStmt(ts, j)
        [] k = "do" -> OneAt(ts, j, "do")
        [] k = "try" -> Doing(OneAt(ts, j, "try"))
        [] k = "call" -> IF Kd(ts, j) = "IDENT" THEN StatementCall(ts, Nx(ts, j), Lit(ts, j), "call") ELSE Abort
        [] k = "IDENT" -> StatementCall(ts, j, Lit(ts, s), "")
        [] IsOperator(k) -> Doing(OperatorAt(ts, s))
        [] OTHER -> Abort

--------------------------------------------------------------------------------
(* decl.go, middleware.go, websocket.go: declarations, after their "(".         *)

ParseImport(ts, i) ==
  Got(Eat2(ts, i, "STRING", ")"), Node("import", <<>>, <<<<Atom("STRING", ts[i].v)>>>>))

(* parseField and parseSingleParam: (name type).                                *)
PairAt(ts, i, reserved) ==
  LET j == Eat(ts, i, "(")
      t == ParseType(ts, IF Kd(ts, j) = "IDENT" \/ (reserved /\ NameAt(ts, j)) THEN Nx(ts, j) ELSE 0)
  IN  Got(Eat(ts, t.at, ")"), Field(Lit(ts, j), t.v))

Fields(ts, i) == Closed(ts, i, LAMBDA j : PairAt(ts, j, TRUE))

ParseStruct(ts, i, pub) ==
  LET j == Eat(ts, i, "IDENT")
      tagged == Ahead(ts, j, "fields")
      fs == Fields(ts, IF tagged THEN Nx(ts, Nx(ts, j)) ELSE j)
  IN  Got(IF tagged THEN Eat(ts, fs.at, ")") ELSE fs.at, Node("struct", <<Lit(ts, i), pub>>, <<fs.v>>))

ParseEnum(ts, i, pub) ==
  LET Variant(j) == LET fs == Fields(ts, Nx(ts, Nx(ts, j)))
                    IN  CASE Kd(ts, j) = "(" /\ NameAt(ts, Nx(ts, j)) ->
                               Got(fs.at, Node("variant", <<Lit(ts, Nx(ts, j))>>, <<fs.v>>))
                          [] NameAt(ts, j) -> Got(Nx(ts, j), Node("variant", <<Lit(ts, j)>>, <<<<>>>>))
                          [] OTHER -> Abort
      vs == Closed(ts, Eat(ts, i, "IDENT"), Variant)
  IN  Got(vs.at, Node("enum", <<Lit(ts, i), pub>>, <<vs.v>>))

ParseParams(ts, i) ==
  LET j == Eat(ts, i, "(")
  IN  Closed(ts, IF Kd(ts, j) = "params" THEN Nx(ts, j) ELSE j, LAMBDA k : PairAt(ts, k, FALSE))

ParseReturns(ts, i) ==
  LET t == ParseType(ts, Nx(ts, Nx(ts, i)))
  IN  IF Ahead(ts, i, "returns") THEN Got(Eat(ts, t.at, ")"), t.v) ELSE ParseType(ts, i)

ParseEffects(ts, i) ==
  LET One(j) == IF Kd(ts, j) \in {"IDENT", "spawn"} THEN Got(Nx(ts, j), Atom("effect", <<Lit(ts, j)>>)) ELSE Abort
  IN  IF Ahead(ts, i, "effects") THEN Closed(ts, Nx(ts, Nx(ts, i)), One) ELSE Got(i, <<>>)

(* (tag [name] statements), or nothing.                                         *)
BlockAt(ts, i, tag, named) ==
  LET j == Nx(ts, Nx(ts, i))
      body == Statements(ts, IF named THEN Eat(ts, j, "IDENT") ELSE j)
  IN  IF Ahead(ts, i, tag) THEN Got(body.at, [name |-> IF named THEN Lit(ts, j) ELSE "", body |-> body.v])
      ELSE Got(i, [name |-> "", body |-> <<>>])

(* The last expression of a function with a result is what it returns.          *)
ImplicitReturn(body, ret) ==
  IF ret = Void \/ body = <<>> \/ Last(body).n # "do" THEN body
  ELSE Front(body) \o <<Return(Last(body).c[1])>>

(* A body and the parenthesis of its function; (body ...) is the older form.    *)
BodyAt(ts, i, ret) ==
  LET tagged == Ahead(ts, i, "body")
      b == Statements(ts, IF tagged THEN Nx(ts, Nx(ts, i)) ELSE i)
  IN  Got(IF tagged THEN Eat(ts, b.at, ")") ELSE b.at, ImplicitReturn(b.v, ret))

ParseFunc(ts, i, kind, pub) ==
  LET params == ParseParams(ts, IF NameAt(ts, i) THEN Nx(ts, i) ELSE 0)
      ret == ParseReturns(ts, params.at)
      effects == ParseEffects(ts, ret.at)
      onErr == BlockAt(ts, effects.at, "on-err", TRUE)
      body == BodyAt(ts, onErr.at, ret.v)
  IN  Got(body.at, Fn(kind, Lit(ts, i), pub, params.v, ret.v, effects.v, onErr.v.name, onErr.v.body, body.v))

ParseWith(ts, i) ==
  LET One(j) == IF Kd(ts, j) = "IDENT" THEN Got(Nx(ts, j), Atom("use", <<Lit(ts, j)>>)) ELSE Abort
      names == Closed(ts, Nx(ts, Nx(ts, i)), One)
  IN  IF Ahead(ts, i, "IDENT") /\ Lit(ts, Nx(ts, i)) = "with"
      THEN (IF names.v = <<>> THEN Got(0, <<>>) ELSE names) ELSE Got(i, <<>>)

ParseRoute(ts, i) ==
  LET j == Eat(ts, i, "IDENT")
      with == ParseWith(ts, Eat(ts, j, "STRING"))
      params == ParseParams(ts, with.at)
      ret == ParseReturns(ts, params.at)
      effects == ParseEffects(ts, ret.at)
      onErr == BlockAt(ts, effects.at, "on-err", TRUE)
      body == BodyAt(ts, onErr.at, ret.v)
  IN  Got(body.at, Route(ts[i].v, IF j = 0 THEN <<>> ELSE ts[j].v, with.v, params.v, ret.v, effects.v,
                         onErr.v.name, onErr.v.body, body.v))

ParseWSRoute(ts, i) ==
  LET params == ParseParams(ts, Eat(ts, i, "STRING"))
      effects == ParseEffects(ts, params.at)
      onErr == BlockAt(ts, effects.at, "on-err", TRUE)
      onOpen == BlockAt(ts, onErr.at, "on-open", FALSE)
      onMessage == BlockAt(ts, IF Ahead(ts, onOpen.at, "on-message") THEN onOpen.at ELSE 0, "on-message", TRUE)
      onClose == BlockAt(ts, onMessage.at, "on-close", FALSE)
  IN  Got(Eat(ts, onClose.at, ")"),
          Node("ws-route", <<onErr.v.name, onMessage.v.name>>,
               <<<<Atom("STRING", ts[i].v)>>, params.v, effects.v, onErr.v.body, onOpen.v.body,
                 onMessage.v.body, onClose.v.body>>))

(* The older (body ...) of a test expects a second parenthesis: it never parses. *)
ParseTestDecl(ts, i) ==
  LET j == Eat(ts, i, "STRING")
      b == Statements(ts, IF Ahead(ts, j, "body") THEN 0 ELSE j)
  IN  Got(b.at, Node("test", <<>>, <<<<Atom("STRING", ts[i].v)>>, b.v>>))

IsMiddlewareKeyword(ts, i) == Kd(ts, i) = "IDENT" /\ Lit(ts, i) = "middleware"

ParseTopLevel(ts, i) ==
  LET s == Eat(ts, i, "(")
      isPub == Kd(ts, s) = "pub"
      pub == IF isPub THEN "pub" ELSE ""
      d == IF isPub THEN Nx(ts, s) ELSE s
      k == Kd(ts, d)
      j == Nx(ts, d)
  IN  CASE IsMiddlewareKeyword(ts, d) -> ParseFunc(ts, j, "middleware", pub)
        [] k = "fn" -> ParseFunc(ts, j, "fn", pub)
        [] k = "struct" -> ParseStruct(ts, j, pub)
        [] k = "enum" -> ParseEnum(ts, j, pub)
        [] ~isPub /\ k = "import" -> ParseImport(ts, j)
        [] ~isPub /\ k = "route" -> ParseRoute(ts, j)
        [] ~isPub /\ k = "ws-route" -> ParseWSRoute(ts, j)
        [] ~isPub /\ k = "test" -> ParseTestDecl(ts, j)
        [] OTHER -> Abort

(* What follows the parenthesis of the module is not looked at.                 *)
ParseSExprModule(ts) ==
  LET ds == Closed(ts, IF NameAt(ts, 3) THEN 4 ELSE 0, LAMBDA i : ParseTopLevel(ts, i))
  IN  Got(ds.at, Node("module", <<Lit(ts, 3)>>, <<ds.v>>))
================================================================================
