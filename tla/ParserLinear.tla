------------------------------ MODULE ParserLinear ------------------------------
(* pkg/parser linear.go: the syntax without parentheses, of blocks that end with *)
(* "end", and of operators by precedence; and ParseModule, which chooses.       *)
EXTENDS Parser

RECURSIVE LinearExpression(_, _, _)
RECURSIVE LinearStatement(_, _)

Skip(ts, i, k) == IF Kd(ts, i) = k THEN Nx(ts, i) ELSE i

(* Statements up to one of stops; up to "end", which is taken.                  *)
LinearUntil(ts, i, stops) == Many(ts, i, stops, LAMBDA j : LinearStatement(ts, j))
LinearBlock(ts, i) == LET b == LinearUntil(ts, i, {"end"}) IN Got(Eat(ts, b.at, "end"), b.v)

--------------------------------------------------------------------------------
(* Expressions.                                                                 *)

Precedence(k) ==
  CASE k = "or" -> 1
    [] k = "and" -> 2
    [] k \in {"eq", "neq", "lt", "lte", "gt", "gte"} -> 3
    [] k \in {"add", "sub"} -> 4
    [] k \in {"mul", "div"} -> 5
    [] OTHER -> 0

(* Arguments up to the parenthesis; a comma after each is optional.             *)
LinearArgs(ts, i) ==
  LET One(j) == LET e == LinearExpression(ts, j, 0) IN Got(Skip(ts, e.at, ","), e.v)
  IN  Closed(ts, i, One)

RECURSIVE PostfixFieldAccess(_, _)
PostfixFieldAccess(ts, base) ==
  LET i == Nx(ts, base.at)
  IN  IF Kd(ts, base.at) # "." THEN base
      ELSE PostfixFieldAccess(ts,
             CASE Kd(ts, i) = "PATH" -> Got(Nx(ts, i), Chain(base.v, ts[i].v))
               [] NameAt(ts, i) -> Got(Nx(ts, i), FieldOf(base.v, Lit(ts, i)))
               [] OTHER -> Abort)

(* case PATTERN [(names)] statements, up to the next case or the end; the value *)
(* of a case of an expression is its last expression.                           *)
LinearCase(ts, i, asExpr) ==
  LET c == Eat(ts, i, "case")
      pattern == IF Kd(ts, c) \in {"PATH", "IDENT"} THEN Got(Nx(ts, c), ts[c].v) ELSE Got(0, <<>>)
      Name(j) == IF NameAt(ts, j) THEN Got(Skip(ts, Nx(ts, j), ","), Lit(ts, j)) ELSE Got(0, "")
      names == IF Kd(ts, pattern.at) = "(" THEN Closed(ts, Nx(ts, pattern.at), Name) ELSE Got(pattern.at, <<>>)
      body == LinearUntil(ts, names.at, {"case", "end"})
  IN  Got(body.at, Case(pattern.v, names.v, body.v, IF asExpr THEN ValueOf(body.v) ELSE <<>>))

(* Two cases some/none or ok/err are also the two branches of the older form.   *)
BranchesOf(cases, Content(_)) ==
  LET PatternOf(n) == cases[n].c[1][1].s
      FirstName(n) == IF cases[n].s = <<>> THEN "" ELSE cases[n].s[1]
      option == PatternOf(1) = <<"some">> /\ PatternOf(2) = <<"none">>
      result == PatternOf(1) = <<"ok">> /\ PatternOf(2) = <<"err">>
  IN  IF Len(cases) = 2 /\ (option \/ result)
      THEN [names |-> <<FirstName(1), FirstName(2), IF option THEN "option" ELSE "">>,
            ok |-> Content(cases[1]), err |-> Content(cases[2])]
      ELSE [names |-> NoNames, ok |-> <<>>, err |-> <<>>]

LinearMatch(ts, i, asExpr) ==
  LET val == LinearExpression(ts, Nx(ts, i), 0)
      cases == Many(ts, val.at, {"end"}, LAMBDA j : LinearCase(ts, j, asExpr))
      two == BranchesOf(cases.v, LAMBDA c : c.c[IF asExpr THEN 3 ELSE 2])
  IN  Got(Eat(ts, cases.at, "end"),
          MatchOf(IF asExpr THEN "matchx" ELSE "match", two.names, val.v, two.ok, two.err, cases.v))

RECURSIVE LinearPrimary(_, _)

LinearPrimaryBase(ts, i) ==
  LET k == Kd(ts, i)
      j == Nx(ts, i)
      path == ParsePath(ts, i)
      sub == LinearPrimary(ts, j)
      typed == k = "IDENT" /\ Lit(ts, i) = "new" /\ Kd(ts, j) = "IDENT"
      inner == LinearExpression(ts, j, 0)
      (* A name, and the arguments of the call when a parenthesis follows.      *)
      Called(at, alone, f, before) ==
        LET args == LinearArgs(ts, Nx(ts, at))
        IN  IF Kd(ts, at) = "(" THEN Got(args.at, Call(f, before \o args.v)) ELSE Got(at, alone)
  IN  CASE k \in {"INT", "FLOAT", "BOOL", "STRING"} -> Got(j, Atom(k, ts[i].v))
        [] k = "PATH" -> Called(path.at, path.v, "variant-call", <<path.v>>)
        [] k = "match" -> LinearMatch(ts, i, TRUE)
        [] k = "try" -> Got(sub.at, Node("try", <<>>, <<<<sub.v>>>>))
        [] k = "not" -> Got(sub.at, Call("not", <<sub.v>>))
        [] typed -> LET T == <<Ident(Lit(ts, j))>> IN Called(Nx(ts, j), Call("new", T), "new", T)
        [] k = "IDENT" /\ ~typed -> Called(j, Ident(Lit(ts, i)), Lit(ts, i), <<>>)
        [] k = "(" -> Got(Eat(ts, inner.at, ")"), inner.v)
        [] OTHER -> Abort

LinearPrimary(ts, i) == PostfixFieldAccess(ts, LinearPrimaryBase(ts, i))

(* Mutant: an operator of the same precedence is taken too: right-associative.  *)
RECURSIVE ClimbRight(_, _, _)
ClimbRight(ts, left, min) ==
  LET prec == Precedence(Kd(ts, left.at))
      right == LinearExpression(ts, Nx(ts, left.at), prec - 1)
  IN  IF prec <= min THEN left
      ELSE ClimbRight(ts, Got(right.at, Bin(Lit(ts, left.at), left.v, right.v)), min)

(* Operators that bind tighter than min, each with the operand at its right.    *)
RECURSIVE Climb(_, _, _)
Climb(ts, left, min) ==
  LET prec == Precedence(Kd(ts, left.at))
      right == LinearExpression(ts, Nx(ts, left.at), prec)
  IN  IF prec <= min THEN left
      ELSE Climb(ts, Got(right.at, Bin(Lit(ts, left.at), left.v, right.v)), min)

LinearExpression(ts, i, min) == Climb(ts, LinearPrimary(ts, i), min)

--------------------------------------------------------------------------------
(* Statements.                                                                  *)

(* let name [[:] type] [=] value                                                *)
LinearLet(ts, i) ==
  LET j == Eat(ts, i, "IDENT")
      typed == Kd(ts, j) # "="
      t == IF typed THEN ParseType(ts, Skip(ts, j, ":")) ELSE Got(j, Nil)
      val == LinearExpression(ts, Skip(ts, t.at, "="), 0)
  IN  Got(val.at, Node("let", <<Lit(ts, i)>>, <<IF typed THEN <<t.v>> ELSE <<>>, <<val.v>>>>))

LinearSet(ts, i) ==
  LET val == LinearExpression(ts, Skip(ts, Eat(ts, i, "IDENT"), "="), 0)
  IN  Got(val.at, Node("set", <<Lit(ts, i)>>, <<<<val.v>>>>))

(* A return has no value only before end, else or the end of the file.          *)
LinearReturn(ts, i) ==
  LET val == LinearExpression(ts, i, 0)
  IN  IF Kd(ts, i) \in {"end", "else", "EOF"} THEN Got(i, Return(<<>>)) ELSE Got(val.at, Return(<<val.v>>))

LinearIf(ts, i) ==
  LET cond == LinearExpression(ts, i, 0)
      then == LinearUntil(ts, Skip(ts, cond.at, "then"), {"else", "end"})
      els == IF Kd(ts, then.at) = "else" THEN LinearUntil(ts, Nx(ts, then.at), {"end"}) ELSE Got(then.at, <<>>)
  IN  Got(Eat(ts, els.at, "end"), Node("if", <<>>, <<<<cond.v>>, then.v, els.v>>))

LinearLoop(ts, i) ==
  LET kind == Kd(ts, i)
      j == Nx(ts, i)
      first == LinearExpression(ts, IF kind = "while" THEN j ELSE Eat(ts, j, "IDENT"), 0)
      second == LinearExpression(ts, first.at, 0)
      heads == IF kind = "for-range" THEN Got(second.at, <<first.v, second.v>>) ELSE Got(first.at, <<first.v>>)
      body == LinearBlock(ts, heads.at)
  IN  Got(body.at, Node(kind, IF kind = "while" THEN <<>> ELSE <<Lit(ts, j)>>, <<heads.v, body.v>>))

LinearDBTransaction(ts, i) ==
  LET body == LinearBlock(ts, Eat(ts, i, "IDENT"))
  IN  Got(body.at, Node("db-transaction", <<Lit(ts, i)>>, <<<<>>, body.v>>))

LinearStatement(ts, i) ==
  LET k == Kd(ts, i)
      j == Nx(ts, i)
  IN  CASE k = "(" -> ParseStatement(ts, i)
        [] k = "let" -> LinearLet(ts, j)
        [] k = "set" -> LinearSet(ts, j)
        [] k = "return" -> LinearReturn(ts, j)
        [] k = "if" -> LinearIf(ts, j)
        [] k = "match" -> LinearMatch(ts, i, FALSE)
        [] k \in {"while", "for-range", "for-each"} -> LinearLoop(ts, i)
        [] k \in {"break", "continue"} -> Got(j, Node(k, <<>>, <<>>))
        [] k = "db-transaction" -> LinearDBTransaction(ts, j)
        [] OTHER -> Doing(LinearExpression(ts, i, 0))

--------------------------------------------------------------------------------
(* Declarations, after their keyword.                                           *)

(* name [:] type [,] up to a closing token, which is taken.                     *)
LinearFields(ts, i, close, reserved) ==
  LET One(j) == LET named == Kd(ts, j) = "IDENT" \/ (reserved /\ NameAt(ts, j))
                    t == ParseType(ts, IF named THEN Skip(ts, Nx(ts, j), ":") ELSE 0)
                IN  Got(Skip(ts, t.at, ","), Field(Lit(ts, j), t.v))
      fs == Many(ts, i, {close}, One)
  IN  Got(Eat(ts, fs.at, close), fs.v)

LinearStruct(ts, i, pub) ==
  LET fs == LinearFields(ts, Eat(ts, i, "IDENT"), "end", TRUE)
  IN  Got(fs.at, Node("struct", <<Lit(ts, i), pub>>, <<fs.v>>))

LinearEnum(ts, i, pub) ==
  LET Variant(j) ==
        LET n == IF NameAt(ts, j) THEN Nx(ts, j) ELSE 0
            fs == IF Kd(ts, n) = "(" THEN LinearFields(ts, Nx(ts, n), ")", TRUE) ELSE Got(n, <<>>)
        IN  Got(Skip(ts, fs.at, ","), Node("variant", <<Lit(ts, j)>>, <<fs.v>>))
      vs == Many(ts, Eat(ts, i, "IDENT"), {"end"}, Variant)
  IN  Got(Eat(ts, vs.at, "end"), Node("enum", <<Lit(ts, i), pub>>, <<vs.v>>))

LinearParams(ts, i) == LinearFields(ts, Eat(ts, i, "("), ")", FALSE)

(* The result type is there when a name or a type constructor follows.          *)
LinearResult(ts, i) ==
  IF Kd(ts, i) = "IDENT" \/ (Kd(ts, i) = "(" /\ Lit(ts, Nx(ts, i)) \in Constructors)
  THEN ParseType(ts, i) ELSE Got(i, Void)

LinearEffects(ts, i) ==
  LET One(j) == IF Kd(ts, j) \in {"IDENT", "spawn"}
                THEN Got(Skip(ts, Nx(ts, j), ","), Atom("effect", <<Lit(ts, j)>>)) ELSE Abort
  IN  IF Kd(ts, i) = "effects" THEN Closed(ts, Eat(ts, Nx(ts, i), "("), One) ELSE Got(i, <<>>)

LinearOnErr(ts, i, ret) ==
  LET j == Nx(ts, i)
      body == LinearBlock(ts, Eat(ts, j, "IDENT"))
  IN  IF Kd(ts, i) = "on-err"
      THEN Got(body.at, [name |-> Lit(ts, j), body |-> ImplicitReturn(body.v, ret)])
      ELSE Got(i, [name |-> "", body |-> <<>>])

(* The result of a function: its last expression, or that of every case of a    *)
(* match; the branches share their statements with the cases.                   *)
LinearImplicit(body, ret) ==
  IF ret = Void \/ body = <<>> \/ Last(body).n # "match" THEN ImplicitReturn(body, ret)
  ELSE LET m == Last(body)
           OfCase(c) == [c EXCEPT !.c[2] = ImplicitReturn(@, ret)]
           cases == [n \in 1..Len(m.c[4]) |-> OfCase(m.c[4][n])]
       IN  Front(body) \o <<[m EXCEPT !.c[2] = ImplicitReturn(@, ret), !.c[3] = ImplicitReturn(@, ret), !.c[4] = cases]>>

(* Parameters, result, effects, on-err and body, common to functions and routes. *)
LinearSignature(ts, i) ==
  LET params == LinearParams(ts, i)
      ret == LinearResult(ts, params.at)
      effects == LinearEffects(ts, ret.at)
      onErr == LinearOnErr(ts, effects.at, ret.v)
      body == LinearBlock(ts, onErr.at)
  IN  Got(body.at, [params |-> params.v, ret |-> ret.v, effects |-> effects.v, var |-> onErr.v.name,
                    onErr |-> onErr.v.body, body |-> LinearImplicit(body.v, ret.v)])

LinearFunc(ts, i, kind, pub) ==
  LET f == LinearSignature(ts, IF NameAt(ts, i) THEN Nx(ts, i) ELSE 0)
  IN  Got(f.at, Fn(kind, Lit(ts, i), pub, f.v.params, f.v.ret, f.v.effects, f.v.var, f.v.onErr, f.v.body))

LinearWith(ts, i) ==
  LET One(j) == IF Kd(ts, j) = "IDENT" THEN Got(Skip(ts, Nx(ts, j), ","), Atom("use", <<Lit(ts, j)>>)) ELSE Abort
      names == Closed(ts, Nx(ts, Nx(ts, i)), One)
  IN  CASE ~(Kd(ts, i) = "IDENT" /\ Lit(ts, i) = "with" /\ Kd(ts, Nx(ts, i)) = "(") -> Got(i, <<>>)
        [] OTHER -> IF names.v = <<>> THEN Got(0, <<>>) ELSE names

LinearRoute(ts, i) ==
  LET j == Eat(ts, i, "IDENT")
      with == LinearWith(ts, Eat(ts, j, "STRING"))
      r == LinearSignature(ts, with.at)
  IN  Got(r.at, Route(ts[i].v, IF j = 0 THEN <<>> ELSE ts[j].v, with.v, r.v.params, r.v.ret, r.v.effects,
                      r.v.var, r.v.onErr, r.v.body))

(* The blocks come in any order; one that is repeated adds to the first.        *)
LinearWSRoute(ts, i) ==
  LET params == LinearParams(ts, Eat(ts, i, "STRING"))
      effects == LinearEffects(ts, params.at)
      One(j) == LET k == Kd(ts, j)
                    named == k \in {"on-err", "on-message"}
                    b == LinearBlock(ts, IF named THEN Eat(ts, Nx(ts, j), "IDENT") ELSE Nx(ts, j))
                IN  IF k \in {"on-err", "on-open", "on-message", "on-close"}
                    THEN Got(b.at, [tag |-> k, name |-> IF named THEN Lit(ts, Nx(ts, j)) ELSE "", body |-> b.v])
                    ELSE Got(0, [tag |-> k, name |-> "", body |-> <<>>])
      blocks == Many(ts, effects.at, {"end"}, One)
      Of(tag) == SelectSeq(blocks.v, LAMBDA b : b.tag = tag)
      Body(tag) == FoldLeft(LAMBDA acc, b : acc \o b.body, <<>>, Of(tag))
      Name(tag) == IF Of(tag) = <<>> THEN "" ELSE Last(Of(tag)).name
  IN  Got(Eat(ts, blocks.at, "end"),
          Node("ws-route", <<Name("on-err"), Name("on-message")>>,
               <<<<Atom("STRING", ts[i].v)>>, params.v, effects.v, Body("on-err"), Body("on-open"),
                 Body("on-message"), Body("on-close")>>))

LinearTest(ts, i) ==
  LET b == LinearBlock(ts, Eat(ts, i, "STRING"))
  IN  Got(b.at, Node("test", <<>>, <<<<Atom("STRING", ts[i].v)>>, b.v>>))

LinearTopLevel(ts, i) ==
  LET isPub == Kd(ts, i) = "pub"
      pub == IF isPub THEN "pub" ELSE ""
      d == IF isPub THEN Nx(ts, i) ELSE i
      k == Kd(ts, d)
      j == Nx(ts, d)
  IN  CASE IsMiddlewareKeyword(ts, d) -> LinearFunc(ts, j, "middleware", pub)
        [] k = "struct" -> LinearStruct(ts, j, pub)
        [] k = "enum" -> LinearEnum(ts, j, pub)
        [] k = "fn" -> LinearFunc(ts, j, "fn", pub)
        [] ~isPub /\ k = "import" -> Got(Eat(ts, j, "STRING"), Node("import", <<>>, <<<<Atom("STRING", ts[j].v)>>>>))
        [] ~isPub /\ k = "route" -> LinearRoute(ts, j)
        [] ~isPub /\ k = "ws-route" -> LinearWSRoute(ts, j)
        [] ~isPub /\ k = "test" -> LinearTest(ts, j)
        [] ~isPub /\ k = "(" -> ParseTopLevel(ts, d)
        [] OTHER -> Abort

(* Declarations up to the end of the file; the module is named after its file   *)
(* when the text does not name it.                                              *)
ParseLinearModule(ts, file) ==
  LET named == Kd(ts, 1) = "module"
      start == IF ~named THEN 1 ELSE IF NameAt(ts, 2) THEN 3 ELSE 0
      ds == Many(ts, start, {}, LAMBDA i : LinearTopLevel(ts, i))
  IN  Got(ds.at, Node("module", <<IF named THEN Lit(ts, 2) ELSE file>>, <<ds.v>>))

(* Nil when the parser gives up.                                                *)
ParseModule(text, file) ==
  LET ts == NextTokens(text)
      m == IF Ahead(ts, 1, "module") THEN ParseSExprModule(ts) ELSE ParseLinearModule(ts, file)
  IN  IF m.at = 0 THEN Nil ELSE m.v
================================================================================
