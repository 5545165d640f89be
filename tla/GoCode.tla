--------------------------------- MODULE GoCode ---------------------------------
(* pkg/codegen: the Go of the functions, routes and tests of a checked module.  *)
(* Go is written in trees too: those of the source, and                         *)
(*   gocall     a call of a Go function,                                        *)
(*   guard      a result under a name, and the way out if it is an error,       *)
(*   value      what a guarded result holds,                                    *)
(*   valueOf    what a result holds, without a look at whether it is an error,  *)
(*   switch     on the variants of an enum, and switchx, which is an expression,*)
(*   panic.                                                                     *)
EXTENDS Syntax

(* The generator: module is g.curModule, onErr g.curOnErrVar, ret g.curRetType  *)
(* (Nil in a test), code the statements of the block that is being written.     *)
NewGenerator(root, decls, enums, types) ==
  [root |-> root, decls |-> decls, enums |-> enums, types |-> types,
   unit |-> 0, module |-> "", onErr |-> "", ret |-> Nil, serial |-> 0, code |-> <<>>]
Emit(g, s) == [g EXCEPT !.code = Append(@, s)]

--------------------------------------------------------------------------------
(* Names.  A private function of a module that is not the root's is named after *)
(* its module.                                                                  *)

IsFunc(d) == d.tree.n \in {"fn", "middleware"}
IsMangled(g, d) == IsFunc(d) /\ d.tree.s[2] # "pub" /\ d.tree.s[1] # "main" /\ d.module # g.root
FuncIdent(g, d) == IF IsMangled(g, d) THEN <<d.module, d.tree.s[1]>> ELSE <<"", d.tree.s[1]>>
(* Mutant: a private function of any module is what a call names.               *)
CallIdentAnyModule(g, f) ==
  LET mangled == {d \in ToSet(g.decls) : IsMangled(g, d) /\ d.tree.s[1] = f}
  IN  IF mangled # {} THEN <<(CHOOSE d \in mangled : TRUE).module, f>> ELSE <<"", f>>
CallIdent(g, f) ==
  IF \E d \in ToSet(g.decls) : IsMangled(g, d) /\ d.module = g.module /\ d.tree.s[1] = f
  THEN <<g.module, f>> ELSE <<"", f>>

(* The first middleware of the name that is not mangled, or else the last.      *)
MiddlewareIdent(g, name) ==
  LET named == SelectSeq(g.decls, LAMBDA d : d.tree.n = "middleware" /\ d.tree.s[1] = name)
  IN  IF named = <<>> \/ \E d \in ToSet(named) : ~IsMangled(g, d) THEN <<"", name>> ELSE FuncIdent(g, Last(named))

(* Whether cases are those of an enum; private enums of other modules are not known. *)
IsEnum(g, cases) ==
  cases # <<>> /\ \E t \in g.types : t[1] = g.unit /\ t[2] = cases /\ t[3].n = "type" /\ t[3].s[1] \in g.enums

--------------------------------------------------------------------------------
(* Expressions.                                                                 *)

Builtins == {"fs-read-file", "fs-exists", "db-connect", "not", "json-response", "println", "concat", "ok", "err", "some",
             "unwrap-or", "field"}

RECURSIVE GenExpr(_, _)
GenExprs(g, es) == [i \in DOMAIN es |-> GenExpr(g, es[i])]
GenCases(g, cases) == [i \in DOMAIN cases |-> [cases[i] EXCEPT !.c[3] = GenExprs(g, @)]]
GenExpr(g, e) ==
  LET inside == [i \in DOMAIN e.c |-> GenExprs(g, e.c[i])]
  IN  CASE e.n = "try" -> Node("valueOf", <<>>, inside)
        [] e.n = "call" -> IF e.s[1] \in Builtins THEN Node("call", e.s, inside)
                           ELSE Node("gocall", CallIdent(g, e.s[1]), inside)
        [] e.n = "matchx" ->
             LET val == GenExpr(g, e.c[1][1])
             IN  IF IsEnum(g, e.c[4])
                 THEN MatchOf("switchx", <<"", "", "">>, val, <<>>, <<>>, GenCases(g, e.c[4]))
                 ELSE MatchOf("matchx", e.s, val, GenExprs(g, e.c[2]), GenExprs(g, e.c[3]), <<>>)
        [] OTHER -> Node(e.n, e.s, inside)

(* A result is kept and looked at before the statement: its error goes to the   *)
(* on-err of the unit or up in the unit's own result.                           *)
FailGuard(g, id, e) ==
  Emit(g, Node("guard", <<id, IF g.onErr # "" THEN "on-err" ELSE "propagate">>, <<<<e>>>>))

(* Each try that the statement evaluates in any case goes before it, from left  *)
(* to right, those in the operand of another first.                             *)
(* Mutant: the right of an and, an or is evaluated in any case.                 *)
HoistsBothSides(e) == IF e.n \in {"call", "bin", "ifx", "matchx", "recv", "try"} THEN Len(e.c[1]) ELSE 0
Evaluated(e) ==
  CASE e.n \in {"call", "bin"} /\ e.s[1] \in {"and", "or"} -> 1
    [] e.n \in {"ifx", "matchx", "recv", "try"} \/ (e.n \in {"call", "bin"} /\ e.s[1] \notin {"and", "or"}) -> Len(e.c[1])
    [] OTHER -> 0

RECURSIVE HoistTries(_, _)
HoistAll(g, es, n) ==
  Folded(LAMBDA acc, i : LET h == IF i <= n THEN HoistTries(acc.g, es[i]) ELSE [g |-> acc.g, e |-> es[i]]
                                 IN  [g |-> h.g, es |-> Append(acc.es, h.e)],
         [g |-> g, es |-> <<>>], [i \in DOMAIN es |-> i])
HoistTries(g, e) ==
  LET inside == HoistAll(g, e.c[1], Evaluated(e))
      id == ToString(inside.g.serial)
      next == [inside.g EXCEPT !.serial = @ + 1]
  IN  CASE Evaluated(e) = 0 -> [g |-> g, e |-> e]
        [] Evaluated(e) # 0 /\ e.n = "try" ->
             [g |-> FailGuard(next, id, GenExpr(g, inside.es[1])), e |-> Node("value", <<id>>, <<>>)]
        [] OTHER -> [g |-> inside.g, e |-> [e EXCEPT !.c[1] = inside.es]]

--------------------------------------------------------------------------------
(* Statements.                                                                  *)

RECURSIVE GenStmt(_, _)
GenBlock(g, body) == Folded(GenStmt, [g EXCEPT !.code = <<>>], body)
GenBlocks(g, bodies) ==
  Folded(LAMBDA acc, b : LET k == GenBlock(acc.g, b) IN [g |-> [k EXCEPT !.code = g.code], bs |-> Append(acc.bs, k.code)],
           [g |-> g, bs |-> <<>>], bodies)

(* The last statement of a case, if it is an expression, is what the function   *)
(* returns.                                                                     *)
GenCaseBody(g, body) ==
  LET valued == g.ret # Nil /\ body # <<>> /\ Last(body).n = "do"
  IN  IF valued THEN GenStmt(GenBlock(g, Front(body)), Return(Last(body).c[1])) ELSE GenBlock(g, body)

GenSwitch(g, val, cases) ==
  LET One(acc, k) == LET body == GenCaseBody(acc.g, k.c[2])
                     IN  [g |-> [body EXCEPT !.code = g.code], cases |-> Append(acc.cases, [k EXCEPT !.c[2] = body.code])]
      all == Folded(One, [g |-> g, cases |-> <<>>], cases)
      k == Emit(all.g, MatchOf("switch", <<"", "", "">>, val, <<>>, <<>>, all.cases))
  IN  IF g.ret # Nil THEN Emit(k, Node("panic", <<>>, <<>>)) ELSE k

GenMatch(g, s) ==
  LET h == HoistTries(g, s.c[1][1])
      val == GenExpr(h.g, h.e)
      arms == GenBlocks(h.g, <<s.c[2], s.c[3]>>)
  IN  IF IsEnum(g, s.c[4]) THEN GenSwitch(h.g, val, s.c[4])
      ELSE Emit(arms.g, MatchOf("match", s.s, val, arms.bs[1], arms.bs[2], <<>>))

(* The condition of a while is evaluated in each round: nothing is moved.       *)
GenLoop(g, s) ==
  LET h == HoistAll(g, s.c[1], IF s.n = "while" THEN 0 ELSE Len(s.c[1]))
      body == GenBlocks(h.g, <<s.c[2]>>)
  IN  Emit(body.g, Node(s.n, s.s, <<GenExprs(h.g, h.es), body.bs[1]>>))

(* A db-transaction is a block between two calls that may fail; the connection  *)
(* it declares and the deferred rollback are DBTx's.                            *)
GenTransaction(g, s) ==
  LET Tried(k, f) == FailGuard([k EXCEPT !.serial = @ + 1], ToString(k.serial), Call(f, <<Ident(s.s[1])>>))
  IN  Tried(Folded(GenStmt, Tried(g, "db-begin"), s.c[2]), "db-commit")

(* A try that is all of a statement's expression has its guard from the         *)
(* statement: it is the one HoistTries would write.                             *)
GenStmt(g, s) ==
  CASE s.n \in {"let", "set", "do", "return"} ->
         LET es == Last(s.c)
             h == HoistAll(g, es, Len(es))
             rest == [s EXCEPT !.c[Len(s.c)] = GenExprs(h.g, h.es)]
         IN  IF s.n = "do" /\ es[1].n = "try" THEN h.g ELSE Emit(h.g, rest)
    [] s.n = "if" ->
         LET h == HoistTries(g, s.c[1][1])
             arms == GenBlocks(h.g, <<s.c[2], s.c[3]>>)
         IN  Emit(arms.g, Node("if", <<>>, <<<<GenExpr(h.g, h.e)>>>> \o arms.bs))
    [] s.n \in {"while", "for-range", "for-each"} -> GenLoop(g, s)
    [] s.n = "match" -> GenMatch(g, s)
    [] s.n = "db-transaction" -> GenTransaction(g, s)
    [] s.n \in {"spawn", "send"} -> Emit(g, Node(s.n, s.s, <<GenExprs(g, s.c[1])>>))
    [] s.n \in {"break", "continue"} -> Emit(g, s)

--------------------------------------------------------------------------------
(* Declarations.                                                                *)

ParamNames(params) == [i \in DOMAIN params |-> params[i].s[1]]
GoFunc(g, ident, params, errBody, body) ==
  LET parts == GenBlocks(g, <<errBody, body>>)
  IN  [ident |-> ident, unit |-> g.unit, params |-> ParamNames(params), ret |-> g.ret,
       onErr |-> g.onErr, errBody |-> parts.bs[1], body |-> parts.bs[2]]

GenFunc(g, i) ==
  LET d == g.decls[i]
      f == d.tree
      k == [g EXCEPT !.unit = i, !.module = d.module, !.onErr = f.s[3], !.ret = f.c[2][1]]
  IN  GoFunc(k, FuncIdent(g, d), f.c[1], f.c[4], f.c[5])

(* The handler of a route calls its middlewares in order, then its function.    *)
GenRoute(g, i) ==
  LET r == g.decls[i].tree
      k == [g EXCEPT !.unit = i, !.onErr = r.s[2], !.ret = r.c[4][1]]
      with == [j \in DOMAIN r.c[2] |-> MiddlewareIdent(g, r.c[2][j].s[1])]
  IN  [with |-> with, fn |-> GoFunc(k, <<"route", ToString(i)>>, r.c[3], r.c[6], r.c[7])]

GenTest(g, i) == GoFunc([g EXCEPT !.unit = i], <<"test", ToString(i)>>, <<>>, <<>>, g.decls[i].tree.c[2])

Generate(g) ==
  LET Of(kinds) == SelectSeq([i \in DOMAIN g.decls |-> i], LAMBDA i : g.decls[i].tree.n \in kinds)
      funcs == Of({"fn", "middleware"})
      routes == Of({"route"})
      tests == Of({"test"})
  IN  [funcs |-> [i \in DOMAIN funcs |-> GenFunc(g, funcs[i])],
       routes |-> [i \in DOMAIN routes |-> GenRoute(g, routes[i])],
       tests |-> [i \in DOMAIN tests |-> GenTest(g, tests[i])]]
================================================================================
