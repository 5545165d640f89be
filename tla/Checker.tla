-------------------------------- MODULE Checker --------------------------------
(* pkg/checker: what is asked of the merged module before Go is generated for   *)
(* it.  The checker is a value c that each check returns changed, its errors a  *)
(* set of codes; a type is a tree, NoType one that could not be told.           *)
EXTENDS Syntax

--------------------------------------------------------------------------------
(* Types.                                                                       *)

NoType == Type("?")
IntType == Type("int")
StrType == Type("str")
BoolType == Type("bool")
ResultOf(ok, err) == Applied("result", <<ok, err>>)

Parts(t, kind) == IF t.n = "applied" /\ t.s[1] = kind THEN t.c[1] ELSE <<>>
IsResult(t) == Len(Parts(t, "result")) = 2
Scalar(t) == t \in {IntType, Type("float"), StrType, BoolType}
Primitives == {IntType, Type("float"), StrType, BoolType, Void, NoType}
OpaqueTypes == {"Request", "Response", "DBConnection", "WSConn", "HttpReply"}
Arities == [chan |-> 1, list |-> 1, map |-> 2, result |-> 2, option |-> 1]

--------------------------------------------------------------------------------
(* The library, as much of it as the programs use: effects, parameters, result. *)
(* Those with rules of their own are in Special.                                *)

Lib(effects, params, ret) == [effects |-> effects, params |-> params, ret |-> ret]
Library ==
  [f \in {"fs-read-file", "fs-exists", "not", "json-response", "db-connect"} |->
    CASE f = "fs-read-file" -> Lib({"fs"}, <<StrType>>, ResultOf(StrType, StrType))
      [] f = "fs-exists" -> Lib({"fs"}, <<StrType>>, BoolType)
      [] f = "not" -> Lib({}, <<BoolType>>, BoolType)
      [] f = "db-connect" -> Lib({"db"}, <<StrType, StrType>>, ResultOf(Type("DBConnection"), StrType))
      [] OTHER -> Lib({}, <<IntType, StrType>>, Type("Response"))]
Variadic == [f \in {"println", "concat"} |-> IF f = "println" THEN Lib({"io"}, <<>>, Void) ELSE Lib({}, <<>>, StrType)]
Special == {"ok", "err", "some", "unwrap-or", "field"}
KnownEffects == {"io", "net", "fs", "clock", "spawn", "db", "rand", "env"}

--------------------------------------------------------------------------------
(* The checker's state.  binds remembers which declarations a name of a unit    *)
(* may have been taken for, and types what the cases of a unit are cases of.     *)

NoFn == [ret |-> Void, effects |-> {}, onErr |-> ""]
NewChecker(root, decls) ==
  [root |-> root, decls |-> decls, module |-> root, unit |-> 0, fn |-> NoFn, scopes |-> <<>>, pending |-> {},
   loops |-> 0, used |-> {}, errs |-> {}, binds |-> {}, types |-> {}]

Err(c, code) == [c EXCEPT !.errs = @ \cup {code}]
ErrIf(c, wrong, code) == IF wrong THEN Err(c, code) ELSE c
Typed(c, t) == [c |-> c, t |-> t]
Require(c, actual, want) ==
  ErrIf(c, actual # NoType /\ want # NoType /\ actual # want, "E_TYPE_MISMATCH")
Effect(c, e) == IF e \in c.fn.effects THEN [c EXCEPT !.used = @ \cup {e}] ELSE Err(c, "E_UNDECLARED_EFFECT")

(* Scopes: names to their types; pending holds the results that still have to   *)
(* be looked at, each under its scope and its name.                             *)
Push(c) == [c EXCEPT !.scopes = Append(@, <<>>)]
Pop(c) ==
  LET level == Len(c.scopes)
      left == {p \in c.pending : p[1] = level}
  IN  [ErrIf(c, left # {}, "E_UNHANDLED_RESULT") EXCEPT !.scopes = Front(@), !.pending = @ \ left]

Tracked(c, level, id, pending) ==
  [c EXCEPT !.pending = IF pending THEN @ \cup {<<level, id>>} ELSE @ \ {<<level, id>>}]
Define(c, id, t, pending) ==
  IF id = "_" THEN c
  ELSE LET level == Len(c.scopes)
           known == ErrIf(c, id \in DOMAIN c.scopes[level], "E_DUPLICATE_SYMBOL")
       IN  Tracked([known EXCEPT !.scopes[level] = (id :> t) @@ @], level, id, pending)
DefineAll(c, fields, names) ==
  FoldLeftDomain(LAMBDA k, i : Define(k, names[i], fields[i].c[1][1], FALSE), c, fields)

Lookup(c, id) ==
  LET at == {i \in DOMAIN c.scopes : id \in DOMAIN c.scopes[i]} IN IF at = {} THEN 0 ELSE Max(at)
SetPending(c, id, pending) == Tracked(c, Lookup(c, id), id, pending)
IsPending(c, id) == <<Lookup(c, id), id>> \in c.pending
Consume(c, es) ==
  IF es # <<>> /\ es[1].n = "IDENT" /\ Lookup(c, es[1].s[1]) # 0
  THEN SetPending(c, es[1].s[1], FALSE) ELSE c

(* restore and merge: a branch starts from what was pending before the other    *)
(* one; a result is settled after both if it is after each of them.             *)
Restore(c, pending) == [c EXCEPT !.pending = pending]
(* Mutant: what one branch settles is settled after both.                       *)
SettledByEither(c, pending) == [c EXCEPT !.pending = @ \cap pending]
Merge(c, pending) == [c EXCEPT !.pending = @ \cup pending]

--------------------------------------------------------------------------------
(* Names.  A symbol is looked for in the module that is being checked, then     *)
(* among those that are public or the root's, then anywhere; the last one       *)
(* declared hides the others, except in the last case, where it may be any.     *)

FuncKinds == {"fn", "middleware"}
NamedHere(c, kinds, f) == {i \in DOMAIN c.decls : c.decls[i].tree.n \in kinds /\ c.decls[i].tree.s[1] = f}
IsOpen(c, i) == c.decls[i].tree.s[2] = "pub" \/ c.decls[i].module = c.root
Find(c, kinds, f) ==
  LET named == NamedHere(c, kinds, f)
      own == {i \in named : c.decls[i].module = c.module}
      open == {i \in named : IsOpen(c, i)}
  IN  CASE own # {} -> {Max(own)} [] own = {} /\ open # {} -> {Max(open)} [] OTHER -> named

Visible(c, i) == c.decls[i].tree.s[2] = "pub" \/ c.decls[i].module = c.module
CheckVisible(c, found) == ErrIf(c, \E i \in found : ~Visible(c, i), "E_PRIVATE_SYMBOL")
TreeOf(c, found) == c.decls[CHOOSE i \in found : TRUE].tree

RECURSIVE ValidType(_, _, _)
ValidTypes(c, ts) == Folded(LAMBDA k, t : ValidType(k, t, FALSE), c, ts)
ValidType(c, t, allowVoid) ==
  CASE t \in Primitives -> ErrIf(c, t = Void /\ ~allowVoid, "E_INVALID_TYPE")
    [] t.n = "applied" ->
         IF Len(t.c[1]) # Arities[t.s[1]] THEN Err(c, "E_INVALID_TYPE")
         ELSE ErrIf(ValidTypes(c, t.c[1]), t.s[1] = "map" /\ ~Scalar(t.c[1][1]), "E_INVALID_MAP_KEY")
    [] OTHER -> LET structs == Find(c, {"struct"}, t.s[1])
                    enums == Find(c, {"enum"}, t.s[1])
                IN  CASE structs # {} -> CheckVisible(c, structs)
                      [] structs = {} /\ enums # {} -> CheckVisible(c, enums)
                      [] OTHER -> ErrIf(c, t.s[1] \notin OpaqueTypes, "E_UNKNOWN_TYPE")

--------------------------------------------------------------------------------
(* Whether a block always returns.                                              *)

RECURSIVE Returns(_)
Ends(s) ==
  CASE s.n = "return" -> TRUE
    [] s.n = "if" -> Returns(s.c[2]) /\ Returns(s.c[3])
    [] s.n = "match" ->
         IF s.c[4] = <<>> THEN Returns(s.c[2]) /\ Returns(s.c[3])
         ELSE \A k \in ToSet(s.c[4]) : Returns(k.c[2]) \/ (k.c[2] # <<>> /\ Last(k.c[2]).n = "do")
    [] s.n = "db-transaction" -> Returns(s.c[2])
    [] OTHER -> FALSE
Returns(body) == \E i \in DOMAIN body : Ends(body[i])

--------------------------------------------------------------------------------
(* Expressions.  want is the type the place asks for, NoType where it asks for  *)
(* none.                                                                        *)

RECURSIVE Expr(_, _, _)
RECURSIVE Statements(_, _)

Opt(c, es, want) == IF es = <<>> THEN Typed(c, Void) ELSE Expr(c, es[1], want)
Args(c, es) ==
  Folded(LAMBDA acc, e : LET r == Expr(acc.c, e, NoType) IN [c |-> r.c, ts |-> Append(acc.ts, r.t)],
           [c |-> c, ts |-> <<>>], es)
RequireExpr(c, e, want) == LET r == Expr(c, e, want) IN Require(r.c, r.t, want)
RequireAll(c, actual, want) ==
  FoldLeftDomain(LAMBDA k, i : IF i \in DOMAIN actual THEN Require(k, actual[i], want[i]) ELSE k, c, want)

Comparisons == {"gt", "lt", "gte", "lte"}
EnumNames(c) == {c.decls[i].tree.s[1] : i \in {j \in DOMAIN c.decls : c.decls[j].tree.n = "enum" /\ IsOpen(c, j)}}
Binary(c, e) ==
  LET operands == Args(c, e.c[1])
      l == operands.ts[1]
      k == Require(operands.c, operands.ts[2], l)
      op == e.s[1]
  IN  CASE op \in {"and", "or"} -> Typed(Require(k, l, BoolType), BoolType)
        [] op \in {"eq", "neq"} ->
             Typed(ErrIf(ErrIf(k, \E i \in 1..2 : e.c[1][i].n = "BOOL", "E_REDUNDANT_BOOL_COMPARE"),
                         l # NoType /\ ~Scalar(l) /\ l.s[1] \notin EnumNames(c), "E_TYPE_MISMATCH"), BoolType)
        [] OTHER ->
             LET wrong == l \notin {IntType, Type("float"), NoType} /\ ~(l = StrType /\ op \in Comparisons)
             IN  Typed(ErrIf(k, wrong, "E_TYPE_MISMATCH"),
                       IF op \in Comparisons THEN BoolType ELSE IF op = "div" /\ l = IntType THEN ResultOf(IntType, StrType) ELSE l)

(* try takes the value of a result; its error goes to the on-err of the unit or *)
(* up in the unit's own result.                                                 *)
Try(c, e) ==
  LET operand == Expr(c, e.c[1][1], NoType)
      parts == Parts(operand.t, "result")
      to == Parts(c.fn.ret, "result")
  IN  IF parts = <<>> THEN Typed(Err(operand.c, "E_TYPE_MISMATCH"), Void)
      ELSE Typed(IF c.fn.onErr = "" /\ to = <<>> THEN Err(operand.c, "E_UNHANDLED_RESULT")
                 ELSE ErrIf(operand.c, parts[2] # IF c.fn.onErr # "" THEN StrType ELSE to[2], "E_TYPE_MISMATCH"),
                 parts[1])

(* The calls that have rules of their own.                                      *)
EnumField(c, v, enums) ==
  LET variants == TreeOf(c, enums).c[1]
      k == CheckVisible(c, enums)
  IN  IF \E i \in enums : ~Visible(c, i) THEN Typed(k, NoType) ELSE
      CASE \E i \in DOMAIN variants : variants[i].s[1] = v.c[1][2].s[1] -> Typed(k, Type(v.c[1][1].s[1]))
        [] OTHER -> Typed(Err(k, "E_UNKNOWN_VARIANT"), NoType)
StructField(c, v) ==
  LET base == Expr(c, v.c[1][1], NoType)
      structs == IF base.t.n = "type" THEN Find(c, {"struct"}, base.t.s[1]) ELSE {}
      fields == IF structs = {} THEN {} ELSE {f \in ToSet(TreeOf(c, structs).c[1]) : f.s[1] = v.c[1][2].s[1]}
  IN  IF fields = {} THEN Typed(Err(base.c, "E_UNKNOWN_FIELD"), NoType)
      ELSE Typed(base.c, (CHOOSE f \in fields : TRUE).c[1][1])

SpecialCall(c, v, want) ==
  LET args == v.c[1]
      f == v.s[1]
      parts == Parts(want, IF f = "some" THEN "option" ELSE "result")
      part == IF f = "err" THEN parts[2] ELSE parts[1]
      arity == IF f \in {"unwrap-or", "field"} THEN 2 ELSE 1
  IN  CASE Len(args) # arity -> Typed(Err(c, "E_WRONG_ARITY"), NoType)
        [] Len(args) = arity /\ f \in {"ok", "err"} ->
             IF parts = <<>> THEN Typed(Expr(Err(c, "E_RESULT_CONTEXT"), args[1], NoType).c, NoType)
             ELSE Typed(RequireExpr(c, args[1], part), want)
        [] Len(args) = arity /\ f = "some" ->
             IF parts = <<>> THEN LET r == Expr(c, args[1], NoType) IN Typed(r.c, Applied("option", <<r.t>>))
             ELSE Typed(RequireExpr(c, args[1], part), want)
        [] Len(args) = arity /\ f = "unwrap-or" ->
             LET r == Expr(c, args[1], NoType)
                 inside == Parts(r.t, "result") \o Parts(r.t, "option")
             IN  IF inside = <<>> THEN Typed(Err(r.c, "E_TYPE_MISMATCH"), Void)
                 ELSE Typed(RequireExpr(Consume(r.c, args), args[2], inside[1]), inside[1])
        [] Len(args) = arity /\ f = "field" ->
             LET enums == IF args[1].n = "IDENT" THEN Find(c, {"enum"}, args[1].s[1]) ELSE {}
             IN  IF enums # {} THEN EnumField(c, v, enums) ELSE StructField(c, v)

CallExpr(c, v, want) ==
  LET f == v.s[1]
      args == Args(c, v.c[1])
      found == Find(c, FuncKinds, f)
  IN  CASE f \in Special -> SpecialCall(c, v, want)
        [] f \in DOMAIN Library ->
             LET lib == Library[f]
                 k == Args(Folded(Effect, c, SetToSeq(lib.effects)), v.c[1])
             IN  IF Len(v.c[1]) # Len(lib.params) THEN Typed(Err(k.c, "E_WRONG_ARITY"), NoType)
                 ELSE Typed(RequireAll(k.c, k.ts, lib.params), lib.ret)
        [] f \in DOMAIN Variadic ->
             LET k == Args(Folded(Effect, c, SetToSeq(Variadic[f].effects)), v.c[1])
             IN  Typed(ErrIf(k.c, \E i \in DOMAIN k.ts : k.ts[i] # NoType /\ ~Scalar(k.ts[i]), "E_TYPE_MISMATCH"),
                       Variadic[f].ret)
        [] f \notin Special \cup DOMAIN Library \cup DOMAIN Variadic ->
             LET fn == TreeOf(c, found)
                 params == [i \in DOMAIN fn.c[1] |-> fn.c[1][i].c[1][1]]
                 k == [args.c EXCEPT !.binds = @ \cup {<<c.unit, f, found>>}]
                 j == IF Len(args.ts) = Len(params) THEN RequireAll(k, args.ts, params) ELSE Err(k, "E_WRONG_ARITY")
             IN  CASE found = {} -> Typed(Err(args.c, "E_UNDEFINED_SYMBOL"), NoType)
                   [] found # {} /\ \E i \in found : ~Visible(c, i) -> Typed(CheckVisible(k, found), NoType)
                   [] OTHER -> Typed(Folded(LAMBDA h, e : Effect(h, e.s[1]), j, fn.c[3]), fn.c[2][1])

--------------------------------------------------------------------------------
(* match, over an enum, an option or a result.  variants are the names a        *)
(* pattern may have, with what they bind.                                       *)

Variants(c, t, isStmt) ==
  LET enums == IF t.n = "type" THEN Find(c, {"enum"}, t.s[1]) ELSE {}
      result == Parts(t, "result")
      one(ty) == <<Field("", ty)>>
  IN  CASE enums # {} -> LET vs == TreeOf(c, enums).c[1]
                         IN  [v \in {vs[i].s[1] : i \in DOMAIN vs} |-> (CHOOSE w \in ToSet(vs) : w.s[1] = v).c[1]]
        [] enums = {} /\ Parts(t, "option") # <<>> ->
             ("some" :> one(Parts(t, "option")[1])) @@ ("none" :> IF isStmt THEN one(Void) ELSE <<>>)
        [] enums = {} /\ result # <<>> -> ("ok" :> one(result[1])) @@ ("err" :> one(result[2]))
        [] OTHER -> <<>>

(* The names a case binds: all the fields of a variant of an enum, at most the  *)
(* one value of an option or a result.                                          *)
BindCase(c, isEnum, fields, names) ==
  CASE isEnum -> IF Len(names) = Len(fields) THEN DefineAll(c, fields, names) ELSE Err(c, "E_ARITY_MISMATCH")
    [] ~isEnum /\ names # <<>> /\ fields # <<>> ->
         LET t == fields[1].c[1][1] IN Define(c, names[1], t, IsResult(t))
    [] OTHER -> c

(* The body of a case.  The value a case of an enum ends with is what the unit  *)
(* returns.                                                                     *)
CaseBody(c, k, isEnum, isStmt, want) ==
  IF ~isStmt THEN Opt(c, k.c[3], want)
  ELSE LET done == Statements(c, k.c[2])
           valued == isEnum /\ c.fn.ret # Void /\ k.c[2] # <<>> /\ Last(k.c[2]).n = "do"
       IN  Typed(IF valued THEN RequireExpr(done, Last(k.c[2]).c[1][1], c.fn.ret) ELSE done, NoType)

CheckCases(c, m, t, want) ==
  LET isStmt == m.n = "match"
      variants == Variants(c, t, isStmt)
      isEnum == t.n = "type"
      One(acc, k) ==
        LET pattern == k.c[1][1].s
            v == IF isEnum THEN Last(pattern) ELSE pattern[1]
            wild == pattern = <<"_">>
            inside == IF wild THEN Push(acc.c) ELSE BindCase(Push(ErrIf(acc.c, v \in acc.seen, "E_DUPLICATE_CASE")), isEnum, variants[v], k.s)
            body == CaseBody(inside, k, isEnum, isStmt, want)
        IN  IF isEnum /\ Len(pattern) = 2 /\ pattern[1] # t.s[1] THEN [acc EXCEPT !.c = Err(@, "E_TYPE_MISMATCH")] ELSE
            CASE ~wild /\ v \notin DOMAIN variants -> [acc EXCEPT !.c = Err(@, "E_UNKNOWN_VARIANT")]
              [] OTHER -> [c |-> Require(Pop(body.c), body.t, acc.t), seen |-> acc.seen \cup {v},
                           t |-> IF acc.t = NoType THEN body.t ELSE acc.t]
      all == Folded(One, [c |-> Consume(c, m.c[1]), seen |-> {}, t |-> NoType], m.c[4])
      full == "_" \in all.seen \/ DOMAIN variants \subseteq all.seen
      k == ErrIf(all.c, ~full, "E_NONEXHAUSTIVE_MATCH")
  IN  IF variants = <<>> THEN Typed(Err(Consume(c, m.c[1]), "E_TYPE_MISMATCH"), Void)
      ELSE CASE want # NoType /\ all.t # NoType -> Typed(Require(k, all.t, want), want)
             [] want = NoType /\ all.t # NoType -> Typed(k, all.t)
             [] OTHER -> Typed(k, Void)

(* What the two branches of a match without cases bind.                         *)
BranchTypes(t, kind) == IF kind = "option" THEN Parts(t, "option") \o IF Parts(t, "option") = <<>> THEN <<>> ELSE <<Void>>
                        ELSE Parts(t, "result")
DefineIf(c, id, t, pending) == IF id = "" THEN c ELSE Define(c, id, t, pending)

MatchExpr(c, m, want) ==
  LET val == Expr(c, m.c[1][1], NoType)
      seen == [val.c EXCEPT !.types = @ \cup {<<c.unit, m.c[4], val.t>>}]
      ts == BranchTypes(val.t, m.s[3])
      Branch(k, i) == LET r == Expr(DefineIf(Push(k), m.s[i], ts[i], FALSE), m.c[i + 1][1], want)
                      IN  Typed(Pop(r.c), r.t)
      ok == Branch(Consume(seen, m.c[1]), 1)
      err == Branch(ok.c, 2)
  IN  CASE m.c[4] # <<>> -> CheckCases(seen, m, val.t, want)
        [] m.c[4] = <<>> /\ ts = <<>> -> Typed(Err(seen, "E_TYPE_MISMATCH"), Void)
        [] OTHER -> IF want # NoType THEN Typed(Require(Require(err.c, ok.t, want), err.t, want), want)
                    ELSE Typed(Require(err.c, ok.t, err.t), IF ok.t = NoType THEN Void ELSE ok.t)

IfExpr(c, e, want) ==
  LET cond == RequireExpr(c, e.c[1][1], BoolType)
      then == Expr(cond, e.c[2][1], want)
      else == Expr(then.c, e.c[3][1], want)
  IN  IF e.c[3] = <<>> THEN Typed(Err(then.c, "E_IF_EXPR_MISSING_ELSE"), then.t)
      ELSE Typed(ErrIf(else.c, then.t # NoType /\ else.t # NoType /\ then.t # else.t, "E_IF_EXPR_BRANCH_TYPE"), then.t)

Literals == [INT |-> IntType, FLOAT |-> Type("float"), STRING |-> StrType, BOOL |-> BoolType]
Expr(c, e, want) ==
  CASE e.n \in DOMAIN Literals -> Typed(c, Literals[e.n])
    [] e.n = "IDENT" -> LET at == Lookup(c, e.s[1])
                        IN  IF at = 0 THEN Typed(Err(c, "E_UNDEFINED_SYMBOL"), NoType)
                            ELSE Typed(c, c.scopes[at][e.s[1]])
    [] e.n = "recv" -> LET r == Expr(c, e.c[1][1], NoType)
                       IN  IF Parts(r.t, "chan") = <<>> THEN Typed(Err(r.c, "E_CHANNEL_TYPE_MISMATCH"), NoType)
                           ELSE Typed(r.c, Parts(r.t, "chan")[1])
    [] e.n = "bin" -> Binary(c, e)
    [] e.n = "call" -> CallExpr(c, e, want)
    [] e.n = "try" -> Try(c, e)
    [] e.n = "ifx" -> IfExpr(c, e, want)
    [] e.n = "matchx" -> MatchExpr(c, e, want)

--------------------------------------------------------------------------------
(* Statements.                                                                  *)

Block(c, body) == Pop(Statements(Push(c), body))

(* After two branches: a branch that returns leaves its findings to the other.  *)
Joined(c, afterFirst, first, second) ==
  CASE Returns(first) -> c
    [] ~Returns(first) /\ Returns(second) -> Restore(c, afterFirst)
    [] OTHER -> Merge(c, afterFirst)

LetStmt(c, s) ==
  LET typed == s.c[1] # <<>>
      want == IF typed THEN s.c[1][1] ELSE NoType
      r == Expr(ValidType(c, want, FALSE), s.c[2][1], want)
      untold == ~typed /\ r.t \in {NoType, Void}
      t == CASE typed -> want [] untold -> Void [] OTHER -> r.t
  IN  Define(ErrIf(Require(r.c, r.t, want), untold, "E_TYPE_INFERENCE_FAILED"), s.s[1], t, IsResult(t))

SetStmt(c, s) ==
  LET at == Lookup(c, s.s[1])
      t == c.scopes[at][s.s[1]]
      k == RequireExpr(ErrIf(c, IsPending(c, s.s[1]), "E_UNHANDLED_RESULT"), s.c[1][1], t)
  IN  IF at = 0 THEN Expr(Err(c, "E_UNDEFINED_SYMBOL"), s.c[1][1], NoType).c
      ELSE SetPending(k, s.s[1], IsResult(t))

ReturnStmt(c, s) ==
  LET r == Opt(c, s.c[1], c.fn.ret)
      k == Consume(Require(r.c, r.t, c.fn.ret), s.c[1])
  IN  ErrIf(k, k.pending # {}, "E_UNHANDLED_RESULT")

IfStmt(c, s) ==
  LET cond == RequireExpr(c, s.c[1][1], BoolType)
      then == Block(cond, s.c[2])
      else == Block(Restore(then, cond.pending), s.c[3])
  IN  Joined(else, then.pending, s.c[2], s.c[3])

(* The body may not run: what it settles is settled only if it was before.      *)
Loop(c, s) ==
  LET heads == s.c[1]
      each == Expr(Push(c), heads[1], NoType)
      items == Parts(each.t, "list")
      head == CASE s.n = "while" -> RequireExpr(Push(c), heads[1], BoolType)
                [] s.n = "for-range" ->
                     Define(RequireExpr(RequireExpr(Push(c), heads[1], IntType), heads[2], IntType), s.s[1], IntType, FALSE)
                [] OTHER -> IF items = <<>> THEN Err(each.c, "E_TYPE_MISMATCH")
                            ELSE Define(each.c, s.s[1], items[1], FALSE)
      done == Statements([head EXCEPT !.loops = @ + 1], s.c[2])
  IN  Merge(Pop([done EXCEPT !.loops = @ - 1]), c.pending)

MatchStmt(c, s) ==
  LET val == Expr(c, s.c[1][1], NoType)
      seen == [val.c EXCEPT !.types = @ \cup {<<c.unit, s.c[4], val.t>>}]
      ts == BranchTypes(val.t, s.s[3])
      before == Consume(seen, s.c[1])
      Branch(k, i) == Pop(Statements(DefineIf(Push(k), s.s[i], ts[i], s.s[3] # "option" /\ IsResult(ts[i])), s.c[i + 1]))
      ok == Branch(before, 1)
      err == Branch(Restore(ok, before.pending), 2)
  IN  CASE s.c[4] # <<>> -> CheckCases(seen, s, val.t, NoType).c
        [] s.c[4] = <<>> /\ ts = <<>> -> Err(seen, "E_TYPE_MISMATCH")
        [] OTHER -> Joined(err, ok.pending, s.c[2], s.c[3])

DBTransaction(c, s) ==
  LET k == Effect(c, "db")
      at == Lookup(c, s.s[1])
      wrong == CASE at = 0 -> {"E_UNDEFINED_SYMBOL"}
                 [] at # 0 /\ IsPending(c, s.s[1]) -> {"E_UNHANDLED_RESULT"}
                 [] OTHER -> IF c.scopes[at][s.s[1]] = Type("DBConnection") THEN {} ELSE {"E_TYPE_MISMATCH"}
      j == ErrIf([k EXCEPT !.errs = @ \cup wrong], c.fn.onErr = "" /\ ~IsResult(c.fn.ret), "E_UNHANDLED_RESULT")
  IN  Pop(Statements(Define(Push(j), s.s[1], Type("DBConnection"), FALSE), s.c[2]))

Send(c, s) ==
  LET ends == Args(c, s.c[1])
      items == Parts(ends.ts[1], "chan")
  IN  IF items = <<>> THEN Err(ends.c, "E_CHANNEL_TYPE_MISMATCH") ELSE Require(ends.c, ends.ts[2], items[1])

Statement(c, s) ==
  CASE s.n = "let" -> LetStmt(c, s)
    [] s.n = "set" -> SetStmt(c, s)
    [] s.n = "return" -> ReturnStmt(c, s)
    [] s.n = "do" -> LET r == Expr(c, s.c[1][1], NoType) IN ErrIf(r.c, IsResult(r.t), "E_UNHANDLED_RESULT")
    [] s.n = "if" -> IfStmt(c, s)
    [] s.n \in {"while", "for-range", "for-each"} -> Loop(c, s)
    [] s.n \in {"break", "continue"} -> ErrIf(c, c.loops = 0, "E_LOOP_CONTROL")
    [] s.n = "match" -> MatchStmt(c, s)
    [] s.n = "db-transaction" -> DBTransaction(c, s)
    [] s.n = "spawn" -> RequireExpr(Effect(c, "spawn"), s.c[1][1], Void)
    [] s.n = "send" -> Send(c, s)
Statements(c, body) == Folded(Statement, c, body)

--------------------------------------------------------------------------------
(* Declarations: a unit is a declaration with a body.                           *)

Effects(es) == {es[i].s[1] : i \in DOMAIN es}
Unit(c, i, module, fn) ==
  [c EXCEPT !.unit = i, !.module = module, !.fn = fn, !.scopes = <<<<>>>>, !.pending = {}, !.loops = 0, !.used = {}]
Params(c, params) ==
  Folded(LAMBDA k, p : Define(ValidType(k, p.c[1][1], FALSE), p.s[1], p.c[1][1], FALSE), c, params)
OnErr(c, onErr, body) ==
  IF onErr = "" THEN c ELSE Pop(Statements(Define(Push(c), onErr, StrType, FALSE), body))
CheckEffects(c, es, once) ==
  ErrIf(ErrIf(c, ~(Effects(es) \subseteq KnownEffects), "E_UNKNOWN_EFFECT"),
        once /\ Cardinality(Effects(es)) # Len(es), "E_DUPLICATE_EFFECT")
UnusedEffects(c, es) == ErrIf(c, ~(Effects(es) \subseteq c.used), "E_UNUSED_EFFECT")

(* What a function and a route have in common, between signature and the end.   *)
Bodies(c, ret, effects, onErr, errBody, body) ==
  LET done == Statements(OnErr(c, onErr, errBody), body)
  IN  UnusedEffects(ErrIf(done, ret # Void /\ ~Returns(body), "E_MISSING_RETURN"), effects)

Duplicates(c) ==
  LET named == {"fn", "middleware", "struct", "enum"}
      Same(d, e) == d.module = e.module /\ {d.tree.n, e.tree.n} \subseteq named /\ d.tree.s[1] = e.tree.s[1]
  IN  ErrIf(c, \E i, j \in DOMAIN c.decls : i < j /\ Same(c.decls[i], c.decls[j]), "E_DUPLICATE_SYMBOL")

Repeated(nodes) == \E i, j \in DOMAIN nodes : i < j /\ nodes[i].s[1] = nodes[j].s[1]
FieldTypes(fields) == [i \in DOMAIN fields |-> fields[i].c[1][1]]
CheckStruct(c, i) ==
  LET fields == c.decls[i].tree.c[1]
  IN  ErrIf(ValidTypes([c EXCEPT !.module = c.decls[i].module], FieldTypes(fields)), Repeated(fields), "E_DUPLICATE_SYMBOL")
CheckEnum(c, i) ==
  LET variants == c.decls[i].tree.c[1]
      k == Folded(LAMBDA h, v : ValidTypes(h, FieldTypes(v.c[1])), [c EXCEPT !.module = c.decls[i].module], variants)
  IN  ErrIf(k, Repeated(variants), "E_DUPLICATE_SYMBOL")

MiddlewareSignature(c, f) ==
  ErrIf(c, Len(f.c[1]) # 1 \/ FieldTypes(f.c[1]) # <<Type("Request")>> \/ f.c[2][1] # ResultOf(Type("Request"), Type("Response")),
        "E_MIDDLEWARE_SIGNATURE")

CheckFunc(c, i) ==
  LET f == c.decls[i].tree
      ret == f.c[2][1]
      in == Unit(c, i, c.decls[i].module, [ret |-> ret, effects |-> Effects(f.c[3]), onErr |-> f.s[3]])
      signed == CheckEffects(Params(ValidType(in, ret, TRUE), f.c[1]), f.c[3], TRUE)
      main == ErrIf(signed, f.s[1] = "main" /\ (f.c[1] # <<>> \/ ret # Void), "E_MAIN_SIGNATURE")
      done == Bodies(main, ret, f.c[3], f.s[3], f.c[4], f.c[5])
  IN  Pop(IF f.n = "middleware" THEN MiddlewareSignature(done, f) ELSE done)

(* The names in braces of a path, and the parameters that take their values.    *)
Braced == [id |-> "{id}", name |-> "{name}"]
PathParams(path) == {p \in DOMAIN Braced : Braced[p] \in ToSet(path)}
ParamsNamed(params, name) == {p \in ToSet(params) : p.s[1] = name}

RouteParams(c, r) ==
  ErrIf(c, \E name \in PathParams(r.c[1][1].s) :
             \A p \in ParamsNamed(r.c[3], name) : p.c[1][1] \notin {IntType, StrType}, "E_ROUTE_PARAM")

(* A name of with(...) may be any function's that Find finds, seen or not.      *)
RouteMiddlewares(c, with) ==
  LET Known(mw) == LET found == Find(c, FuncKinds, mw)
                   IN  found # {} /\ \A i \in found : c.decls[i].tree.n = "middleware"
      k == [c EXCEPT !.binds = @ \cup {<<c.unit, w.s[1], Find(c, FuncKinds, w.s[1])>> : w \in ToSet(with)}]
  IN  ErrIf(ErrIf(k, Repeated(with), "E_DUPLICATE_MIDDLEWARE"),
            \E w \in ToSet(with) : ~Known(w.s[1]), "E_UNKNOWN_MIDDLEWARE")

CheckRoute(c, i) ==
  LET r == c.decls[i].tree
      ret == r.c[4][1]
      in == Unit(c, i, c.root, [ret |-> ret, effects |-> Effects(r.c[5]), onErr |-> r.s[2]])
      signed == RouteParams(CheckEffects(Params(ValidType(in, ret, TRUE), r.c[3]), r.c[5], FALSE), r)
  IN  Pop(RouteMiddlewares(Bodies(signed, ret, r.c[5], r.s[2], r.c[6], r.c[7]), r.c[2]))

WSParams(c, w) ==
  LET params == w.c[2]
      OfType(t) == Cardinality({k \in DOMAIN params : params[k].c[1][1] = Type(t)})
      free == {p \in ToSet(params) : p.c[1][1] \notin {Type("WSConn"), Type("Request")}}
      path == PathParams(w.c[1][1].s)
  IN  ErrIf(Params(c, params),
            \/ \E p \in free : p.s[1] \notin path \/ p.c[1][1] \notin {IntType, StrType}
            \/ \E name \in path : ParamsNamed(params, name) = {}
            \/ OfType("WSConn") # 1 \/ OfType("Request") > 1, "E_WS_PARAM")

(* The module is still that of the declaration checked before.                  *)
CheckWSRoute(c, i) ==
  LET w == c.decls[i].tree
      in == Unit(c, i, c.module, [ret |-> Void, effects |-> Effects(w.c[3]), onErr |-> w.s[1]])
      held == ErrIf(CheckEffects(in, w.c[3], TRUE), "net" \notin in.fn.effects, "E_UNDECLARED_EFFECT")
      k == OnErr(WSParams([held EXCEPT !.used = {"net"}], w), w.s[1], w.c[4])
      message == Statements(Define(Push(Block(k, w.c[5])), w.s[2], StrType, FALSE), w.c[6])
  IN  Pop(UnusedEffects(Block(Pop(message), w.c[7]), w.c[3]))

CheckTest(c, i) ==
  Pop(Statements(Unit(c, i, c.root, [ret |-> Void, effects |-> KnownEffects, onErr |-> ""]), c.decls[i].tree.c[2]))

MissingMain(c) ==
  ErrIf(c, /\ ~\E i \in NamedHere(c, FuncKinds, "main") : IsOpen(c, i)
           /\ \A i \in DOMAIN c.decls : c.decls[i].tree.n # "test", "E_MISSING_MAIN")

Check(root, decls) ==
  LET Of(kinds) == SelectSeq([i \in DOMAIN decls |-> i], LAMBDA i : decls[i].tree.n \in kinds)
      types == Folded(CheckEnum, Folded(CheckStruct, Duplicates(NewChecker(root, decls)), Of({"struct"})), Of({"enum"}))
      routes == Folded(CheckRoute, Folded(CheckFunc, types, Of(FuncKinds)), Of({"route"}))
  IN  MissingMain(Folded(CheckTest, Folded(CheckWSRoute, routes, Of({"ws-route"})), Of({"test"})))
================================================================================
