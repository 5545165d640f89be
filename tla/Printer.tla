-------------------------------- MODULE Printer --------------------------------
(* ast.Format: the canonical text of a module, always an S-expression.  Blanks  *)
(* between lexemes are gaps; lines and indentation are left out.                *)
EXTENDS Syntax

(* Lists of lexemes; every piece of text ends with a gap.                       *)
Text(lexemes) == lexemes \o <<Gap>>
W(w) == Text(<<Word(w)>>)
Paren(inside) == Text(<<Mark("(")>>) \o inside \o Text(<<Mark(")")>>)
Tagged(w, inside) == Paren(W(w) \o inside)
Concat(seq, f(_)) == FoldLeft(LAMBDA acc, x : acc \o f(x), <<>>, seq)
Words(seq) == Concat(seq, W)

(* Go's %q: escapes for quotes, backslashes and control characters.  The letters *)
(* of a few are the lexer's; the others it does not know (\a, \x07, \v).        *)
Quote(value) ==
  Quoted(Concat(value, LAMBDA ch :
    CASE ch \in {"quote", "backslash"} -> <<"backslash", ch>>
      [] ch = "newline" -> <<"backslash", "n">>
      [] ch = "return" -> <<"backslash", "r">>
      [] ch = "tab" -> <<"backslash", "t">>
      [] ch = "control" -> <<"backslash", "x">>
      [] OTHER -> <<ch>>))

Dotted(names) ==
  Text(Tail(Concat(names, LAMBDA f : <<Mark("."), Word(f)>>)))

RECURSIVE TypeText(_)
TypeText(t) == IF t.n = "applied" THEN Tagged(t.s[1], Concat(t.c[1], TypeText)) ELSE W(t.s[1])

(* s.x.y of a chain of fields that starts at a variable, or <<>>.               *)
RECURSIVE FieldPath(_)
FieldPath(e) ==
  IF e.n # "call" \/ e.s[1] # "field" \/ Len(e.c[1]) # 2 \/ e.c[1][2].n # "IDENT" THEN <<>>
  ELSE LET base == e.c[1][1]
           path == IF base.n = "IDENT" THEN base.s ELSE FieldPath(base)
       IN  IF path = <<>> \/ e.c[1][2].s[1] \in Bools THEN <<>> ELSE path \o e.c[1][2].s

PatternText(pattern) == Dotted(pattern.s)
Vars(names) == IF names = <<>> THEN <<>> ELSE Paren(Words(names))
Optional(name) == IF name = "" THEN <<>> ELSE W(name)

RECURSIVE FormatExpr(_)
Exprs(es) == Concat(es, FormatExpr)
FormatExpr(e) ==
  CASE e.n \in {"INT", "FLOAT"} ->
         IF Head(e.s) = "-" THEN <<Mark("-")>> \o Text(<<Lexeme(IF e.n = "INT" THEN "int" ELSE "float", Tail(e.s))>>)
         ELSE Text(<<Lexeme(IF e.n = "INT" THEN "int" ELSE "float", e.s)>>)
    [] e.n \in {"BOOL", "IDENT"} -> W(e.s[1])
    [] e.n = "STRING" -> Text(<<Quote(e.s)>>)
    [] e.n = "call" -> LET path == FieldPath(e)
                       IN  IF path # <<>> THEN Dotted(path)
                           ELSE Paren(Optional(e.s[2]) \o W(e.s[1]) \o Exprs(e.c[1]))
    [] e.n \in {"try", "recv"} -> Tagged(e.n, Exprs(e.c[1]))
    [] e.n = "bin" -> Tagged(e.s[1], Exprs(e.c[1]))
    [] e.n = "ifx" -> Tagged("if", Exprs(e.c[1]) \o Tagged("then", Exprs(e.c[2]))
                                    \o IF e.c[3] = <<>> THEN <<>> ELSE Tagged("else", Exprs(e.c[3])))
    [] e.n = "matchx" ->
         LET OneCase(k) == Tagged("case", PatternText(k.c[1][1]) \o Vars(k.s) \o Exprs(k.c[3]))
             none == IF e.s[2] = "_" THEN "" ELSE e.s[2]
         IN  Tagged("match", Exprs(e.c[1]) \o
               IF e.c[4] # <<>> THEN Concat(e.c[4], OneCase)
               ELSE IF e.s[3] = "option"
                    THEN Tagged("some", W(e.s[1]) \o Exprs(e.c[2])) \o Tagged("none", Optional(none) \o Exprs(e.c[3]))
                    ELSE Tagged("ok", W(e.s[1]) \o Exprs(e.c[2])) \o Tagged("err", W(e.s[2]) \o Exprs(e.c[3])))
    [] OTHER -> <<>>

RECURSIVE PrintStmt(_)
PrintBlock(body) == Concat(body, PrintStmt)

PrintIf(s) ==
  Tagged("if", Exprs(s.c[1]) \o Tagged("then", PrintBlock(s.c[2]))
               \o IF s.c[3] = <<>> THEN <<>> ELSE Tagged("else", PrintBlock(s.c[3])))

PrintMatch(s) ==
  LET OneCase(k) == Tagged("case", PatternText(k.c[1][1]) \o Vars(k.s) \o PrintBlock(k.c[2]))
      Branch(tag, name, body) == Tagged(tag, Optional(name) \o PrintBlock(body))
  IN  Tagged("match", Exprs(s.c[1]) \o
        IF s.c[4] # <<>> THEN Concat(s.c[4], OneCase)
        ELSE IF s.s[3] = "option" THEN Branch("some", s.s[1], s.c[2]) \o Branch("none", s.s[2], s.c[3])
        ELSE Branch("ok", s.s[1], s.c[2]) \o Branch("err", s.s[2], s.c[3]))

(* An expression stands alone as a statement when it begins with "(" and the    *)
(* statement parser knows it: a direct call or a try; all others need a do.     *)
PrintStmt(s) ==
  CASE s.n \in {"break", "continue"} -> Paren(W(s.n))
    [] s.n \in {"while", "for-range", "for-each", "db-transaction"} ->
         Tagged(s.n, Words(s.s) \o Exprs(s.c[1]) \o PrintBlock(s.c[2]))
    [] s.n = "match" -> PrintMatch(s)
    [] s.n = "let" -> Tagged("let", Words(s.s) \o Concat(s.c[1], TypeText) \o Exprs(s.c[2]))
    [] s.n \in {"set", "return", "spawn", "send"} -> Tagged(s.n, Words(s.s) \o Exprs(s.c[1]))
    [] s.n = "if" -> PrintIf(s)
    [] OTHER -> LET e == s.c[1][1]
                    bare == (e.n = "call" /\ e.s[2] = "" /\ FieldPath(e) = <<>>) \/ e.n = "try"
                IN  IF bare THEN FormatExpr(e) ELSE Tagged("do", FormatExpr(e))

IsParenExpr(e) == (e.n = "call" /\ FieldPath(e) = <<>>) \/ e.n \in {"bin", "ifx", "matchx", "try"}

(* The last statement of a function with a result leaves its return out.        *)
PrintLast(s, ret) ==
  IF s.n = "return" /\ ret # Void /\ s.c[1] # <<>> /\ IsParenExpr(s.c[1][1])
  THEN Exprs(s.c[1]) ELSE PrintStmt(s)

Pair(x) == Paren(W(x.s[1]) \o TypeText(x.c[1][1]))
Sorted(effects) ==
  LET names == [i \in 1..Len(effects) |-> effects[i].s[1]]
      Rank == [e \in ToSet(names) |-> CASE e = "db" -> 1 [] e = "io" -> 2 [] e = "net" -> 3 [] OTHER -> 4]
  IN  SortSeq(names, LAMBDA a, b : Rank[a] < Rank[b])
(* Mutant: the effects are printed from the last to the first.                  *)
EffectsBackwards(effects) == Tagged("effects", Words(Reverse([i \in 1..Len(effects) |-> effects[i].s[1]])))
EffectsText(effects) == Tagged("effects", Words(Sorted(effects)))
OnErrText(var, body) == IF var = "" THEN <<>> ELSE Tagged("on-err", W(var) \o PrintBlock(body))
BodyText(body, ret) ==
  IF body = <<>> THEN <<>> ELSE PrintBlock(Front(body)) \o PrintLast(Last(body), ret)

PrintFunc(f) ==
  Paren(Optional(f.s[2]) \o W(f.n) \o W(f.s[1]) \o Paren(Concat(f.c[1], Pair)) \o TypeText(f.c[2][1])
        \o EffectsText(f.c[3]) \o OnErrText(f.s[3], f.c[4]) \o BodyText(f.c[5], f.c[2][1]))

PrintRoute(r) ==
  Tagged("route", W(r.s[1]) \o Exprs(r.c[1])
         \o (IF r.c[2] = <<>> THEN <<>> ELSE Tagged("with", Concat(r.c[2], LAMBDA m : W(m.s[1]))))
         \o Paren(Concat(r.c[3], Pair)) \o TypeText(r.c[4][1]) \o EffectsText(r.c[5])
         \o OnErrText(r.s[2], r.c[6]) \o BodyText(r.c[7], r.c[4][1]))

(* Blocks without a statement are not printed, but for on-message.              *)
PrintWSRoute(w) ==
  LET Block(tag, body) == IF body = <<>> THEN <<>> ELSE Tagged(tag, PrintBlock(body))
  IN  Tagged("ws-route", Exprs(w.c[1]) \o Tagged("params", Concat(w.c[2], Pair)) \o EffectsText(w.c[3])
             \o OnErrText(w.s[1], w.c[4]) \o Block("on-open", w.c[5])
             \o Tagged("on-message", W(w.s[2]) \o PrintBlock(w.c[6])) \o Block("on-close", w.c[7]))

PrintStruct(s) == Paren(Optional(s.s[2]) \o W("struct") \o W(s.s[1]) \o Concat(s.c[1], Pair))
PrintEnum(e) ==
  LET Variant(v) == IF v.c[1] = <<>> THEN W(v.s[1]) ELSE Paren(W(v.s[1]) \o Concat(v.c[1], Pair))
  IN  Paren(Optional(e.s[2]) \o W("enum") \o W(e.s[1]) \o Concat(e.c[1], Variant))

PrintDecl(d) ==
  CASE d.n = "import" -> Tagged("import", Exprs(d.c[1]))
    [] d.n = "struct" -> PrintStruct(d)
    [] d.n = "enum" -> PrintEnum(d)
    [] d.n \in {"fn", "middleware"} -> PrintFunc(d)
    [] d.n = "route" -> PrintRoute(d)
    [] d.n = "ws-route" -> PrintWSRoute(d)

(* The last declaration carries the closing parenthesis of the module; a test   *)
(* is not printed, and the parenthesis with it.                                 *)
PrintTopLevel(d, isLast) ==
  IF d.n = "test" THEN <<>> ELSE PrintDecl(d) \o IF isLast THEN Text(<<Mark(")")>>) ELSE <<>>

Format(mod) ==
  LET ds == mod.c[1]
      each == [i \in 1..Len(ds) |-> PrintTopLevel(ds[i], i = Len(ds))]
  IN  Text(<<Mark("(")>>) \o W("module") \o W(mod.s[1])
      \o IF ds = <<>> THEN Text(<<Mark(")")>>) ELSE FlattenSeq(each)
================================================================================
