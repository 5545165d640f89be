-------------------------------- MODULE FrontEnd --------------------------------
(* What a text means: the readers and the printer put together, and the trees   *)
(* that the canonical text does not do justice to.                              *)
EXTENDS ParserLinear, Printer

(* What two trees that mean the same may differ in: the order of the effects,   *)
(* (call field ...) written for a dotted name, and the branches of a match that *)
(* has cases and the values of the cases of a statement, which the checker does *)
(* not look at.                                                                 *)
Effectful(kind, cases) ==
  IF kind = "matchx" THEN cases ELSE [i \in 1..Len(cases) |-> [cases[i] EXCEPT !.c[3] = <<>>]]
RECURSIVE Normal(_)
NormalList(s) ==
  IF s # <<>> /\ s[1].n = "effect" THEN Names("effect", Sorted(s)) ELSE [i \in 1..Len(s) |-> Normal(s[i])]
Normal(n) ==
  LET c == [i \in 1..Len(n.c) |-> NormalList(n.c[i])]
  IN  CASE n.n = "call" /\ FieldPath(n) # <<>> -> Node("call", <<n.s[1], "">>, c)
        [] n.n \in {"match", "matchx"} /\ n.c[4] # <<>> -> MatchOf(n.n, NoNames, c[1][1], <<>>, <<>>, Effectful(n.n, c[4]))
        [] OTHER -> Node(n.n, n.s, c)

RECURSIVE Nodes(_)
Nodes(n) == {n} \cup UNION {UNION {Nodes(n.c[i][j]) : j \in 1..Len(n.c[i])} : i \in 1..Len(n.c)}

(* The trees whose canonical text says less than they do, or does not parse:    *)
(* tests, empty branches, characters the lexer has no escape for, untyped lists,*)
(* fields named by a reserved word, cases whose first statement is taken for    *)
(* the names of the pattern or that have several, and an if or a match that is  *)
(* what a function returns.                                                     *)
ReservedField(e) ==
  e.n = "call" /\ e.s = <<"field", "">> /\ FieldPath(e) = <<>> /\ Len(e.c[1]) > 1 /\ e.c[1][2].s[1] \in Keywords
Takes(text) == text # <<>> /\ Head(text) = Mark("(")
LastOf(fn) ==
  LET body == Last(fn.c) IN
  IF fn.c[IF fn.n = "route" THEN 4 ELSE 2] # <<Void>> /\ body # <<>> /\ Last(body).n = "return"
  THEN Last(body).c[1] ELSE <<>>
Unprintable(n) ==
  \/ n.n = "test"
  \/ n.n = "if" /\ n.c[2] = <<>>
  \/ n.n = "STRING" /\ "control" \in ToSet(n.s)
  \/ n.n = "let" /\ n.c[1] = <<>> /\ n.c[2][1].n = "call" /\ n.c[2][1].s[1] \in Constructors
  \/ n.n = "do" /\ ReservedField(n.c[1][1])
  \/ n.n = "match" /\ \E k \in ToSet(n.c[4]) : k.s = <<>> /\ k.c[2] # <<>>
  \/ n.n = "matchx" /\ \E k \in ToSet(n.c[4]) : Len(k.c[2]) > 1 \/ (k.s = <<>> /\ Takes(Exprs(k.c[3])))
  \/ n.n = "bin" /\ n.s[1] = "not"
  \/ n.n \in {"fn", "middleware", "route"} /\ \E e \in ToSet(LastOf(n)) : e.n \in {"ifx", "matchx"} \/ ReservedField(e)
IsPrintable(tree) == \A n \in Nodes(tree) : ~Unprintable(n)
================================================================================
