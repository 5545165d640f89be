--------------------------------- MODULE Syntax ---------------------------------
(* The two ends of the front end: the trees of pkg/ast and the texts they are   *)
(* written in.  A text is a sequence of lexemes, the runs of characters that no *)
(* blank separates; positions, and the spelling of names and numbers, are left  *)
(* out.                                                                         *)
EXTENDS Naturals, Sequences, FiniteSets, SequencesExt

--------------------------------------------------------------------------------
(* Trees.  A node has a kind, the names it holds, and its lists of children;    *)
(* "" is a name that is not there, an empty list a child that is nil.           *)

Node(n, s, c) == [n |-> n, s |-> s, c |-> c]
Nil == Node("nil", <<>>, <<>>)

Ident(x) == Node("IDENT", <<x>>, <<>>)
Atom(kind, v) == Node(kind, v, <<>>)
Call(f, args) == Node("call", <<f, "">>, <<args>>)
Bin(op, l, r) == Node("bin", <<op>>, <<<<l, r>>>>)
Do(e) == Node("do", <<>>, <<<<e>>>>)
Return(e) == Node("return", <<>>, <<e>>)

(* Both kinds of match: the bound names, whether it is an option's, then the    *)
(* value, the two branches and the cases.                                       *)
MatchOf(kind, names, val, ok, err, cases) == Node(kind, names, <<<<val>>, ok, err, cases>>)
Case(pattern, names, body, value) ==
  Node("case", names, <<<<Atom("pattern", pattern)>>, body, value>>)

Type(t) == Node("type", <<t>>, <<>>)
Applied(t, args) == Node("applied", <<t>>, <<args>>)
Field(f, t) == Node("field", <<f>>, <<<<t>>>>)
Names(kind, s) == [i \in 1..Len(s) |-> Atom(kind, <<s[i]>>)]
Fn(kind, name, pub, params, ret, effects, errVar, errBody, body) ==
  Node(kind, <<name, pub, errVar>>, <<params, <<ret>>, effects, errBody, body>>)
Route(method, path, with, params, ret, effects, errVar, errBody, body) ==
  Node("route", method \o <<errVar>>, <<<<Atom("STRING", path)>>, with, params, <<ret>>, effects, errBody, body>>)

(* FoldLeft, with each value told before the next step begins.                  *)
Folded(Op(_, _), base, seq) == FoldLeft(LAMBDA acc, x : CHOOSE r \in {Op(k, x) : k \in {acc}} : TRUE, base, seq)

Void == Type("void")
Constructors == {"chan", "list", "map", "option", "result"}

(* Go's value of s.x and its chain: (field (field s x) y).                      *)
FieldOf(base, f) == Call("field", <<base, Ident(f)>>)
Chain(base, fields) == FoldLeft(FieldOf, base, fields)

--------------------------------------------------------------------------------
(* Lexemes.                                                                     *)

Lexeme(c, s) == [c |-> c, s |-> s]
Word(w) == Lexeme("word", <<w>>)
Mark(p) == Lexeme("mark", <<p>>)
Quoted(raw) == Lexeme("quoted", raw)
Gap == Lexeme("gap", <<>>)

Operators == {"add", "sub", "mul", "div", "eq", "neq", "gt", "lt", "gte", "lte", "and", "or"}
Keywords == Operators \cup
  {"while", "for-range", "for-each", "break", "continue", "match", "case", "on-err", "route", "try",
   "ws-route", "on-open", "on-message", "on-close", "db-transaction", "pub", "test", "module",
   "import", "struct", "enum", "fields", "fn", "params", "returns", "effects", "body", "let", "set",
   "return", "if", "then", "else", "spawn", "send", "recv", "do", "call", "end"}
Bools == {"true", "false"}
================================================================================
