-------------------------------- MODULE Running --------------------------------
(* What a program does, told from the trees of its source or from those of its  *)
(* Go: the calls that the world sees, in order, and what comes back.  Values    *)
(* are sequences of atoms; a result is <<"ok", v>> or <<"err", v>>.             *)
EXTENDS Syntax

(* A program: its functions, and the function that a call of one of them means. *)
Callee(prog, unit, e) ==
  IF e.n = "gocall" THEN CHOOSE i \in DOMAIN prog.fns : prog.fns[i].ident = e.s
  ELSE (CHOOSE b \in prog.binds : b[1] = unit /\ b[2] = e.s[1])[3]

(* A run: open holds the names whose result nobody has looked at, excused those *)
(* that were open at a break, a continue, a try that failed or a match that has *)
(* cases, and lost those that were still open when their function ended.        *)
Rounds == 3
VoidValue == <<"void">>
NewRun(prog, world) ==
  [prog |-> prog, world |-> world, log |-> <<>>, fn |-> [unit |-> 0], env |-> <<>>, args |-> <<>>,
   open |-> {}, excused |-> {}, lost |-> {}, at |-> "on", val |-> VoidValue]
On(m) == m.at = "on"
Valued(m, v) == [m EXCEPT !.val = v]
Returned(m, v) == [m EXCEPT !.at = "returned", !.val = v]
Excused(m) == [m EXCEPT !.excused = @ \cup m.open]
Logged(m, entry, v) == [m EXCEPT !.log = Append(@, entry), !.val = v]

IsRes(v) == v[1] \in {"ok", "err"}
Truth(b) == IF b THEN <<"true">> ELSE <<"false">>
Bind(m, x, v, tracked) ==
  IF x \in {"", "_"} THEN m
  ELSE [m EXCEPT !.env = (x :> v) @@ @, !.open = IF tracked /\ IsRes(v) THEN @ \cup {x} ELSE @ \ {x}]
Settle(m, e) == IF e.n = "IDENT" THEN [m EXCEPT !.open = @ \ {e.s[1]}] ELSE m

(* The calls of the library: what the world sees of them, and what they give.   *)
Answer(m, op) == IF op \in m.world THEN <<"err", <<"no">> \o <<op>>>> ELSE <<"ok", <<"text", op>>>>
Builtin(m, f, vs) ==
  CASE f = "println" -> Logged(m, <<f>> \o FlattenSeq(vs), VoidValue)
    [] f = "fs-read-file" -> Logged(m, <<f>> \o vs[1], Answer(m, vs[1][1]))
    [] f \in {"db-connect", "db-begin", "db-commit"} -> Logged(m, <<f>>, Answer(m, f))
    [] f = "fs-exists" -> Logged(m, <<f>> \o vs[1], Truth(vs[1][1] \notin m.world))
    [] f = "not" -> Valued(m, Truth(vs[1] = <<"false">>))
    [] f = "concat" -> Valued(m, FlattenSeq(vs))
    [] f \in {"ok", "err", "some"} -> Valued(m, <<f, vs[1]>>)
    [] f = "unwrap-or" -> Valued(m, IF vs[1][1] \in {"ok", "some"} THEN vs[1][2] ELSE vs[2])
    [] f = "json-response" -> Valued(m, <<"reply">> \o FlattenSeq(vs))
IsBuiltin(f) ==
  f \in {"println", "fs-read-file", "db-connect", "db-begin", "db-commit", "fs-exists", "not", "concat", "ok", "err", "some",
         "unwrap-or", "json-response", "field"}

(* What a match on v goes on with: the first case that has its tag, or else the *)
(* branch of its tag.  A name is given to what a result or an option holds.     *)
IsExpr(e) == e.n \in {"matchx", "switchx"}
Arm(e, v) ==
  LET tag == IF v[1] = "enum" THEN v[2] ELSE v[1]
      cases == e.c[4]
      k == cases[Min({i \in DOMAIN cases : Last(cases[i].c[1][1].s) \in {tag, "_"}})]
      branch == IF tag \in {"ok", "some"} THEN 1 ELSE 2
  IN  IF cases = <<>> THEN [name |-> e.s[branch], body |-> e.c[branch + 1]]
      ELSE [name |-> IF k.s = <<>> THEN "" ELSE k.s[1], body |-> k.c[IF IsExpr(e) THEN 3 ELSE 2]]
Into(m, e) ==
  LET v == m.val
      k == Settle(m, e.c[1][1])
  IN  Bind(IF e.c[4] = <<>> THEN k ELSE Excused(k), Arm(e, v).name, IF Len(v) > 1 THEN v[2] ELSE VoidValue,
           IsRes(v) /\ (e.n = "match" \/ e.c[4] # <<>>))

RECURSIVE Eval(_, _)
RECURSIVE Exec(_, _)
EvalAll(m, es) ==
  Folded(LAMBDA acc, e : IF ~On(acc.m) THEN acc
                           ELSE LET k == Eval(acc.m, e) IN [m |-> k, vs |-> Append(acc.vs, k.val)],
           [m |-> m, vs |-> <<>>], es)
Block(m, body) == Folded(LAMBDA k, s : IF On(k) THEN Exec(k, s) ELSE k, m, body)

(* A function runs in names of its own; the results it leaves open are lost.    *)
Invoke(m, i, vs) ==
  LET fn == m.prog.fns[i]
      args == [x \in ToSet(fn.params) |-> vs[CHOOSE j \in DOMAIN fn.params : fn.params[j] = x]]
      out == Block([m EXCEPT !.fn = fn, !.env = args, !.args = args, !.open = {}, !.excused = {}], fn.body)
      done == out.at \in {"on", "returned"}
  IN  [out EXCEPT !.fn = m.fn, !.env = m.env, !.args = m.args, !.open = m.open, !.excused = m.excused,
                  !.at = IF done THEN "on" ELSE @, !.val = IF out.at = "returned" THEN @ ELSE VoidValue,
                  !.lost = @ \cup IF done THEN {<<fn.unit, x>> : x \in out.open \ out.excused} ELSE {}]

(* The way out of a failed try.                                                 *)
Leave(m, error) ==
  LET k == Excused(m)
      h == Block([k EXCEPT !.env = (m.fn.onErr :> error) @@ m.args], m.fn.errBody)
  IN  IF m.fn.onErr = "" THEN Returned(k, <<"err", error>>)
      ELSE Returned(h, IF h.at = "returned" THEN h.val ELSE VoidValue)

Eval(m, e) ==
  LET one == Eval(m, e.c[1][1])
      all == EvalAll(m, e.c[1])
  IN  CASE e.n \in {"STRING", "INT", "BOOL"} -> Valued(m, e.s)
        [] e.n = "IDENT" -> Valued(m, m.env[e.s[1]])
        [] e.n = "value" -> Valued(m, m.env[e.s[1]][2])
        [] e.n = "call" /\ e.s[1] = "field" -> Valued(m, <<"enum", e.c[1][2].s[1]>>)
        [] e.n \in {"try", "valueOf"} ->
             CASE ~On(one) -> one
               [] On(one) /\ one.val[1] = "ok" -> Valued(one, one.val[2])
               [] OTHER -> IF e.n = "try" THEN Leave(one, one.val[2]) ELSE Valued(one, <<"zero">>)
        [] e.n = "bin" /\ e.s[1] \in {"and", "or"} ->
             IF On(one) /\ one.val = Truth(e.s[1] = "and") THEN Eval(one, e.c[1][2]) ELSE one
        [] e.n = "bin" /\ e.s[1] \notin {"and", "or"} ->
             IF ~On(all.m) THEN all.m
             ELSE Valued(all.m, IF e.s[1] = "eq" THEN Truth(all.vs[1] = all.vs[2]) ELSE all.vs[1] \o <<e.s[1]>> \o all.vs[2])
        [] e.n = "ifx" -> IF ~On(one) THEN one ELSE Eval(one, e.c[IF one.val = <<"true">> THEN 2 ELSE 3][1])
        [] IsExpr(e) -> IF ~On(one) THEN one ELSE Eval(Into(one, e), Arm(e, one.val).body[1])
        [] e.n \in {"call", "gocall"} ->
             LET k == IF e.s[1] = "unwrap-or" THEN Settle(all.m, e.c[1][1]) ELSE all.m
             IN  CASE ~On(k) -> k
                   [] On(k) /\ e.n = "call" /\ IsBuiltin(e.s[1]) -> Builtin(k, e.s[1], all.vs)
                   [] OTHER -> Invoke(k, Callee(m.prog, m.fn.unit, e), all.vs)

(* The rounds of a loop: cond says of a run and the number of a round whether   *)
(* there is one.                                                                *)
AfterBody(m) == CASE m.at = "continue" -> [m EXCEPT !.at = "on"] [] OTHER -> m
Ended(m) == IF m.at = "break" THEN [m EXCEPT !.at = "on"] ELSE m
While(m, s) ==
  LET Round(acc, i) ==
        LET c == Eval(acc.m, s.c[1][1])
        IN  CASE acc.over \/ ~On(acc.m) -> acc
              [] ~acc.over /\ On(acc.m) /\ (~On(c) \/ c.val # <<"true">>) -> [m |-> c, over |-> TRUE]
              [] OTHER -> [m |-> AfterBody(Block(c, s.c[2])), over |-> FALSE]
      end == Folded(Round, [m |-> m, over |-> FALSE], [i \in 1..Rounds |-> i])
  IN  IF On(end.m) /\ ~end.over THEN [end.m EXCEPT !.at = "stuck"] ELSE Ended(end.m)
Count == [n \in {"0", "1", "2"} |-> CASE n = "0" -> 0 [] n = "1" -> 1 [] OTHER -> 2]
ForRange(m, s) ==
  LET heads == EvalAll(m, s.c[1])
      Round(k, i) == IF On(k) THEN AfterBody(Block(Bind(k, s.s[1], <<i>>, FALSE), s.c[2])) ELSE k
      within == SelectSeq(<<"0", "1">>, LAMBDA i : Count[heads.vs[1][1]] <= Count[i] /\ Count[i] < Count[heads.vs[2][1]])
  IN  IF On(heads.m) THEN Ended(Folded(Round, heads.m, within)) ELSE heads.m

(* The value a case of an enum ends with is what the function returns.          *)
CaseBlock(m, v, body) ==
  IF v[1] = "enum" /\ m.fn.ret # Void /\ body # <<>> /\ Last(body).n = "do"
  THEN Block(m, Front(body) \o <<Return(Last(body).c[1])>>) ELSE Block(m, body)

(* A statement begins with the value of its expression, or of the first of its  *)
(* heads, except for the ones of WithoutValue.                                  *)
WithoutValue == {"panic", "break", "continue", "while", "for-range", "db-transaction"}
Tried(f) == Do(Node("try", <<>>, <<<<Call(f, <<>>)>>>>))
Begin(m, s) ==
  CASE s.n = "panic" -> [m EXCEPT !.at = "panic"]
    [] s.n \in {"break", "continue"} -> [Excused(m) EXCEPT !.at = s.n]
    [] s.n = "while" -> While(m, s)
    [] s.n = "for-range" -> ForRange(m, s)
    [] s.n = "db-transaction" -> Block(m, <<Tried("db-begin")>> \o s.c[2] \o <<Tried("db-commit")>>)

End(m, s, e) ==
  LET v == m.val
  IN  CASE s.n \in {"let", "set"} -> Bind(m, s.s[1], v, TRUE)
        [] s.n = "return" -> Returned(Settle(m, e), v)
        [] s.n \in {"do", "spawn"} -> m
        [] s.n = "if" -> Block(m, s.c[IF v = <<"true">> THEN 2 ELSE 3])
        [] s.n = "match" -> CaseBlock(Into(m, s), v, Arm(s, v).body)
        [] s.n = "switch" -> Block(m, Arm(s, v).body)
        [] s.n = "guard" -> LET kept == Bind(m, s.s[1], v, FALSE) IN IF v[1] = "ok" THEN kept ELSE Leave(kept, v[2])

Exec(m, s) ==
  LET e == IF s.n \in {"let", "set", "return", "do", "spawn"} THEN Last(s.c) ELSE s.c[1]
      k == IF e = <<>> THEN Valued(m, VoidValue) ELSE Eval(m, e[1])
  IN  CASE s.n \in WithoutValue -> Begin(m, s)
        [] s.n \notin WithoutValue /\ ~On(k) -> k
        [] OTHER -> End(k, s, IF e = <<>> THEN Nil ELSE e[1])

--------------------------------------------------------------------------------
(* Programs.  A unit is the index of the declaration it comes from; those that  *)
(* nothing in the program calls are where it starts.                            *)

UnitsOf(decls, kinds) == {i \in DOMAIN decls : decls[i].tree.n \in kinds}
Starts(decls) == {i \in DOMAIN decls : decls[i].tree.n \in {"route", "test"} \/ decls[i].tree.s[1] = "main"}
Unit(ident, unit, params, ret, onErr, errBody, body) ==
  [ident |-> ident, unit |-> unit, params |-> params, ret |-> ret, onErr |-> onErr, errBody |-> errBody, body |-> body]
WrittenUnit(i, d) ==
  LET Named(params) == [j \in DOMAIN params |-> params[j].s[1]]
      c == d.c
  IN  CASE d.n \in {"fn", "middleware"} -> Unit(<<>>, i, Named(c[1]), c[2][1], d.s[3], c[4], c[5])
        [] d.n = "route" -> Unit(<<>>, i, Named(c[3]), c[4][1], d.s[2], c[6], c[7])
        [] d.n = "test" -> Unit(<<>>, i, <<>>, Void, "", <<>>, c[2])
WithNames(d) == [j \in DOMAIN d.c[2] |-> d.c[2][j].s[1]]
Bound(binds, unit, f) == Max((CHOOSE b \in binds : b[1] = unit /\ b[2] = f)[3])

Written(decls, binds) ==
  LET units == UnitsOf(decls, {"fn", "middleware", "route", "test"})
      routes == UnitsOf(decls, {"route"})
  IN  [fns |-> [i \in units |-> WrittenUnit(i, decls[i].tree)],
       with |-> [i \in routes |-> [j \in DOMAIN WithNames(decls[i].tree) |-> Bound(binds, i, WithNames(decls[i].tree)[j])]],
       binds |-> {<<b[1], b[2], Max(b[3])>> : b \in binds}]

Built(go) ==
  LET all == ToSet(go.funcs) \cup {r.fn : r \in ToSet(go.routes)} \cup ToSet(go.tests)
      UnitOf(ident) == (CHOOSE f \in ToSet(go.funcs) : f.ident = ident).unit
  IN  [fns |-> [i \in {f.unit : f \in all} |-> CHOOSE f \in all : f.unit = i],
       with |-> [i \in {r.fn.unit : r \in ToSet(go.routes)} |->
                  LET r == CHOOSE x \in ToSet(go.routes) : x.fn.unit = i
                  IN  [j \in DOMAIN r.with |-> UnitOf(r.with[j])]],
       binds |-> {}]

(* What comes of a start.  A request goes through the middlewares of its route: *)
(* an error of one is the answer, what it gives is the request from there on.   *)
Outcome(prog, world, i) ==
  LET Through(m, j) ==
        LET k == Invoke(m, j, <<m.val>>)
        IN  CASE ~On(m) -> m [] On(m) /\ k.val[1] = "err" -> Returned(k, k.val[2]) [] OTHER -> Valued(k, k.val[2])
      asked == IF i \in DOMAIN prog.with THEN Folded(Through, Valued(NewRun(prog, world), <<"req">>), prog.with[i])
               ELSE NewRun(prog, world)
      end == IF On(asked) THEN Invoke(asked, i, [j \in DOMAIN prog.fns[i].params |-> asked.val]) ELSE asked
  IN  [at |-> IF end.at \in {"panic", "stuck"} THEN end.at ELSE "done", val |-> end.val, log |-> end.log, lost |-> end.lost]
Outcomes(prog, world, starts) == [i \in starts |-> Outcome(prog, world, i)]

--------------------------------------------------------------------------------
(* What the Go compiler asks of the functions: names of their own, calls of     *)
(* functions there are, blocks that end as their results say, no try in an      *)
(* on-err, whose closure it would be in, and names for what a match binds.      *)

RECURSIVE Within(_)
Within(n) == {n} \cup UNION {UNION {Within(n.c[i][j]) : j \in DOMAIN n.c[i]} : i \in DOMAIN n.c}
AllIn(body) == UNION {Within(s) : s \in ToSet(body)}
RECURSIVE Terminates(_)
Terminates(body) ==
  /\ body # <<>>
  /\ LET s == Last(body)
     IN  s.n \in {"return", "panic"} \/ (s.n \in {"if", "match"} /\ Terminates(s.c[2]) /\ Terminates(s.c[3]))
UnitCompiles(f) ==
  LET valued == f.ret \notin {Nil, Void}
      nodes == AllIn(f.body \o f.errBody)
  IN  /\ valued => Terminates(f.body) /\ (f.onErr # "" => Terminates(f.errBody))
      /\ \A n \in nodes : n.n = "return" => (n.c[1] # <<>>) = valued
      /\ \A n \in AllIn(f.errBody) : n.n = "guard" => n.s[2] # "on-err"
      /\ \A n \in nodes : n.n = "match" => n.s[1] # "" /\ (n.s[3] = "option" \/ n.s[2] # "")
      /\ \A n \in nodes : n.n = "matchx" => n.c[2] # <<>>

(* The Go calls of each unit, and the functions of a Go name.                   *)
Calls(go) ==
  LET all == ToSet(go.funcs) \cup {r.fn : r \in ToSet(go.routes)} \cup ToSet(go.tests)
  IN  UNION {{<<f.unit, n.s>> : n \in {x \in AllIn(f.body \o f.errBody) : x.n = "gocall"}} : f \in all}
      \cup UNION {{<<r.fn.unit, w>> : w \in ToSet(r.with)} : r \in ToSet(go.routes)}
Owners(go, ident) == {f.unit : f \in {x \in ToSet(go.funcs) : x.ident = ident}}
Compiles(go) ==
  /\ \A i, j \in DOMAIN go.funcs : go.funcs[i].ident = go.funcs[j].ident => i = j
  /\ \A call \in Calls(go) : Owners(go, call[2]) # {}
  /\ \A f \in ToSet(go.funcs) \cup {r.fn : r \in ToSet(go.routes)} \cup ToSet(go.tests) : UnitCompiles(f)

--------------------------------------------------------------------------------
(* Programs that Go runs in the order they are written in: no try after a call  *)
(* that the world sees in the same expression, nor where it may not be          *)
(* evaluated or is evaluated again; a match on an enum ends its function.       *)

Pure == {"ok", "err", "some", "concat", "not", "json-response", "unwrap-or", "field"}
HasTry(es) == \E n \in AllIn(es) : n.n = "try"
Later(e) ==
  CASE e.n \in {"call", "bin"} /\ e.s[1] \in {"and", "or"} -> Tail(e.c[1])
    [] e.n = "ifx" -> e.c[2] \o e.c[3]
    [] e.n = "matchx" -> e.c[2] \o e.c[3] \o FlattenSeq([i \in DOMAIN e.c[4] |-> e.c[4][i].c[3]])
    [] OTHER -> <<>>
First(e) == IF e.c = <<>> THEN <<>> ELSE IF Later(e) # <<>> THEN <<e.c[1][1]>> ELSE e.c[1]

RECURSIVE Walk(_, _)
Walk(w, e) ==
  LET alone == Walk([seen |-> FALSE, bad |-> w.bad], e.c[1][1])
      k == Folded(Walk, w, First(e))
      visible == (e.n = "call" /\ e.s[1] \notin Pure) \/ \E n \in AllIn(Later(e)) : n.n = "call" /\ n.s[1] \notin Pure
  IN  IF e.n = "try" THEN [w EXCEPT !.bad = alone.bad \/ w.seen]
      ELSE [seen |-> k.seen \/ visible, bad |-> k.bad \/ HasTry(Later(e))]
Heads(s) == IF s.n \in {"let", "set", "return", "do", "spawn", "send"} THEN Last(s.c) ELSE IF s.c = <<>> THEN <<>> ELSE s.c[1]
InOrder(s) ==
  IF s.n \in {"while", "spawn", "send"} THEN ~HasTry(Heads(s))
  ELSE ~Folded(Walk, [seen |-> FALSE, bad |-> FALSE], Heads(s)).bad

IsEnumMatch(s) ==
  s.n = "match" /\ \E k \in ToSet(s.c[4]) : Last(k.c[1][1].s) \notin {"ok", "err", "some", "none", "_"}
EndsUnit(s) == \A k \in ToSet(s.c[4]) : Terminates(k.c[2]) \/ (k.c[2] # <<>> /\ Last(k.c[2]).n = "do")
Statement == {"let", "set", "return", "do", "if", "match", "while", "for-range", "for-each", "spawn", "send"}
OrderlyBody(body) ==
  \A n \in AllIn(body) :
    /\ n.n \in Statement => InOrder(n)
    /\ IsEnumMatch(n) => n = Last(body) /\ EndsUnit(n)
Orderly(prog) == \A i \in DOMAIN prog.fns : OrderlyBody(prog.fns[i].body) /\ OrderlyBody(prog.fns[i].errBody)
================================================================================
