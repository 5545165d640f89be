---------------------------------- MODULE Lexer ----------------------------------
(* pkg/lexer and pkg/token: the tokens of a text.                               *)
EXTENDS Syntax

Token(k, v) == [k |-> k, v |-> v]
EOF == Token("EOF", <<"">>)

LookupIdent(w) == IF w \in Keywords THEN w ELSE IF w \in Bools THEN "BOOL" ELSE "IDENT"

(* A reserved word may name a field, a function or a module; true may not.      *)
IsName(tok) == tok.k = "IDENT" \/ tok.k \in Keywords
IsOperator(k) == k \in Operators \cup {"not"}

Single == [p \in {"(", ")", ",", ":", ".", "=", "!", "+", "-", "*", "/", "<", ">"} |->
             CASE p = "!" -> "not" [] p = "+" -> "add" [] p = "-" -> "sub" [] p = "*" -> "mul"
               [] p = "/" -> "div" [] p = "<" -> "lt" [] p = ">" -> "gt" [] OTHER -> p]
Double == [p \in {"==", "!=", "<=", ">=", "&&", "||"} |->
             CASE p = "==" -> "eq" [] p = "!=" -> "neq" [] p = "<=" -> "lte" [] p = ">=" -> "gte"
               [] p = "&&" -> "and" [] OTHER -> "or"]

(* The escapes of a string literal: what the character after a backslash means. *)
Escapes == [x \in {"quote", "backslash", "n", "r", "t"} |->
              CASE x = "n" -> "newline" [] x = "r" -> "return" [] x = "t" -> "tab" [] OTHER -> x]

(* The value of a literal, or a failure: an unknown escape, a bare newline.     *)
(* A \u escape is one character of the raw text.                                *)
ReadString(raw) ==
  LET at[i \in 1..Len(raw) + 1] ==
        IF i > Len(raw) THEN <<>>
        ELSE IF raw[i] = "newline" THEN <<"bad">>
        ELSE IF raw[i] # "backslash" THEN <<raw[i]>> \o at[i + 1]
        ELSE IF i < Len(raw) /\ raw[i + 1] \in DOMAIN Escapes
             THEN <<Escapes[raw[i + 1]]>> \o at[i + 2]
        ELSE <<"bad">>
  IN  IF "bad" \in ToSet(at[1]) THEN Token("ILLEGAL", <<"string">>) ELSE Token("STRING", at[1])

IsMark(text, i, p) == i <= Len(text) /\ text[i] = Mark(p)
IsWord(text, i) == i <= Len(text) /\ text[i].c = "word"
IsNumber(text, i) == i <= Len(text) /\ text[i].c \in {"int", "float"}

(* Number: a malformed one when a word or a point that no digit follows sticks  *)
(* to it.                                                                       *)
ReadNumber(text, i, v) ==
  IF IsWord(text, i + 1) \/ (text[i].c = "int" /\ IsMark(text, i + 1, "."))
  THEN Token("ILLEGAL", v)
  ELSE Token(IF text[i].c = "int" THEN "INT" ELSE "FLOAT", v)

(* The lexeme after a word and the fields that follow it without a blank.       *)
RECURSIVE PathEnd(_, _)
PathEnd(text, i) == IF IsMark(text, i, ".") /\ IsWord(text, i + 1) THEN PathEnd(text, i + 2) ELSE i
PathSegments(text, i, j) == [n \in 1..((j - i + 1) \div 2) |-> text[i + 2 * (n - 1)].s[1]]

(* The tokens from the i-th lexeme on.                                          *)
RECURSIVE LexFrom(_, _)
LexFrom(text, i) ==
  IF i > Len(text) THEN <<EOF>>
  ELSE LET x == text[i]
           w == x.s[1]
           j == PathEnd(text, i + 1)
       IN  CASE x.c = "gap" -> LexFrom(text, i + 1)
             [] x.c = "quoted" -> <<ReadString(x.s)>> \o LexFrom(text, i + 1)
             [] x.c = "word" /\ j > i + 1 -> <<Token("PATH", PathSegments(text, i, j))>> \o LexFrom(text, j)
             [] x.c = "word" /\ j = i + 1 -> <<Token(LookupIdent(w), x.s)>> \o LexFrom(text, i + 1)
             [] IsNumber(text, i) -> <<ReadNumber(text, i, x.s)>> \o LexFrom(text, i + 1)
             [] x = Mark("-") /\ IsNumber(text, i + 1) ->
                  <<ReadNumber(text, i + 1, <<"-">> \o text[i + 1].s)>> \o LexFrom(text, i + 2)
             [] x.c = "mark" /\ w \in DOMAIN Double -> <<Token(Double[w], <<Double[w]>>)>> \o LexFrom(text, i + 1)
             [] x.c = "mark" /\ w \in DOMAIN Single /\ ~(w = "-" /\ IsNumber(text, i + 1)) ->
                  <<Token(Single[w], <<Single[w]>>)>> \o LexFrom(text, i + 1)
             [] OTHER -> <<Token("ILLEGAL", x.s)>> \o LexFrom(text, i + 1)

NextTokens(text) == LexFrom(text, 1)
================================================================================
