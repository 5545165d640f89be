------------------------------ MODULE MCWebServer ------------------------------
(* A small site for TLC: a front page that includes a menu, a style sheet, a    *)
(* big image streamed from the directory, a Markdown post with and without      *)
(* base.html, a page that lists the posts, and a second style sheet beside the  *)
(* post.                                                                        *)
EXTENDS WebServer

CONSTANTS p1, p2

Index == Name(<<>>, "index", "html")
Menu == Name(<<>>, "menu", "html")
Base == Name(<<>>, "base", "html")
Style == Name(<<>>, "style", "css")
Photo == Name(<<>>, "photo", "png")
Post == Name(<<"blog">>, "post", "md")
BlogStyle == Name(<<"blog">>, "style", "css")
Tmp(n) == Name(<<>>, ".liaf-publish", n)
MCTmpOf == (p1 :> Tmp("1") @@ p2 :> Tmp("2"))

Node(text) == [ver |-> 0, text |-> text, front |-> <<>>, items |-> <<>>, date |-> 0,
               big |-> FALSE, link |-> FALSE]
PostLoop == [Tok("loop", Name(<<"post">>, "posts", "")) EXCEPT
               !.body = <<Tok("var", Name(<<"post">>, "url", ""))>>]
MCTemplate ==
  Index :> Node(<<Tok("include", Menu), Tok("ref", Style), Tok("absref", Photo), PostLoop>>)
  @@ Menu :> Node(<<Tok("absref", Photo)>>)
  @@ Base :> Node(<<Tok("ref", Style), Tok("slot", NoName)>>)
  @@ Style :> Node(<<>>) @@ BlogStyle :> Node(<<>>)
  @@ Photo :> [Node(<<>>) EXCEPT !.big = TRUE]
  @@ Post :> [Node(<<Tok("var", Name(<<>>, "title", ""))>>) EXCEPT
                !.front = [title |-> Name(<<>>, "hello", "")], !.date = 1]
  @@ Tmp("1") :> Node(<<>>) @@ Tmp("2") :> Node(<<>>)

MCWalkOrder == <<Tmp("1"), Tmp("2"), Base, Post, BlogStyle, Index, Menu, Photo, Style>>
All(S) == [f \in S |-> 1]
MCSites == {All({Index, Menu, Style, Photo}), All({Post, Base, BlogStyle})}
MCTargets == {Photo, Style, Tmp("1")}
MCEditable == {Style}
MCUrls == {Root, Name(<<"blog">>, "post", "")}
================================================================================
