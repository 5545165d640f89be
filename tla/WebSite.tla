-------------------------------- MODULE WebSite --------------------------------
(* The content pipeline of pkg/web: how a directory becomes the map of routes   *)
(* the server answers from (cache_load.go, template.go, fingerprint.go), and    *)
(* how a request finds its asset there (server.go).                             *)
(*                                                                              *)
(* A file name or a route is [dir, base, ext]; the route of a directory loses   *)
(* its last slash, because the lookup cleans every path first.  A document is   *)
(* a sequence of tokens: the fixed text of one version of a file, and the       *)
(* directives the pipeline replaces.  Escaping, minifying and compressing are   *)
(* left out, and a content's hash is its version number.                        *)
EXTENDS Naturals, Sequences, FiniteSets, SequencesExt

Name(d, b, e) == [dir |-> d, base |-> b, ext |-> e]
Root == Name(<<>>, "", "")
NoName == Name(<<>>, "", "none")

(* A sequence of whatever is in it.                                             *)
IsSeq(s) == s \in Seq(ToSet(s))

(* f applied to every element, the results joined.                              *)
Expand(text, f(_)) == FlattenSeq([i \in 1..Len(text) |-> f(text[i])])

(* Token kinds: text, layout, include, slot, loop, var, ref (relative), absref, *)
(* error, loc (a line of the sitemap); v is a version, 0 when there is none.    *)
Tok(kind, to) == [t |-> kind, to |-> to, v |-> 0, body |-> <<>>]

(* What a document is before the last pass: no reference carries a fingerprint. *)
Unmarked(k) ==
  /\ k \in [t : {k.t}, to : {k.to}, v : {k.v}, body : {k.body}]
  /\ k.t \in {"ref", "absref"} => k.v = 0 /\ k.to = Name(k.to.dir, k.to.base, k.to.ext)
Doc(text) ==
  /\ IsSeq(text)
  /\ \A k \in ToSet(text) : /\ Unmarked(k) /\ IsSeq(k.body)
                            /\ \A b \in ToSet(k.body) : Unmarked(b)

HtmlExts == {"html", "htm"}
MdExts == {"md", "markdown"}
HeavyExts == {"mp4", "pdf", "zip"}
RamExts == HtmlExts \cup MdExts \cup {"css", "js", "json", "svg"}
RefExts == {"css", "js", "png", "svg"}
HiddenBases == {".liaf-publish", ".git"}

(* Mutant: only hidden directories are skipped.                                 *)
IsHiddenDir(f) == \E i \in 1..Len(f.dir) : f.dir[i] \in HiddenBases

IsHidden(f) == f.base \in HiddenBases \/ \E i \in 1..Len(f.dir) : f.dir[i] \in HiddenBases

(* What a file holds of its own has no version: the pipeline gives them out.    *)
Bare(text) == \A k \in ToSet(text) : k.v = 0 /\ \A b \in ToSet(k.body) : b.v = 0

(* site : name -> [ver, text, front, items, date, big, link]                     *)
IsNode(n) ==
  /\ n \in [ver : {n.ver}, text : {n.text}, front : {n.front}, items : {n.items},
            date : {n.date}, big : {n.big}, link : {n.link}]
  /\ Doc(n.text) /\ Bare(n.text) /\ IsSeq(n.items)
Source(site, f) == <<[Tok("text", f) EXCEPT !.v = site[f].ver]>> \o site[f].text

(* A target is looked for beside the file first, then from the root; up is a    *)
(* target that starts with "../", which is refused outright.                    *)
ResolveIncludePath(site, dir, to) ==
  LET near == Name(dir \o to.dir, to.base, to.ext)
  IN  IF to.dir # <<>> /\ Head(to.dir) = ".." THEN NoName
      ELSE IF near \in DOMAIN site THEN near
      ELSE IF to \in DOMAIN site THEN to ELSE NoName

HasSlot(text) == \E i \in 1..Len(text) : text[i].t = "slot"

(* Every slot of a layout receives the page; a layout without one precedes it.  *)
Fill(layout, page) ==
  IF HasSlot(layout)
  THEN Expand(layout, LAMBDA k : IF k.t = "slot" THEN page ELSE <<k>>)
  ELSE layout \o page

MaxIncludeDepth == 10

(* One file, given what every file is one level deeper: its first layout        *)
(* directive, when it can be resolved, wraps the page and all of them disappear; *)
(* then every include is replaced by its own expansion.                         *)
ExpandFile(site, f, deeper) ==
  LET raw == Source(site, f)
      layouts == {i \in 1..Len(raw) : raw[i].t = "layout"}
      layout == IF layouts = {} THEN NoName
                ELSE ResolveIncludePath(site, f.dir, raw[Min(layouts)].to)
      laid == IF layout = NoName THEN raw
              ELSE Fill(deeper[layout],
                        Expand(raw, LAMBDA k : IF k.t = "layout" THEN <<>> ELSE <<k>>))
      Included(k) == LET g == ResolveIncludePath(site, f.dir, k.to)
                     IN  IF g = NoName THEN <<Tok("error", k.to)>> ELSE deeper[g]
  IN  Expand(laid, LAMBDA k : IF k.t = "include" THEN Included(k) ELSE <<k>>)

(* left counts the levels that remain: below the last a file stays as it is.    *)
ProcessHTML(site, f) ==
  LET page[left \in 0..(MaxIncludeDepth + 1)] ==
        [g \in DOMAIN site |-> IF left = 0 THEN Source(site, g)
                               ELSE ExpandFile(site, g, page[left - 1])]
  IN  page[MaxIncludeDepth + 1][f]

(* A variable may carry the prefix of its scope: post.title, page.title.        *)
Replaced(k, vars, scope) ==
  IF k.t = "var" /\ k.to.dir \in {<<>>, <<scope>>} /\ k.to.base \in DOMAIN vars
  THEN Tok("text", vars[k.to.base]) ELSE k

ProcessVariables(text, vars) ==
  LET In(s) == [j \in 1..Len(s) |-> Replaced(s[j], vars, "page")]
  IN  [i \in 1..Len(text) |-> Replaced([text[i] EXCEPT !.body = In(@)], vars, "page")]

(* A loop token names its item variable (dir), its collection (base) and body.  *)
ProcessTemplateLoops(text, colls) ==
  LET Items(k) == IF k.to.base \in DOMAIN colls THEN colls[k.to.base] ELSE <<>>
      Once(k, item) == [j \in 1..Len(k.body) |-> Replaced(k.body[j], item.vals, k.to.dir[1])]
  IN  Expand(text, LAMBDA k : IF k.t = "loop" THEN Expand(Items(k), LAMBDA item : Once(k, item))
                              ELSE <<k>>)

(* Mutant: the root is looked at first.                                         *)
FingerprintFromRoot(dir, text, hashes) ==
  LET Hash(g) == IF g \in DOMAIN hashes THEN hashes[g] ELSE 0
      Beside(k) == IF k.t = "absref" THEN k.to ELSE Name(dir \o k.to.dir, k.to.base, k.to.ext)
      Mark(k) == [k EXCEPT !.v = IF Hash(k.to) # 0 THEN Hash(k.to) ELSE Hash(Beside(k))]
  IN  [i \in 1..Len(text) |->
         IF text[i].t \in {"ref", "absref"} /\ text[i].to.ext \in RefExts
         THEN Mark(text[i]) ELSE text[i]]

(* A reference gets the hash of the file beside the page, or else of the same   *)
(* path from the root, when there is one.                                       *)
FingerprintHTML(dir, text, hashes) ==
  LET Hash(g) == IF g \in DOMAIN hashes THEN hashes[g] ELSE 0
      Beside(k) == IF k.t = "absref" THEN k.to ELSE Name(dir \o k.to.dir, k.to.base, k.to.ext)
      Mark(k) == [k EXCEPT !.v = IF Hash(Beside(k)) # 0 THEN Hash(Beside(k)) ELSE Hash(k.to)]
  IN  [i \in 1..Len(text) |->
         IF text[i].t \in {"ref", "absref"} /\ text[i].to.ext \in RefExts
         THEN Mark(text[i]) ELSE text[i]]

Asset(f, ver, body, disk) == [of |-> f, ver |-> ver, body |-> body, disk |-> disk]
Put(fn, key, val) == [x \in DOMAIN fn \cup {key} |-> IF x = key THEN val ELSE fn[x]]

EmptyWalk == [assets |-> <<>>, hashes |-> <<>>, html |-> <<>>, md |-> <<>>, colls |-> <<>>]

PostItem(site, f) ==
  [date |-> site[f].date,
   vals |-> [x \in {"url", "title"} \cup DOMAIN site[f].front |->
               IF x = "url" THEN Name(f.dir, f.base, "")
               ELSE IF x \in DOMAIN site[f].front THEN site[f].front[x]
               ELSE Name(<<>>, f.base, "")]]

(* What the walk does with one file, in the order of its tests.  An HTML page   *)
(* is expanded here, from the files as they are at this moment.                 *)
Visit(walk, site, f) ==
  LET posts == IF "posts" \in DOMAIN walk.colls THEN walk.colls["posts"] ELSE <<>>
      Stored(w, disk) == [w EXCEPT !.assets = Put(@, f, Asset(f, site[f].ver, <<>>, disk)),
                                   !.hashes = Put(@, f, site[f].ver)]
  IN  IF IsHidden(f) \/ site[f].link THEN walk ELSE
      CASE f.ext \in HeavyExts \/ (site[f].big /\ f.ext \notin RamExts) -> Stored(walk, TRUE)
        [] f.ext \in MdExts ->
             [walk EXCEPT !.md = Append(@, [of |-> f, front |-> site[f].front, text |-> Source(site, f)]),
                          !.colls = Put(@, "posts", Append(posts, PostItem(site, f)))]
        [] f.ext \in HtmlExts ->
             [walk EXCEPT !.html = Append(@, [rel |-> f, vars |-> <<>>,
                                              text |-> ProcessHTML(site, f)])]
        [] f.ext = "json" /\ f.dir # <<>> /\ Head(f.dir) = "data" ->
             Stored([walk EXCEPT !.colls = Put(@, f.base, site[f].items)], FALSE)
        [] OTHER -> Stored(walk, FALSE)

(* The posts, newest first, equal dates in the order of the walk.               *)
ByDate(posts) ==
  LET Before(i, j) == \/ posts[i].date > posts[j].date
                      \/ posts[i].date = posts[j].date /\ i < j
      order == SetToSortSeq(1..Len(posts), Before)
  IN  [n \in 1..Len(posts) |-> posts[order[n]]]

(* Pass 2: a Markdown page takes the layout it names, or base.html when the     *)
(* site has one, from the files as they are now.                                *)
MarkdownPage(site, m) ==
  LET base == Name(<<>>, "base", "html")
      wanted == IF "layout" \in DOMAIN m.front THEN m.front["layout"]
                ELSE IF base \in DOMAIN site THEN base ELSE NoName
      layout == IF wanted = NoName THEN NoName ELSE ResolveIncludePath(site, m.of.dir, wanted)
      laid == IF layout = NoName THEN m.text
              ELSE Fill(ProcessHTML(site, layout), m.text)
  IN  [rel |-> Name(m.of.dir, m.of.base, "html"), vars |-> m.front,
       text |-> ProcessVariables(laid, m.front)]

(* The routes a page answers besides its own name.                              *)
CleanRoutes(f) ==
  IF f = Name(<<>>, "index", "html") THEN {Root}
  ELSE IF f.base = "index" /\ f.ext = "html" THEN {Name(Front(f.dir), Last(f.dir), "")}
  ELSE {IF f.ext = "html" THEN Name(f.dir, f.base, "") ELSE f}

SitemapName == Name(<<>>, "sitemap", "xml")
RobotsName == Name(<<>>, "robots", "txt")

(* Passes 3 and 4: loops, variables and hashes of every page, HTML files before *)
(* Markdown ones, the later page taking a route both claim; then a sitemap and  *)
(* a robots.txt where the site brings none.                                     *)
Finish(walk, site) ==
  LET colls == IF "posts" \in DOMAIN walk.colls
               THEN [walk.colls EXCEPT !["posts"] = ByDate(@)] ELSE walk.colls
      pages == walk.html \o [i \in 1..Len(walk.md) |-> MarkdownPage(site, walk.md[i])]
      Page(p) == Asset(p.rel, 0, FingerprintHTML(p.rel.dir,
                         ProcessVariables(ProcessTemplateLoops(p.text, colls), p.vars),
                         walk.hashes), FALSE)
      Claims(p, r) == r \in {p.rel} \cup CleanRoutes(p.rel)
      claimed == UNION {{p.rel} \cup CleanRoutes(p.rel) : p \in ToSet(pages)}
      LastOf(r) == CHOOSE i \in 1..Len(pages) :
                     Claims(pages[i], r) /\ \A j \in (i + 1)..Len(pages) : ~Claims(pages[j], r)
      routed == [r \in DOMAIN walk.assets \cup claimed |->
                   IF r \in claimed THEN Page(pages[LastOf(r)]) ELSE walk.assets[r]]
      locs == SetToSeq({Tok("loc", r) : r \in UNION {CleanRoutes(p.rel) : p \in ToSet(pages)}})
      Offer(assets, f, body) == IF f \in DOMAIN assets THEN assets
                                ELSE Put(assets, f, Asset(f, 0, body, FALSE))
  IN  IF pages = <<>> THEN routed
      ELSE Offer(Offer(routed, SitemapName, locs), RobotsName, <<>>)

(* The five lookups of a request, in order, in one map of routes.               *)
FindAsset(assets, p) ==
  LET inDir == IF p = Root THEN <<>> ELSE Append(p.dir, p.base)
      tries == <<p>>
               \o (IF p.ext = "" THEN <<Name(inDir, "index", "html"), Name(p.dir, p.base, "html")>>
                                 ELSE <<>>)
               \o (IF p.dir # <<>> THEN <<Name(<<>>, p.base, p.ext)>> ELSE <<>>)
               \o (IF p.ext = "" THEN <<Name(<<>>, "index", "html")>> ELSE <<>>)
      hits == {i \in 1..Len(tries) : tries[i] \in DOMAIN assets}
  IN  IF hits = {} THEN NoName ELSE tries[Min(hits)]

--------------------------------------------------------------------------------
(* The versions of a file that a map shows, as an asset or inside a page.       *)
Versions(assets, f) ==
  {assets[r].ver : r \in {x \in DOMAIN assets : assets[x].of = f /\ assets[x].ver # 0}}
  \cup UNION {{k.v : k \in {x \in ToSet(assets[r].body) : x.t = "text" /\ x.to = f /\ x.v # 0}} :
               r \in DOMAIN assets}

(* Another source among the names makes a page for the route of f, or for f     *)
(* itself: about.md hides about.html and a file about without an extension.     *)
PagesMade(f) == IF f.ext \in HtmlExts THEN {f}
                ELSE IF f.ext \in MdExts THEN {Name(f.dir, f.base, "html")} ELSE {}
RouteFor(f) == IF f.ext \in MdExts THEN Name(f.dir, f.base, "html") ELSE f
Shadowed(f, names) ==
  \E g \in names \ {f} : \E page \in PagesMade(g) : RouteFor(f) \in {page} \cup CleanRoutes(page)
================================================================================
