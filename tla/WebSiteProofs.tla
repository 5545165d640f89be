---------------------------- MODULE WebSiteProofs ----------------------------
(* Proofs about the content pipeline, for any directory: the sequences it        *)
(* builds, the files it expands, the map of routes it makes.                    *)
EXTENDS WebSite, SequenceTheorems, FiniteSetTheorems, WellFoundedInduction, TLAPS

-----------------------------------------------------------------------------
(* Induction over the naturals, as a statement about sets of them.              *)

LEMMA LeastNat ==
  ASSUME NEW T \in SUBSET Nat, T # {}
  PROVE  \E n \in T : \A m \in T : n <= m
<1> DEFINE R == OpToRel(<, Nat)
<1>1. R = {ss \in Nat \X Nat : ss[1] < ss[2]}
  BY DEF OpToRel
<1>2. IsWellFoundedOn(R, Nat)
  BY NatLessThanWellFounded
<1> HIDE DEF R
<1>3. PICK n \in T : \A m \in T : ~(<<m, n>> \in R)
  BY <1>2, WFMin
<1>4. \A m \in T : ~(m < n)
  BY <1>1, <1>3
<1>5. QED
  BY <1>4

LEMMA SetInduction ==
  ASSUME NEW T, 0 \in T, \A n \in Nat : n \in T => n + 1 \in T
  PROVE  Nat \subseteq T
<1> SUFFICES ASSUME Nat \ T # {} PROVE FALSE
  OBVIOUS
<1>1. PICK n \in Nat \ T : \A m \in Nat \ T : n <= m
  BY LeastNat
<1>2. n # 0 /\ n - 1 \in Nat /\ n - 1 \in T
  BY <1>1
<1>3. (n - 1) + 1 = n
  BY <1>1
<1>4. QED
  BY <1>1, <1>2, <1>3

-----------------------------------------------------------------------------
(* Sequences and what is in them.                                               *)
LEMMA SeqOver ==
  ASSUME NEW S, NEW s \in Seq(S)
  PROVE  /\ IsSeq(s) /\ ToSet(s) \subseteq S
         /\ Len(s) \in Nat /\ DOMAIN s = 1..Len(s)
<1>1. Len(s) \in Nat /\ DOMAIN s = 1..Len(s) /\ \A i \in 1..Len(s) : s[i] \in S
  OBVIOUS
<1>2. s \in [1..Len(s) -> ToSet(s)]
  BY <1>1 DEF ToSet
<1>3. s \in Seq(ToSet(s))
  BY <1>1, <1>2
<1>4. QED
  BY <1>1, <1>3 DEF IsSeq, ToSet

LEMMA SeqFacts ==
  ASSUME NEW s, IsSeq(s)
  PROVE  /\ Len(s) \in Nat /\ DOMAIN s = 1..Len(s)
         /\ \A i \in 1..Len(s) : s[i] \in ToSet(s)
         /\ \A k \in ToSet(s) : \E i \in 1..Len(s) : s[i] = k
BY DEF IsSeq, ToSet

LEMMA SeqMade ==
  ASSUME NEW n \in Nat, NEW s, s = [i \in 1..n |-> s[i]]
  PROVE  /\ IsSeq(s) /\ Len(s) = n
         /\ ToSet(s) = {s[i] : i \in 1..n}
<1> DEFINE S == {s[i] : i \in 1..n}
<1>1. s \in [1..n -> S]
  OBVIOUS
<1>2. s \in Seq(S) /\ Len(s) = n
  BY <1>1
<1>3. ToSet(s) = S
  BY <1>2 DEF ToSet
<1>4. QED
  BY <1>2, <1>3, SeqOver

LEMMA SeqEmpty == IsSeq(<<>>) /\ ToSet(<<>>) = {} /\ Len(<<>>) = 0
BY DEF IsSeq, ToSet

LEMMA SeqSingle ==
  ASSUME NEW k PROVE IsSeq(<<k>>) /\ ToSet(<<k>>) = {k} /\ Len(<<k>>) = 1
<1>1. <<k>> \in Seq({k}) /\ Len(<<k>>) = 1 /\ <<k>>[1] = k
  OBVIOUS
<1>2. ToSet(<<k>>) = {k}
  BY <1>1 DEF ToSet
<1>3. QED
  BY <1>1, <1>2, SeqOver

LEMMA SeqJoin ==
  ASSUME NEW s, NEW t, IsSeq(s), IsSeq(t)
  PROVE  IsSeq(s \o t) /\ ToSet(s \o t) = ToSet(s) \cup ToSet(t) /\ Len(s \o t) = Len(s) + Len(t)
<1> DEFINE S == ToSet(s) \cup ToSet(t)
           n == Len(s)
           m == Len(t)
<1>1. s \in Seq(S) /\ t \in Seq(S) /\ n \in Nat /\ m \in Nat
  <2>1. s \in Seq(ToSet(s)) /\ t \in Seq(ToSet(t))
    BY DEF IsSeq
  <2>2. QED
    BY <2>1
<1>2. PICK u \in Seq(S) : u = s \o t
  BY <1>1, ConcatProperties
<1>3. /\ Len(u) = n + m
      /\ \A i \in 1..(n + m) : u[i] = IF i <= n THEN s[i] ELSE t[i - n]
  BY <1>1, <1>2, ConcatProperties
<1>4. \A i \in 1..n : i \in 1..(n + m) /\ u[i] = s[i]
  BY <1>1, <1>3
<1>5. \A i \in 1..m : n + i \in 1..(n + m) /\ u[n + i] = t[i]
  <2>1. ASSUME NEW i \in 1..m PROVE n + i \in 1..(n + m) /\ u[n + i] = t[i]
    <3>1. n + i \in 1..(n + m) /\ ~(n + i <= n) /\ (n + i) - n = i
      BY <1>1
    <3>2. QED
      BY <1>3, <3>1
  <2>2. QED
    BY <2>1
<1>6. ToSet(s) \subseteq ToSet(u) /\ ToSet(t) \subseteq ToSet(u)
  <2>1. DOMAIN u = 1..(n + m) /\ DOMAIN s = 1..n /\ DOMAIN t = 1..m
    BY <1>1, <1>2, <1>3
  <2>2. QED
    BY <1>4, <1>5, <2>1 DEF ToSet
<1>7. IsSeq(u) /\ ToSet(u) \subseteq S
  BY <1>2, SeqOver
<1>8. QED
  BY <1>2, <1>3, <1>6, <1>7

(* A row of sequences joined: the function that FlattenSeq defines by recursion *)
(* exists, and what it gives holds every element of every part, and no other.   *)
LEMMA FlattenExists ==
  ASSUME NEW ss, NEW n \in Nat
  PROVE  \E f : f = [i \in 1..n |-> IF i = 1 THEN ss[i] ELSE f[i - 1] \o ss[i]]
<1> DEFINE Solves(f, k) == f = [i \in 1..k |-> IF i = 1 THEN ss[i] ELSE f[i - 1] \o ss[i]]
           T == {k \in Nat : \E f : Solves(f, k)}
<1>1. 0 \in T
  <2>1. Solves([i \in 1..0 |-> 0], 0)
    OBVIOUS
  <2>2. QED
    BY <2>1
<1>2. ASSUME NEW k \in Nat, k \in T PROVE k + 1 \in T
  <2>1. PICK f : Solves(f, k)
    BY <1>2
  <2>0. PICK g : g = [i \in 1..(k + 1) |-> IF i = 1 THEN ss[i] ELSE f[i - 1] \o ss[i]]
    OBVIOUS
  <2>2. \A i \in 1..k : f[i] = IF i = 1 THEN ss[i] ELSE f[i - 1] \o ss[i]
    BY <2>1
  <2>3. \A i \in 1..k : g[i] = f[i]
    <3>1. ASSUME NEW i \in 1..k PROVE g[i] = f[i]
      <4>1. i \in 1..(k + 1)
        OBVIOUS
      <4>2. g[i] = IF i = 1 THEN ss[i] ELSE f[i - 1] \o ss[i]
        BY <2>0, <4>1
      <4>3. QED
        BY <2>2, <4>2
    <3>2. QED
      BY <3>1
  <2>4. \A i \in 1..(k + 1) : i # 1 => f[i - 1] = g[i - 1]
    <3>1. ASSUME NEW i \in 1..(k + 1), i # 1 PROVE f[i - 1] = g[i - 1]
      <4>1. i - 1 \in 1..k
        BY <3>1
      <4>2. QED
        BY <2>3, <4>1
    <3>2. QED
      BY <3>1
  <2>5. g = [i \in 1..(k + 1) |-> IF i = 1 THEN ss[i] ELSE g[i - 1] \o ss[i]]
    BY <2>0, <2>4
  <2>6. Solves(g, k + 1)
    BY <2>5, Zenon
  <2>7. k + 1 \in Nat
    OBVIOUS
  <2> HIDE DEF Solves
  <2>8. QED
    BY <2>6, <2>7
<1> HIDE DEF T
<1>3. n \in T
  BY <1>1, <1>2, SetInduction
<1>4. QED
  BY <1>3 DEF T

LEMMA SeqFlat ==
  ASSUME NEW ss, IsSeq(ss), \A i \in 1..Len(ss) : IsSeq(ss[i])
  PROVE  /\ IsSeq(FlattenSeq(ss))
         /\ ToSet(FlattenSeq(ss)) = UNION {ToSet(ss[i]) : i \in 1..Len(ss)}
<1> DEFINE n == Len(ss)
           Def(f) == f = [i \in 1..n |-> IF i = 1 THEN ss[i] ELSE f[i - 1] \o ss[i]]
           flatten == CHOOSE f : Def(f)
<1>1. n \in Nat
  BY SeqFacts
<1>2. CASE n = 0
  <2>1. FlattenSeq(ss) = ss
    BY <1>2 DEF FlattenSeq
  <2>2. ToSet(ss) = {}
    BY <1>2, SeqFacts
  <2>3. QED
    BY <1>2, <2>1, <2>2
<1>3. CASE n # 0
  <2>1. FlattenSeq(ss) = flatten[n]
    BY <1>3 DEF FlattenSeq
  <2>2. Def(flatten)
    <3>1. \E f : Def(f)
      BY <1>1, FlattenExists
    <3>2. QED
      BY <3>1
  <2> HIDE DEF flatten
  <2>3. \A i \in 1..n : flatten[i] = IF i = 1 THEN ss[i] ELSE flatten[i - 1] \o ss[i]
    BY <2>2
  <2> DEFINE Right(i) == /\ IsSeq(flatten[i])
                         /\ ToSet(flatten[i]) = UNION {ToSet(ss[j]) : j \in 1..i}
             T == {k \in Nat : k \in 1..n => Right(k)}
  <2>4. 0 \in T
    OBVIOUS
  <2>5. ASSUME NEW k \in Nat, k \in T PROVE k + 1 \in T
    <3>1. SUFFICES ASSUME k + 1 \in 1..n PROVE Right(k + 1)
      OBVIOUS
    <3>2. CASE k = 0
      <4>1. flatten[1] = ss[1] /\ 1 \in 1..n
        BY <2>3, <3>1, <3>2
      <4>2. \A j \in 1..1 : j = 1
        OBVIOUS
      <4>3. QED
        BY <3>2, <4>1, <4>2
    <3>3. CASE k # 0
      <4>1. k \in 1..n /\ (k + 1) - 1 = k /\ k + 1 # 1
        BY <1>1, <3>1, <3>3
      <4>2. flatten[k + 1] = flatten[k] \o ss[k + 1]
        BY <2>3, <3>1, <4>1
      <4>3. Right(k)
        BY <2>5, <4>1
      <4>4. IsSeq(flatten[k + 1]) /\ ToSet(flatten[k + 1]) = ToSet(flatten[k]) \cup ToSet(ss[k + 1])
        BY <3>1, <4>2, <4>3, SeqJoin
      <4>5. \A j : j \in 1..(k + 1) <=> j \in 1..k \/ j = k + 1
        BY <4>1
      <4>6. UNION {ToSet(ss[j]) : j \in 1..(k + 1)} =
              (UNION {ToSet(ss[j]) : j \in 1..k}) \cup ToSet(ss[k + 1])
        BY <4>5
      <4>7. QED
        BY <4>3, <4>4, <4>6
    <3>4. QED
      BY <3>2, <3>3
  <2> HIDE DEF T
  <2>6. n \in T
    BY <1>1, <2>4, <2>5, SetInduction
  <2>7. QED
    BY <1>1, <1>3, <2>1, <2>6 DEF T
<1>4. QED
  BY <1>2, <1>3

-----------------------------------------------------------------------------
(* Documents: every pass makes a document of documents.                         *)

(* What the loops leave: the tokens of their bodies, whatever those hold.       *)
Flat(text) == IsSeq(text) /\ \A k \in ToSet(text) : Unmarked(k)

IsSite(site) == \A f \in DOMAIN site : IsNode(site[f]) /\ site[f].ver \in Nat \ {0}

LEMMA DocEmpty == Doc(<<>>)
BY SeqEmpty DEF Doc

LEMMA TokUnmarked ==
  ASSUME NEW kind, kind \notin {"ref", "absref"}, NEW to
  PROVE  Unmarked(Tok(kind, to)) /\ Tok(kind, to).t = kind /\ Tok(kind, to).body = <<>>
BY DEF Tok, Unmarked

LEMMA DocSingle ==
  ASSUME NEW k, Unmarked(k), IsSeq(k.body), \A b \in ToSet(k.body) : Unmarked(b)
  PROVE  Doc(<<k>>)
<1>1. IsSeq(<<k>>) /\ \A x \in ToSet(<<k>>) : x = k
  BY SeqSingle
<1>2. QED
  BY <1>1 DEF Doc

LEMMA DocToken ==
  ASSUME NEW kind, kind \notin {"ref", "absref"}, NEW to
  PROVE  Doc(<<Tok(kind, to)>>)
<1> DEFINE k == Tok(kind, to)
<1>1. Unmarked(k) /\ k.body = <<>>
  BY TokUnmarked
<1> HIDE DEF k
<1>2. IsSeq(k.body) /\ \A b \in ToSet(k.body) : Unmarked(b)
  BY <1>1, SeqEmpty
<1>3. Doc(<<k>>)
  BY <1>1, <1>2, DocSingle
<1>4. QED
  BY <1>3 DEF k

LEMMA DocElement ==
  ASSUME NEW text, Doc(text), NEW k \in ToSet(text)
  PROVE  Doc(<<k>>)
BY DocSingle DEF Doc

LEMMA DocJoin ==
  ASSUME NEW s, NEW t, Doc(s), Doc(t)
  PROVE  Doc(s \o t)
<1>1. IsSeq(s \o t) /\ ToSet(s \o t) = ToSet(s) \cup ToSet(t)
  BY SeqJoin DEF Doc
<1>2. QED
  BY <1>1 DEF Doc

(* The parts of an expansion, as a function, and their joining.                 *)
LEMMA DocFlat ==
  ASSUME NEW n \in Nat, NEW parts, parts = [i \in 1..n |-> parts[i]],
         \A i \in 1..n : Doc(parts[i])
  PROVE  Doc(FlattenSeq(parts))
<1>1. IsSeq(parts) /\ Len(parts) = n
  BY SeqMade
<1>2. \A i \in 1..n : IsSeq(parts[i])
  BY DEF Doc
<1>3. /\ IsSeq(FlattenSeq(parts))
      /\ ToSet(FlattenSeq(parts)) = UNION {ToSet(parts[i]) : i \in 1..n}
  BY <1>1, <1>2, SeqFlat
<1>4. ASSUME NEW k \in ToSet(FlattenSeq(parts))
      PROVE  Unmarked(k) /\ IsSeq(k.body) /\ \A b \in ToSet(k.body) : Unmarked(b)
  <2>1. PICK i \in 1..n : k \in ToSet(parts[i])
    BY <1>3
  <2>2. QED
    BY <2>1 DEF Doc
<1>5. QED
  BY <1>3, <1>4 DEF Doc

LEMMA FlatFlat ==
  ASSUME NEW n \in Nat, NEW parts, parts = [i \in 1..n |-> parts[i]],
         \A i \in 1..n : Flat(parts[i])
  PROVE  Flat(FlattenSeq(parts))
<1>1. IsSeq(parts) /\ Len(parts) = n
  BY SeqMade
<1>2. \A i \in 1..n : IsSeq(parts[i])
  BY DEF Flat
<1>3. /\ IsSeq(FlattenSeq(parts))
      /\ ToSet(FlattenSeq(parts)) = UNION {ToSet(parts[i]) : i \in 1..n}
  BY <1>1, <1>2, SeqFlat
<1>4. ASSUME NEW k \in ToSet(FlattenSeq(parts)) PROVE Unmarked(k)
  <2>1. PICK i \in 1..n : k \in ToSet(parts[i])
    BY <1>3
  <2>2. QED
    BY <2>1 DEF Flat
<1>5. QED
  BY <1>3, <1>4 DEF Flat

LEMMA SourceDoc ==
  ASSUME NEW site, IsSite(site), NEW f \in DOMAIN site
  PROVE  Doc(Source(site, f))
<1> DEFINE k == [Tok("text", f) EXCEPT !.v = site[f].ver]
<1>1. k \in [t : {"text"}, to : {f}, v : {site[f].ver}, body : {<<>>}]
  BY DEF Tok
<1>2. Source(site, f) = <<k>> \o site[f].text
  BY DEF Source
<1> HIDE DEF k
<1>3. k.t = "text" /\ k.body = <<>> /\ Unmarked(k)
  BY <1>1 DEF Unmarked
<1>4. Doc(<<k>>)
  BY <1>3, SeqEmpty, DocSingle
<1>5. Doc(site[f].text)
  BY DEF IsSite, IsNode
<1>6. QED
  BY <1>2, <1>4, <1>5, DocJoin

LEMMA FillDoc ==
  ASSUME NEW layout, NEW page, Doc(layout), Doc(page)
  PROVE  Doc(Fill(layout, page))
<1>1. CASE ~HasSlot(layout)
  BY <1>1, DocJoin DEF Fill
<1>2. CASE HasSlot(layout)
  <2> DEFINE n == Len(layout)
  <2>1. n \in Nat /\ \A i \in 1..n : layout[i] \in ToSet(layout)
    BY SeqFacts DEF Doc
  <2>2. PICK parts : parts = [i \in 1..n |-> IF layout[i].t = "slot" THEN page ELSE <<layout[i]>>]
    OBVIOUS
  <2>3. parts = [i \in 1..n |-> parts[i]]
    BY <2>2
  <2>4. ASSUME NEW i \in 1..n PROVE Doc(parts[i])
    <3>1. Doc(<<layout[i]>>)
      BY <2>1, DocElement
    <3>2. QED
      BY <2>2, <3>1
  <2>5. Doc(FlattenSeq(parts))
    BY <2>1, <2>3, <2>4, DocFlat
  <2>6. QED
    BY <1>2, <2>2, <2>5 DEF Fill, Expand
<1>3. QED
  BY <1>1, <1>2

LEMMA ResolveFound ==
  ASSUME NEW site, NEW dir, NEW to, ResolveIncludePath(site, dir, to) # NoName
  PROVE  ResolveIncludePath(site, dir, to) \in DOMAIN site
BY DEF ResolveIncludePath

(* The page without its layout directives.                                      *)
LEMMA BareDoc ==
  ASSUME NEW raw, Doc(raw)
  PROVE  Doc(Expand(raw, LAMBDA k : IF k.t = "layout" THEN <<>> ELSE <<k>>))
<1> DEFINE n == Len(raw)
<1>1. n \in Nat /\ \A i \in 1..n : raw[i] \in ToSet(raw)
  BY SeqFacts DEF Doc
<1>2. PICK parts : parts = [i \in 1..n |-> IF raw[i].t = "layout" THEN <<>> ELSE <<raw[i]>>]
  OBVIOUS
<1>3. parts = [i \in 1..n |-> parts[i]]
  BY <1>2
<1>4. ASSUME NEW i \in 1..n PROVE Doc(parts[i])
  <2>1. Doc(<<raw[i]>>) /\ Doc(<<>>)
    BY <1>1, DocElement, DocEmpty
  <2>2. QED
    BY <1>2, <2>1
<1>5. Doc(FlattenSeq(parts))
  BY <1>1, <1>3, <1>4, DocFlat
<1>6. QED
  BY <1>2, <1>5 DEF Expand

LEMMA ExpandFileDoc ==
  ASSUME NEW site, IsSite(site), NEW f \in DOMAIN site,
         NEW deeper, \A g \in DOMAIN site : Doc(deeper[g])
  PROVE  Doc(ExpandFile(site, f, deeper))
<1> DEFINE raw == Source(site, f)
           layouts == {i \in 1..Len(raw) : raw[i].t = "layout"}
           layout == IF layouts = {} THEN NoName
                     ELSE ResolveIncludePath(site, f.dir, raw[Min(layouts)].to)
           bare == Expand(raw, LAMBDA k : IF k.t = "layout" THEN <<>> ELSE <<k>>)
           laid == IF layout = NoName THEN raw ELSE Fill(deeper[layout], bare)
           Included(k) == LET g == ResolveIncludePath(site, f.dir, k.to)
                          IN  IF g = NoName THEN <<Tok("error", k.to)>> ELSE deeper[g]
<1>1. Doc(raw)
  BY SourceDoc
<1>2. Doc(bare)
  BY <1>1, BareDoc
<1>3. layout # NoName => layout \in DOMAIN site
  BY ResolveFound
<1>4. ExpandFile(site, f, deeper) = Expand(laid, LAMBDA k : IF k.t = "include" THEN Included(k) ELSE <<k>>)
  BY DEF ExpandFile
<1> HIDE DEF raw, layout, bare
<1>5. Doc(laid)
  BY <1>1, <1>2, <1>3, FillDoc
<1>6. ASSUME NEW k PROVE Doc(Included(k))
  <2>1. Doc(<<Tok("error", k.to)>>)
    BY DocToken
  <2>2. QED
    BY <2>1, ResolveFound
<1> HIDE DEF laid, Included
<1> DEFINE n == Len(laid)
<1>7. n \in Nat /\ \A i \in 1..n : laid[i] \in ToSet(laid)
  BY <1>5, SeqFacts DEF Doc
<1>8. PICK parts : parts = [i \in 1..n |-> IF laid[i].t = "include" THEN Included(laid[i])
                                            ELSE <<laid[i]>>]
  OBVIOUS
<1>9. parts = [i \in 1..n |-> parts[i]]
  BY <1>8
<1>10. ASSUME NEW i \in 1..n PROVE Doc(parts[i])
  <2>1. Doc(<<laid[i]>>) /\ Doc(Included(laid[i]))
    BY <1>5, <1>6, <1>7, DocElement
  <2>2. QED
    BY <1>8, <2>1
<1>11. Doc(FlattenSeq(parts))
  BY <1>7, <1>9, <1>10, DocFlat
<1>12. QED
  BY <1>4, <1>8, <1>11 DEF Expand

(* The recursion of ProcessHTML has a solution, level by level.                 *)
PagesOf(site, n, page) ==
  page = [left \in 0..n |-> [g \in DOMAIN site |-> IF left = 0 THEN Source(site, g)
                                                   ELSE ExpandFile(site, g, page[left - 1])]]

LEMMA PageExists ==
  ASSUME NEW site, NEW n \in Nat
  PROVE  \E page : PagesOf(site, n, page)
<1> DEFINE Level(left, deeper) == [g \in DOMAIN site |-> IF left = 0 THEN Source(site, g)
                                                         ELSE ExpandFile(site, g, deeper)]
<1> HIDE DEF Level
<1> DEFINE Solves(page, k) == page = [left \in 0..k |-> Level(left, page[left - 1])]
           T == {k \in Nat : \E page : Solves(page, k)}
<1>0. \A x, y : Level(0, x) = Level(0, y)
  BY DEF Level
<1>1. 0 \in T
  <2>1. PICK page : page = [left \in 0..0 |-> Level(0, 0)]
    OBVIOUS
  <2>2. \A left \in 0..0 : Level(0, 0) = Level(left, page[left - 1])
    BY <1>0
  <2>3. Solves(page, 0)
    BY <2>1, <2>2
  <2> HIDE DEF Solves
  <2>4. QED
    BY <2>3
<1>2. ASSUME NEW k \in Nat, k \in T PROVE k + 1 \in T
  <2>1. PICK f : Solves(f, k)
    BY <1>2
  <2>2. PICK g : g = [left \in 0..(k + 1) |-> Level(left, f[left - 1])]
    OBVIOUS
  <2>3. \A i \in 0..k : g[i] = f[i]
    <3>1. \A i \in 0..k : f[i] = Level(i, f[i - 1])
      BY <2>1
    <3>2. \A i \in 0..k : i \in 0..(k + 1)
      OBVIOUS
    <3>3. QED
      BY <2>2, <3>1, <3>2
  <2>4. ASSUME NEW i \in 0..(k + 1) PROVE Level(i, f[i - 1]) = Level(i, g[i - 1])
    <3>1. CASE i = 0
      BY <1>0, <3>1
    <3>2. CASE i # 0
      <4>1. i - 1 \in 0..k
        BY <3>2
      <4>2. QED
        BY <2>3, <4>1
    <3>3. QED
      BY <3>1, <3>2
  <2>5. g = [left \in 0..(k + 1) |-> Level(left, g[left - 1])]
    BY <2>2, <2>4
  <2>6. Solves(g, k + 1)
    BY <2>5, Zenon
  <2>7. k + 1 \in Nat
    OBVIOUS
  <2> HIDE DEF Solves
  <2>8. QED
    BY <2>6, <2>7
<1> HIDE DEF T
<1>3. n \in T
  BY <1>1, <1>2, SetInduction
<1>4. PICK page : page = [left \in 0..n |-> Level(left, page[left - 1])]
  BY <1>3 DEF T
<1>5. PagesOf(site, n, page)
  BY <1>4 DEF Level, PagesOf
<1>6. QED
  BY <1>5

LEMMA ProcessHTMLDoc ==
  ASSUME NEW site, IsSite(site), NEW f \in DOMAIN site
  PROVE  Doc(ProcessHTML(site, f))
<1> DEFINE N == MaxIncludeDepth + 1
           page == CHOOSE page : PagesOf(site, N, page)
<1>1. N \in Nat
  BY DEF MaxIncludeDepth
<1>2. ProcessHTML(site, f) = page[N][f]
  BY DEF ProcessHTML, PagesOf
<1>3. PagesOf(site, N, page)
  BY <1>1, PageExists
<1> HIDE DEF page, N
<1>4. \A left \in 0..N : \A g \in DOMAIN site :
         page[left][g] = IF left = 0 THEN Source(site, g) ELSE ExpandFile(site, g, page[left - 1])
  <2>1. \A left \in 0..N :
           page[left] = [g \in DOMAIN site |-> IF left = 0 THEN Source(site, g)
                                               ELSE ExpandFile(site, g, page[left - 1])]
    BY <1>3 DEF PagesOf
  <2>2. QED
    BY <2>1
<1> DEFINE T == {k \in Nat : k \in 0..N => \A g \in DOMAIN site : Doc(page[k][g])}
<1>5. 0 \in T
  BY <1>1, <1>4, SourceDoc
<1>6. ASSUME NEW k \in Nat, k \in T PROVE k + 1 \in T
  <2>1. SUFFICES ASSUME k + 1 \in 0..N, NEW g \in DOMAIN site PROVE Doc(page[k + 1][g])
    OBVIOUS
  <2>2. k \in 0..N /\ k + 1 # 0 /\ (k + 1) - 1 = k
    BY <1>1, <2>1
  <2>3. page[k + 1][g] = ExpandFile(site, g, page[k])
    BY <1>4, <2>1, <2>2
  <2>4. \A h \in DOMAIN site : Doc(page[k][h])
    BY <1>6, <2>2
  <2>5. QED
    BY <2>3, <2>4, ExpandFileDoc
<1> HIDE DEF T
<1>7. N \in T
  BY <1>1, <1>5, <1>6, SetInduction
<1>8. QED
  BY <1>1, <1>2, <1>7 DEF T

-----------------------------------------------------------------------------
(* The later passes: variables, loops and fingerprints.                         *)

LEMMA ReplacedUnmarked ==
  ASSUME NEW k, Unmarked(k), NEW values, NEW scope
  PROVE  /\ Unmarked(Replaced(k, values, scope))
         /\ Replaced(k, values, scope).body \in {<<>>, k.body}
<1> DEFINE to == values[k.to.base]
<1>1. Unmarked(Tok("text", to)) /\ Tok("text", to).body = <<>>
  BY TokUnmarked
<1>2. Replaced(k, values, scope) \in {Tok("text", to), k}
  BY DEF Replaced
<1>3. QED
  BY <1>1, <1>2

LEMMA BodyReplaced ==
  ASSUME NEW k, Unmarked(k), NEW body
  PROVE  Unmarked([k EXCEPT !.body = body]) /\ [k EXCEPT !.body = body].body = body
<1>1. [k EXCEPT !.body = body] \in [t : {k.t}, to : {k.to}, v : {k.v}, body : {body}]
  BY DEF Unmarked
<1>2. QED
  BY <1>1 DEF Unmarked

(* The tokens of a body after a pass.                                           *)
LEMMA ReplacedAll ==
  ASSUME NEW s, Flat(s), NEW values, NEW scope
  PROVE  Flat([j \in 1..Len(s) |-> Replaced(s[j], values, scope)])
<1>1. Len(s) \in Nat /\ \A j \in 1..Len(s) : Unmarked(s[j])
  BY SeqFacts DEF Flat
<1>2. PICK u : u = [j \in 1..Len(s) |-> Replaced(s[j], values, scope)]
  OBVIOUS
<1>3. u = [j \in 1..Len(s) |-> u[j]]
  BY <1>2
<1>4. IsSeq(u) /\ ToSet(u) = {u[j] : j \in 1..Len(s)}
  BY <1>1, <1>3, SeqMade
<1>5. \A j \in 1..Len(s) : Unmarked(u[j])
  BY <1>1, <1>2, ReplacedUnmarked
<1>6. QED
  BY <1>2, <1>4, <1>5 DEF Flat

LEMMA VariablesUnmarked ==
  ASSUME NEW text, Flat(text), NEW values
  PROVE  /\ Flat(ProcessVariables(text, values))
         /\ Doc(text) => Doc(ProcessVariables(text, values))
<1> DEFINE n == Len(text)
           In(s) == [j \in 1..Len(s) |-> Replaced(s[j], values, "page")]
           Kept(i) == [text[i] EXCEPT !.body = In(@)]
<1>1. n \in Nat /\ \A i \in 1..n : Unmarked(text[i]) /\ text[i] \in ToSet(text)
  BY SeqFacts DEF Flat
<1>2. \A i \in 1..n : Kept(i) = [text[i] EXCEPT !.body = In(text[i].body)]
  OBVIOUS
<1>3. PICK u : u = [i \in 1..n |-> Replaced(Kept(i), values, "page")]
  OBVIOUS
<1>4. ProcessVariables(text, values) = u
  BY <1>3 DEF ProcessVariables
<1> HIDE DEF In, Kept
<1>5. \A i \in 1..n : Unmarked(Kept(i)) /\ Kept(i).body = In(text[i].body)
  <2>1. ASSUME NEW i \in 1..n PROVE Unmarked(Kept(i)) /\ Kept(i).body = In(text[i].body)
    <3>1. PICK k, b : k = text[i] /\ b = In(text[i].body)
      OBVIOUS
    <3>2. Unmarked(k) /\ Kept(i) = [k EXCEPT !.body = b]
      BY <1>1, <1>2, <3>1
    <3>3. Unmarked([k EXCEPT !.body = b]) /\ [k EXCEPT !.body = b].body = b
      BY <3>2, BodyReplaced
    <3>4. QED
      BY <3>1, <3>2, <3>3
  <2>2. QED
    BY <2>1
<1>6. u = [i \in 1..n |-> u[i]]
  BY <1>3
<1>7. IsSeq(u) /\ ToSet(u) = {u[i] : i \in 1..n}
  BY <1>1, <1>6, SeqMade
<1>8. \A i \in 1..n : Unmarked(u[i]) /\ u[i].body \in {<<>>, In(text[i].body)}
  BY <1>3, <1>5, ReplacedUnmarked
<1>9. Flat(u)
  BY <1>7, <1>8 DEF Flat
<1>10. ASSUME Doc(text) PROVE Doc(u)
  <2>1. ASSUME NEW i \in 1..n PROVE Flat(u[i].body)
    <3>1. Flat(text[i].body)
      BY <1>1, <1>10 DEF Doc, Flat
    <3>2. Flat(In(text[i].body))
      BY <3>1, ReplacedAll DEF In
    <3>3. Flat(<<>>)
      BY SeqEmpty DEF Flat
    <3>4. QED
      BY <1>8, <3>2, <3>3
  <2>2. QED
    BY <1>7, <1>8, <2>1 DEF Doc, Flat
<1>11. QED
  BY <1>4, <1>9, <1>10

LEMMA DocIsFlat ==
  ASSUME NEW text, Doc(text) PROVE Flat(text)
BY DEF Doc, Flat

LEMMA FlatSingle ==
  ASSUME NEW k, Unmarked(k) PROVE Flat(<<k>>)
BY SeqSingle DEF Flat

LEMMA LoopsFlat ==
  ASSUME NEW text, Doc(text), NEW colls, \A c \in DOMAIN colls : IsSeq(colls[c])
  PROVE  Flat(ProcessTemplateLoops(text, colls))
<1> DEFINE n == Len(text)
           Items(k) == IF k.to.base \in DOMAIN colls THEN colls[k.to.base] ELSE <<>>
           Once(k, item) == [j \in 1..Len(k.body) |-> Replaced(k.body[j], item.vals, k.to.dir[1])]
           Loop(k) == Expand(Items(k), LAMBDA item : Once(k, item))
<1>1. n \in Nat /\ \A i \in 1..n : text[i] \in ToSet(text)
  BY SeqFacts DEF Doc
<1>2. ASSUME NEW k \in ToSet(text) PROVE Flat(Loop(k))
  <2>1. IsSeq(Items(k))
    BY SeqEmpty
  <2> DEFINE m == Len(Items(k))
  <2>2. m \in Nat
    BY <2>1, SeqFacts
  <2>3. Flat(k.body)
    BY DEF Doc, Flat
  <2> HIDE DEF Items
  <2>4. PICK parts : parts = [i \in 1..m |-> Once(k, Items(k)[i])]
    OBVIOUS
  <2>5. parts = [i \in 1..m |-> parts[i]]
    BY <2>4
  <2>6. ASSUME NEW i \in 1..m PROVE Flat(parts[i])
    <3>1. Flat(Once(k, Items(k)[i]))
      BY <2>3, ReplacedAll
    <3>2. QED
      BY <2>4, <3>1
  <2>7. Flat(FlattenSeq(parts))
    BY <2>2, <2>5, <2>6, FlatFlat
  <2>8. QED
    BY <2>4, <2>7 DEF Expand
<1>3. ProcessTemplateLoops(text, colls) = Expand(text, LAMBDA k : IF k.t = "loop" THEN Loop(k) ELSE <<k>>)
  BY DEF ProcessTemplateLoops
<1> HIDE DEF Loop
<1>4. PICK parts : parts = [i \in 1..n |-> IF text[i].t = "loop" THEN Loop(text[i]) ELSE <<text[i]>>]
  OBVIOUS
<1>5. parts = [i \in 1..n |-> parts[i]]
  BY <1>4
<1>6. ASSUME NEW i \in 1..n PROVE Flat(parts[i])
  <2>1. Flat(<<text[i]>>) /\ Flat(Loop(text[i]))
    BY <1>1, <1>2, FlatSingle DEF Doc
  <2>2. QED
    BY <1>4, <2>1
<1>7. Flat(FlattenSeq(parts))
  BY <1>1, <1>5, <1>6, FlatFlat
<1>8. QED
  BY <1>3, <1>4, <1>7 DEF Expand

HashOf(hashes, g) == IF g \in DOMAIN hashes THEN hashes[g] ELSE 0
BesideOf(dir, k) == IF k.t = "absref" THEN k.to ELSE Name(dir \o k.to.dir, k.to.base, k.to.ext)

(* A reference with a fingerprint has the hash of the file beside the page, or  *)
(* else of the same path from the root.                                         *)
Marked(k, dir, hashes) ==
  k.t \in {"ref", "absref"} /\ k.v # 0 =>
    /\ k.to = Name(k.to.dir, k.to.base, k.to.ext) /\ k.to.ext \in RefExts
    /\ k.v = IF HashOf(hashes, BesideOf(dir, k)) # 0 THEN HashOf(hashes, BesideOf(dir, k))
             ELSE HashOf(hashes, k.to)

LEMMA FingerprintMarked ==
  ASSUME NEW dir, NEW text, Flat(text), NEW hashes
  PROVE  LET s == FingerprintHTML(dir, text, hashes)
         IN  IsSeq(s) /\ \A k \in ToSet(s) : Marked(k, dir, hashes)
<1> DEFINE n == Len(text)
           Mark(k) == [k EXCEPT !.v = IF HashOf(hashes, BesideOf(dir, k)) # 0
                                      THEN HashOf(hashes, BesideOf(dir, k))
                                      ELSE HashOf(hashes, k.to)]
<1>1. n \in Nat /\ \A i \in 1..n : Unmarked(text[i])
  BY SeqFacts DEF Flat
<1>2. PICK s : s = [i \in 1..n |-> IF text[i].t \in {"ref", "absref"} /\ text[i].to.ext \in RefExts
                                   THEN Mark(text[i]) ELSE text[i]]
  OBVIOUS
<1>3. FingerprintHTML(dir, text, hashes) = s
  BY <1>2 DEF FingerprintHTML, HashOf, BesideOf
<1>4. s = [i \in 1..n |-> s[i]]
  BY <1>2
<1>5. IsSeq(s) /\ ToSet(s) = {s[i] : i \in 1..n}
  BY <1>1, <1>4, SeqMade
<1>6. ASSUME NEW i \in 1..n PROVE Marked(s[i], dir, hashes)
  <2> DEFINE k == text[i]
  <2>1. Unmarked(k)
    BY <1>1
  <2>2. CASE k.t \in {"ref", "absref"} /\ k.to.ext \in RefExts
    <3>1. PICK x : x = IF HashOf(hashes, BesideOf(dir, k)) # 0 THEN HashOf(hashes, BesideOf(dir, k))
                       ELSE HashOf(hashes, k.to)
      OBVIOUS
    <3>2. s[i] = [k EXCEPT !.v = x]
      BY <1>2, <2>2, <3>1
    <3> HIDE DEF k
    <3>3. s[i] \in [t : {k.t}, to : {k.to}, v : {x}, body : {k.body}]
      BY <2>1, <3>2 DEF Unmarked
    <3>4. s[i].t = k.t /\ s[i].to = k.to /\ s[i].v = x
      BY <3>3
    <3>5. BesideOf(dir, s[i]) = BesideOf(dir, k)
      BY <3>4 DEF BesideOf
    <3>6. QED
      BY <2>1, <2>2, <3>1, <3>4, <3>5 DEF Marked, Unmarked
  <2>3. CASE ~(k.t \in {"ref", "absref"} /\ k.to.ext \in RefExts)
    <3>1. s[i] = k
      BY <1>2, <2>3
    <3>2. QED
      BY <2>1, <2>3, <3>1 DEF Marked, Unmarked
  <2>4. QED
    BY <2>2, <2>3
<1>7. QED
  BY <1>3, <1>5, <1>6

-----------------------------------------------------------------------------
(* The walk: what it has gathered after any number of files.                    *)
WalkOK(w) ==
  /\ w \in [assets : {w.assets}, hashes : {w.hashes}, html : {w.html}, md : {w.md},
            colls : {w.colls}]
  /\ DOMAIN w.hashes = DOMAIN w.assets
  /\ \A f \in DOMAIN w.assets :
       LET a == w.assets[f]
       IN  /\ a.of = f /\ a.body = <<>> /\ a.ver = w.hashes[f] /\ a.ver # 0
           /\ ~IsHidden(f) /\ f.ext \notin HtmlExts
  /\ IsSeq(w.html)
  /\ \A p \in ToSet(w.html) : p.rel.ext \in HtmlExts /\ ~IsHidden(p.rel) /\ Doc(p.text)
  /\ IsSeq(w.md)
  /\ \A m \in ToSet(w.md) : ~IsHidden(m.of) /\ Doc(m.text)
  /\ \A c \in DOMAIN w.colls : IsSeq(w.colls[c])

LEMMA EmptyWalkOK == WalkOK(EmptyWalk)
<1>1. /\ EmptyWalk.assets = <<>> /\ EmptyWalk.hashes = <<>> /\ EmptyWalk.html = <<>>
      /\ EmptyWalk.md = <<>> /\ EmptyWalk.colls = <<>>
      /\ EmptyWalk \in [assets : {<<>>}, hashes : {<<>>}, html : {<<>>}, md : {<<>>}, colls : {<<>>}]
  BY DEF EmptyWalk
<1> DEFINE w == EmptyWalk
<1>2. w.assets = <<>> /\ w.hashes = <<>> /\ w.html = <<>> /\ w.md = <<>> /\ w.colls = <<>>
  BY <1>1
<1>3. w \in [assets : {w.assets}, hashes : {w.hashes}, html : {w.html}, md : {w.md}, colls : {w.colls}]
  BY <1>1
<1>4. DOMAIN <<>> = {} /\ IsSeq(<<>>) /\ ToSet(<<>>) = {}
  BY SeqEmpty
<1> HIDE DEF w
<1>5. WalkOK(w)
  BY <1>2, <1>3, <1>4 DEF WalkOK
<1>6. QED
  BY <1>5 DEF w

LEMMA SeqAppend ==
  ASSUME NEW s, IsSeq(s), NEW k
  PROVE  IsSeq(Append(s, k)) /\ ToSet(Append(s, k)) = ToSet(s) \cup {k}
<1>1. s \in Seq(ToSet(s) \cup {k})
  <2>1. s \in Seq(ToSet(s))
    BY DEF IsSeq
  <2>2. QED
    BY <2>1
<1>2. Append(s, k) = s \o <<k>>
  BY <1>1, AppendIsConcat
<1>3. IsSeq(<<k>>) /\ ToSet(<<k>>) = {k}
  BY SeqSingle
<1>4. QED
  BY <1>2, <1>3, SeqJoin

(* What one walk record says after a change of two of its parts.                *)
WalkOf(assets, hashes, html, md, colls) ==
  [assets |-> assets, hashes |-> hashes, html |-> html, md |-> md, colls |-> colls]

LEMMA WalkOfParts ==
  ASSUME NEW a, NEW h, NEW t, NEW m, NEW c
  PROVE  LET w == WalkOf(a, h, t, m, c)
         IN  /\ w.assets = a /\ w.hashes = h /\ w.html = t /\ w.md = m /\ w.colls = c
             /\ w \in [assets : {a}, hashes : {h}, html : {t}, md : {m}, colls : {c}]
BY DEF WalkOf

LEMMA WalkStored ==
  ASSUME NEW w, w \in [assets : {w.assets}, hashes : {w.hashes}, html : {w.html}, md : {w.md},
                       colls : {w.colls}],
         NEW a, NEW h
  PROVE  [w EXCEPT !.assets = a, !.hashes = h] = WalkOf(a, h, w.html, w.md, w.colls)
<1>1. PICK x : x = [w EXCEPT !.assets = a]
  OBVIOUS
<1>2. x \in [assets : {a}, hashes : {w.hashes}, html : {w.html}, md : {w.md}, colls : {w.colls}]
  BY <1>1
<1>3. [x EXCEPT !.hashes = h] = WalkOf(a, h, w.html, w.md, w.colls)
  BY <1>2 DEF WalkOf
<1>4. [w EXCEPT !.assets = a, !.hashes = h] = [x EXCEPT !.hashes = h]
  BY <1>1, Zenon
<1>5. QED
  BY <1>3, <1>4, Zenon

LEMMA WalkPosted ==
  ASSUME NEW w, w \in [assets : {w.assets}, hashes : {w.hashes}, html : {w.html}, md : {w.md},
                       colls : {w.colls}],
         NEW m, NEW c
  PROVE  [w EXCEPT !.md = m, !.colls = c] = WalkOf(w.assets, w.hashes, w.html, m, c)
<1>1. PICK x : x = [w EXCEPT !.md = m]
  OBVIOUS
<1>2. x \in [assets : {w.assets}, hashes : {w.hashes}, html : {w.html}, md : {m}, colls : {w.colls}]
  BY <1>1
<1>3. [x EXCEPT !.colls = c] = WalkOf(w.assets, w.hashes, w.html, m, c)
  BY <1>2 DEF WalkOf
<1>4. [w EXCEPT !.md = m, !.colls = c] = [x EXCEPT !.colls = c]
  BY <1>1, Zenon
<1>5. QED
  BY <1>3, <1>4, Zenon

LEMMA WalkChanged ==
  ASSUME NEW w, w \in [assets : {w.assets}, hashes : {w.hashes}, html : {w.html}, md : {w.md},
                       colls : {w.colls}],
         NEW t, NEW c
  PROVE  /\ [w EXCEPT !.html = t] = WalkOf(w.assets, w.hashes, t, w.md, w.colls)
         /\ [w EXCEPT !.colls = c] = WalkOf(w.assets, w.hashes, w.html, w.md, c)
BY DEF WalkOf

LEMMA AssetParts ==
  ASSUME NEW f, NEW ver, NEW body, NEW streamed
  PROVE  LET a == Asset(f, ver, body, streamed)
         IN  a.of = f /\ a.ver = ver /\ a.body = body /\ a.disk = streamed
BY DEF Asset

(* A file kept as it is.                                                        *)
LEMMA StoredOK ==
  ASSUME NEW w, WalkOK(w), NEW f, ~IsHidden(f), f.ext \notin HtmlExts,
         NEW ver, ver # 0, NEW streamed,
         NEW colls, \A c \in DOMAIN colls : IsSeq(colls[c])
  PROVE  WalkOK(WalkOf(Put(w.assets, f, Asset(f, ver, <<>>, streamed)), Put(w.hashes, f, ver),
                       w.html, w.md, colls))
<1> DEFINE a == Asset(f, ver, <<>>, streamed)
<1>1. a.of = f /\ a.ver = ver /\ a.body = <<>>
  BY AssetParts
<1> HIDE DEF a
<1>2. PICK assets : assets = Put(w.assets, f, a)
  OBVIOUS
<1>3. PICK hashes : hashes = Put(w.hashes, f, ver)
  OBVIOUS
<1>4. /\ DOMAIN assets = DOMAIN w.assets \cup {f} /\ DOMAIN hashes = DOMAIN w.hashes \cup {f}
      /\ assets[f] = a /\ hashes[f] = ver
      /\ \A g \in DOMAIN w.assets \ {f} : assets[g] = w.assets[g]
      /\ \A g \in DOMAIN w.hashes \ {f} : hashes[g] = w.hashes[g]
  BY <1>2, <1>3 DEF Put
<1>5. \A g \in DOMAIN assets :
         /\ assets[g].of = g /\ assets[g].body = <<>> /\ assets[g].ver = hashes[g]
         /\ assets[g].ver # 0 /\ ~IsHidden(g) /\ g.ext \notin HtmlExts
  <2>1. ASSUME NEW g \in DOMAIN assets
        PROVE  /\ assets[g].of = g /\ assets[g].body = <<>> /\ assets[g].ver = hashes[g]
               /\ assets[g].ver # 0 /\ ~IsHidden(g) /\ g.ext \notin HtmlExts
    <3>1. CASE g = f
      BY <1>1, <1>4, <3>1
    <3>2. CASE g # f
      <4>1. g \in DOMAIN w.assets /\ g \in DOMAIN w.hashes
        BY <1>4, <3>2 DEF WalkOK
      <4>2. assets[g] = w.assets[g] /\ hashes[g] = w.hashes[g]
        BY <1>4, <3>2, <4>1
      <4>3. QED
        BY <4>1, <4>2 DEF WalkOK
    <3>3. QED
      BY <3>1, <3>2
  <2>2. QED
    BY <2>1
<1>6. PICK x : x = WalkOf(assets, hashes, w.html, w.md, colls)
  OBVIOUS
<1>7. /\ x.assets = assets /\ x.hashes = hashes /\ x.html = w.html /\ x.md = w.md /\ x.colls = colls
      /\ x \in [assets : {x.assets}, hashes : {x.hashes}, html : {x.html}, md : {x.md},
                colls : {x.colls}]
  BY <1>6, WalkOfParts
<1>8. DOMAIN hashes = DOMAIN assets
  BY <1>4 DEF WalkOK
<1>9. WalkOK(x)
  BY <1>5, <1>7, <1>8 DEF WalkOK
<1>10. QED
  BY <1>2, <1>3, <1>6, <1>9 DEF a

LEMMA VisitOK ==
  ASSUME NEW w, WalkOK(w), NEW site, IsSite(site), NEW f \in DOMAIN site, ~IsHidden(f)
  PROVE  /\ WalkOK(Visit(w, site, f))
         /\ Visit(w, site, f).hashes \in {w.hashes, Put(w.hashes, f, site[f].ver)}
<1> DEFINE posts == IF "posts" \in DOMAIN w.colls THEN w.colls["posts"] ELSE <<>>
           Stored(x, streamed) == [x EXCEPT !.assets = Put(@, f, Asset(f, site[f].ver, <<>>, streamed)),
                                            !.hashes = Put(@, f, site[f].ver)]
           entry == [of |-> f, front |-> site[f].front, text |-> Source(site, f)]
           page == [rel |-> f, vars |-> <<>>, text |-> ProcessHTML(site, f)]
           withPost == [w EXCEPT !.md = Append(@, entry),
                                 !.colls = Put(@, "posts", Append(posts, PostItem(site, f)))]
           withPage == [w EXCEPT !.html = Append(@, page)]
           withData == [w EXCEPT !.colls = Put(@, f.base, site[f].items)]
           hashed == Put(w.hashes, f, site[f].ver)
           json == f.ext = "json" /\ f.dir # <<>> /\ Head(f.dir) = "data"
<1>0. w \in [assets : {w.assets}, hashes : {w.hashes}, html : {w.html}, md : {w.md},
             colls : {w.colls}]
  BY DEF WalkOK
<1>1. /\ site[f].ver # 0 /\ IsSeq(site[f].items)
      /\ IsSeq(posts)
      /\ \A c \in DOMAIN w.colls : IsSeq(w.colls[c])
  <2>1. IsNode(site[f]) /\ site[f].ver \in Nat \ {0}
    BY DEF IsSite
  <2>2. QED
    BY <2>1, SeqEmpty DEF IsNode, WalkOK
<1>2. ASSUME f.ext \notin HtmlExts, NEW streamed
      PROVE  WalkOK(Stored(w, streamed)) /\ Stored(w, streamed).hashes = hashed
  <2>1. WalkOK(WalkOf(Put(w.assets, f, Asset(f, site[f].ver, <<>>, streamed)),
                      Put(w.hashes, f, site[f].ver), w.html, w.md, w.colls))
    BY <1>1, <1>2, StoredOK
  <2>2. Stored(w, streamed) = WalkOf(Put(w.assets, f, Asset(f, site[f].ver, <<>>, streamed)),
                                     Put(w.hashes, f, site[f].ver), w.html, w.md, w.colls)
    BY <1>0, WalkStored, Zenon
  <2>3. QED
    BY <2>1, <2>2, WalkOfParts
<1>3. WalkOK(withPost) /\ withPost.hashes = w.hashes
  <2>1. entry.of = f /\ entry.text = Source(site, f) /\ Doc(Source(site, f))
    BY SourceDoc
  <2> HIDE DEF entry
  <2>2. PICK md, colls : md = Append(w.md, entry)
                         /\ colls = Put(w.colls, "posts", Append(posts, PostItem(site, f)))
    OBVIOUS
  <2>3. IsSeq(md) /\ ToSet(md) = ToSet(w.md) \cup {entry}
    BY <2>2, SeqAppend DEF WalkOK
  <2>4. \A c \in DOMAIN colls : IsSeq(colls[c])
    <3>1. IsSeq(Append(posts, PostItem(site, f)))
      BY <1>1, SeqAppend
    <3>2. QED
      BY <1>1, <2>2, <3>1 DEF Put
  <2>4a. [w EXCEPT !.md = md, !.colls = colls] = WalkOf(w.assets, w.hashes, w.html, md, colls)
    BY <1>0, WalkPosted, Zenon
  <2>4b. withPost = [w EXCEPT !.md = md, !.colls = colls]
    BY <2>2, Zenon
  <2>5. withPost = WalkOf(w.assets, w.hashes, w.html, md, colls)
    BY <2>4a, <2>4b, Zenon
  <2> HIDE DEF withPost
  <2>6. /\ withPost.assets = w.assets /\ withPost.hashes = w.hashes /\ withPost.html = w.html
        /\ withPost.md = md /\ withPost.colls = colls
        /\ withPost \in [assets : {w.assets}, hashes : {w.hashes}, html : {w.html}, md : {md},
                         colls : {colls}]
    BY <2>5, WalkOfParts
  <2>7. QED
    BY <2>1, <2>3, <2>4, <2>6 DEF WalkOK
<1>4. ASSUME f.ext \in HtmlExts PROVE WalkOK(withPage) /\ withPage.hashes = w.hashes
  <2>1. page.rel = f /\ page.text = ProcessHTML(site, f) /\ Doc(ProcessHTML(site, f))
    BY ProcessHTMLDoc
  <2> HIDE DEF page
  <2>2. PICK html : html = Append(w.html, page)
    OBVIOUS
  <2>3. IsSeq(html) /\ ToSet(html) = ToSet(w.html) \cup {page}
    BY <2>2, SeqAppend DEF WalkOK
  <2>4. [w EXCEPT !.html = html] = WalkOf(w.assets, w.hashes, html, w.md, w.colls)
    BY <1>0, WalkChanged, Zenon
  <2>5. withPage = WalkOf(w.assets, w.hashes, html, w.md, w.colls)
    BY <2>2, <2>4, Zenon
  <2> HIDE DEF withPage
  <2>6. /\ withPage.assets = w.assets /\ withPage.hashes = w.hashes /\ withPage.html = html
        /\ withPage.md = w.md /\ withPage.colls = w.colls
        /\ withPage \in [assets : {w.assets}, hashes : {w.hashes}, html : {html}, md : {w.md},
                         colls : {w.colls}]
    BY <2>5, WalkOfParts
  <2>7. QED
    BY <1>4, <2>1, <2>3, <2>6 DEF WalkOK
<1>5. ASSUME json PROVE WalkOK(Stored(withData, FALSE)) /\ Stored(withData, FALSE).hashes = hashed
  <2>1. PICK colls : colls = Put(w.colls, f.base, site[f].items)
    OBVIOUS
  <2>2. \A c \in DOMAIN colls : IsSeq(colls[c])
    BY <1>1, <2>1 DEF Put
  <2>3. f.ext \notin HtmlExts
    BY <1>5 DEF HtmlExts
  <2>4. WalkOK(WalkOf(Put(w.assets, f, Asset(f, site[f].ver, <<>>, FALSE)),
                      Put(w.hashes, f, site[f].ver), w.html, w.md, colls))
    BY <1>1, <2>2, <2>3, StoredOK
  <2>4a. [w EXCEPT !.colls = colls] = WalkOf(w.assets, w.hashes, w.html, w.md, colls)
    BY <1>0, WalkChanged, Zenon
  <2>5. withData = WalkOf(w.assets, w.hashes, w.html, w.md, colls)
    BY <2>1, <2>4a, Zenon
  <2>8. /\ withData.assets = w.assets /\ withData.hashes = w.hashes /\ withData.html = w.html
        /\ withData.md = w.md /\ withData.colls = colls
        /\ withData \in [assets : {withData.assets}, hashes : {withData.hashes},
                          html : {withData.html}, md : {withData.md}, colls : {withData.colls}]
    BY <2>5, WalkOfParts
  <2> HIDE DEF withData
  <2>6. Stored(withData, FALSE) =
          WalkOf(Put(w.assets, f, Asset(f, site[f].ver, <<>>, FALSE)),
                 Put(w.hashes, f, site[f].ver), w.html, w.md, colls)
    <3>1. PICK a, h : /\ a = Put(w.assets, f, Asset(f, site[f].ver, <<>>, FALSE))
                      /\ h = Put(w.hashes, f, site[f].ver)
      OBVIOUS
    <3>2. [withData EXCEPT !.assets = a, !.hashes = h] =
            WalkOf(a, h, withData.html, withData.md, withData.colls)
      BY <2>8, WalkStored, Zenon
    <3>3. Stored(withData, FALSE) = [withData EXCEPT !.assets = a, !.hashes = h]
      BY <2>8, <3>1, Zenon
    <3>4. QED
      BY <2>8, <3>1, <3>2, <3>3, Zenon
  <2>7. PICK x, a, h : /\ x = WalkOf(a, h, w.html, w.md, colls) /\ h = Put(w.hashes, f, site[f].ver)
                       /\ a = Put(w.assets, f, Asset(f, site[f].ver, <<>>, FALSE))
    OBVIOUS
  <2>9. x.hashes = h
    BY <2>7 DEF WalkOf
  <2>10. Stored(withData, FALSE) = x
    BY <2>6, <2>7, Zenon
  <2>11. QED
    BY <2>4, <2>7, <2>9, <2>10, Zenon
<1>6. HeavyExts \cap HtmlExts = {} /\ HtmlExts \subseteq RamExts
  BY DEF HeavyExts, HtmlExts, RamExts
<1>7. Visit(w, site, f) =
        IF IsHidden(f) \/ site[f].link THEN w ELSE
        CASE f.ext \in HeavyExts \/ (site[f].big /\ f.ext \notin RamExts) -> Stored(w, TRUE)
          [] f.ext \in MdExts -> withPost
          [] f.ext \in HtmlExts -> withPage
          [] json -> Stored(withData, FALSE)
          [] OTHER -> Stored(w, FALSE)
  BY DEF Visit
<1> HIDE DEF Stored, withPost, withPage, withData, json
<1>8. \/ Visit(w, site, f) = w
      \/ f.ext \notin HtmlExts /\ Visit(w, site, f) = Stored(w, TRUE)
      \/ Visit(w, site, f) = withPost
      \/ f.ext \in HtmlExts /\ Visit(w, site, f) = withPage
      \/ json /\ Visit(w, site, f) = Stored(withData, FALSE)
      \/ f.ext \notin HtmlExts /\ Visit(w, site, f) = Stored(w, FALSE)
  BY <1>6, <1>7
<1>9. QED
  BY <1>2, <1>3, <1>4, <1>5, <1>8

-----------------------------------------------------------------------------
(* Pass 2 and the bodies of the pages.                                          *)
PageOK(p) == p.rel.ext \in HtmlExts /\ ~IsHidden(p.rel) /\ Doc(p.text)

LEMMA NameParts ==
  ASSUME NEW d, NEW b, NEW e
  PROVE  LET f == Name(d, b, e) IN f.dir = d /\ f.base = b /\ f.ext = e
BY DEF Name

LEMMA MarkdownPageOK ==
  ASSUME NEW site, IsSite(site), NEW m, ~IsHidden(m.of), Doc(m.text)
  PROVE  PageOK(MarkdownPage(site, m))
<1> DEFINE base == Name(<<>>, "base", "html")
           wanted == IF "layout" \in DOMAIN m.front THEN m.front["layout"]
                     ELSE IF base \in DOMAIN site THEN base ELSE NoName
           layout == IF wanted = NoName THEN NoName ELSE ResolveIncludePath(site, m.of.dir, wanted)
           laid == IF layout = NoName THEN m.text
                   ELSE Fill(ProcessHTML(site, layout), m.text)
           rel == Name(m.of.dir, m.of.base, "html")
           page == [rel |-> rel, vars |-> m.front, text |-> ProcessVariables(laid, m.front)]
<1>1. MarkdownPage(site, m) = page
  BY DEF MarkdownPage
<1>2. layout # NoName => layout \in DOMAIN site
  BY ResolveFound
<1>3. page.rel = rel /\ page.text = ProcessVariables(laid, m.front)
  OBVIOUS
<1> HIDE DEF page, layout
<1>4. Doc(laid)
  BY <1>2, ProcessHTMLDoc, FillDoc
<1> HIDE DEF laid
<1>5. Doc(ProcessVariables(laid, m.front))
  BY <1>4, DocIsFlat, VariablesUnmarked
<1>6. rel.dir = m.of.dir /\ rel.base = m.of.base /\ rel.ext = "html"
  BY NameParts
<1> HIDE DEF rel
<1>7. ~IsHidden(rel) /\ rel.ext \in HtmlExts
  BY <1>6 DEF IsHidden, HtmlExts
<1>8. QED
  BY <1>1, <1>3, <1>5, <1>7 DEF PageOK

PagesOfWalk(walk, site) ==
  walk.html \o [i \in 1..Len(walk.md) |-> MarkdownPage(site, walk.md[i])]

LEMMA PagesOK ==
  ASSUME NEW w, WalkOK(w), NEW site, IsSite(site)
  PROVE  /\ IsSeq(PagesOfWalk(w, site))
         /\ \A p \in ToSet(PagesOfWalk(w, site)) : PageOK(p)
<1> DEFINE n == Len(w.md)
<1>1. n \in Nat /\ \A i \in 1..n : w.md[i] \in ToSet(w.md)
  BY SeqFacts DEF WalkOK
<1>2. PICK made : made = [i \in 1..n |-> MarkdownPage(site, w.md[i])]
  OBVIOUS
<1>3. made = [i \in 1..n |-> made[i]]
  BY <1>2
<1>4. IsSeq(made) /\ ToSet(made) = {made[i] : i \in 1..n}
  BY <1>1, <1>3, SeqMade
<1>5. \A i \in 1..n : PageOK(made[i])
  BY <1>1, <1>2, MarkdownPageOK DEF WalkOK
<1>6. IsSeq(w.html) /\ \A p \in ToSet(w.html) : PageOK(p)
  BY DEF WalkOK, PageOK
<1>7. PagesOfWalk(w, site) = w.html \o made
  BY <1>2 DEF PagesOfWalk
<1>8. IsSeq(w.html \o made) /\ ToSet(w.html \o made) = ToSet(w.html) \cup ToSet(made)
  BY <1>4, <1>6, SeqJoin
<1>9. QED
  BY <1>4, <1>5, <1>6, <1>7, <1>8

SortedColls(walk) ==
  IF "posts" \in DOMAIN walk.colls THEN [walk.colls EXCEPT !["posts"] = ByDate(@)] ELSE walk.colls

LEMMA SortedOK ==
  ASSUME NEW w, WalkOK(w)
  PROVE  \A c \in DOMAIN SortedColls(w) : IsSeq(SortedColls(w)[c])
<1>1. PICK colls : colls = w.colls
  OBVIOUS
<1>2. \A c \in DOMAIN colls : IsSeq(colls[c])
  BY <1>1 DEF WalkOK
<1>3. CASE "posts" \notin DOMAIN colls
  BY <1>1, <1>2, <1>3 DEF SortedColls
<1>4. CASE "posts" \in DOMAIN colls
  <2>1. PICK posts : posts = colls["posts"]
    OBVIOUS
  <2>2. PICK sorted : sorted = ByDate(posts)
    OBVIOUS
  <2>3. Len(posts) \in Nat
    BY <1>2, <1>4, <2>1, SeqFacts
  <2>4. sorted = [i \in 1..Len(posts) |-> sorted[i]]
    BY <2>2 DEF ByDate
  <2>5. IsSeq(sorted)
    BY <2>3, <2>4, SeqMade
  <2>6. PICK made : made = [colls EXCEPT !["posts"] = sorted]
    OBVIOUS
  <2>7. SortedColls(w) = made
    BY <1>1, <1>4, <2>1, <2>2, <2>6 DEF SortedColls
  <2>8. DOMAIN made = DOMAIN colls /\ made["posts"] = sorted
        /\ \A c \in DOMAIN colls \ {"posts"} : made[c] = colls[c]
    BY <1>4, <2>6
  <2>9. QED
    BY <1>2, <2>5, <2>7, <2>8
<1>5. QED
  BY <1>3, <1>4

BodyOf(p, colls, hashes) ==
  FingerprintHTML(p.rel.dir, ProcessVariables(ProcessTemplateLoops(p.text, colls), p.vars), hashes)

LEMMA BodyMarked ==
  ASSUME NEW p, PageOK(p), NEW colls, \A c \in DOMAIN colls : IsSeq(colls[c]), NEW hashes
  PROVE  \A k \in ToSet(BodyOf(p, colls, hashes)) : Marked(k, p.rel.dir, hashes)
<1>1. Flat(ProcessTemplateLoops(p.text, colls))
  BY LoopsFlat DEF PageOK
<1>2. Flat(ProcessVariables(ProcessTemplateLoops(p.text, colls), p.vars))
  BY <1>1, VariablesUnmarked
<1>3. QED
  BY <1>2, FingerprintMarked DEF BodyOf

-----------------------------------------------------------------------------
(* The routes.                                                                  *)
RouteOf(f) ==
  IF f = Name(<<>>, "index", "html") THEN Root
  ELSE IF f.base = "index" /\ f.ext = "html" THEN Name(Front(f.dir), Last(f.dir), "")
  ELSE IF f.ext = "html" THEN Name(f.dir, f.base, "") ELSE f

LEMMA CleanRouteIs ==
  ASSUME NEW f, f.ext \in HtmlExts
  PROVE  /\ CleanRoutes(f) = {RouteOf(f)}
         /\ RouteOf(f).ext = "" \/ (RouteOf(f).ext = "htm" /\ RouteOf(f) = f)
<1>1. CleanRoutes(f) = {RouteOf(f)}
  BY DEF CleanRoutes, RouteOf
<1>2. PICK in, at : in = Name(Front(f.dir), Last(f.dir), "") /\ at = Name(f.dir, f.base, "")
  OBVIOUS
<1>3. in.ext = "" /\ at.ext = "" /\ Root.ext = ""
  BY <1>2 DEF Name, Root
<1>4. \/ RouteOf(f) \in {Root, in, at}
      \/ f.ext # "html" /\ RouteOf(f) = f
  BY <1>2 DEF RouteOf
<1>5. f.ext \in {"html", "htm"}
  BY DEF HtmlExts
<1>6. QED
  BY <1>1, <1>3, <1>4, <1>5

LEMMA SomeSeqOf ==
  ASSUME NEW S, IsFiniteSet(S)
  PROVE  ToSet(SetToSeq(S)) \subseteq S
<1>1. Cardinality(S) \in Nat /\ \E f : f \in Bijection(1..Cardinality(S), S)
  BY FS_CardinalityType DEF ExistsBijection
<1>2. PICK f : f \in Bijection(1..Cardinality(S), S)
  BY <1>1
<1>3. f \in [1..Cardinality(S) -> S] /\ IsInjective(f)
  BY <1>2 DEF Bijection, Injection, IsInjective
<1>4. SetToSeq(S) \in [1..Cardinality(S) -> S]
  BY <1>3 DEF SetToSeq
<1>5. QED
  BY <1>4 DEF ToSet

LEMMA LocsOf ==
  ASSUME NEW pages, IsSeq(pages), \A p \in ToSet(pages) : p.rel.ext \in HtmlExts
  PROVE  LET locs == SetToSeq({Tok("loc", r) : r \in UNION {CleanRoutes(p.rel) : p \in ToSet(pages)}})
         IN  \A k \in ToSet(locs) : \E p \in ToSet(pages) : \E r \in CleanRoutes(p.rel) : k = Tok("loc", r)
<1> DEFINE n == Len(pages)
           S == {Tok("loc", r) : r \in UNION {CleanRoutes(p.rel) : p \in ToSet(pages)}}
<1>1. /\ n \in Nat /\ \A i \in 1..n : pages[i] \in ToSet(pages)
      /\ \A p \in ToSet(pages) : \E i \in 1..n : pages[i] = p
  BY SeqFacts
<1>2. PICK f : f = [i \in 1..n |-> Tok("loc", RouteOf(pages[i].rel))]
  OBVIOUS
<1>3. \A p \in ToSet(pages) : CleanRoutes(p.rel) = {RouteOf(p.rel)}
  BY CleanRouteIs
<1>4. \A i \in 1..n : f[i] \in S
  BY <1>1, <1>2, <1>3
<1>5. ASSUME NEW k \in S PROVE \E i \in 1..n : f[i] = k
  <2>0. PICK p \in ToSet(pages) : \E r \in CleanRoutes(p.rel) : k = Tok("loc", r)
    OBVIOUS
  <2>1. PICK r \in CleanRoutes(p.rel) : k = Tok("loc", r)
    BY <2>0
  <2>2. PICK i \in 1..n : pages[i] = p
    BY <1>1
  <2>3. r = RouteOf(pages[i].rel)
    BY <1>3, <2>1, <2>2
  <2>4. f[i] = k
    BY <1>2, <2>1, <2>3
  <2>5. QED
    BY <2>4
<1> HIDE DEF S
<1>6. f \in Surjection(1..n, S)
  BY <1>2, <1>4, <1>5 DEF Surjection
<1>7. IsFiniteSet(1..n)
  BY <1>1, FS_Interval
<1>8. IsFiniteSet(S)
  BY <1>6, <1>7, FS_Surjection
<1>9. ToSet(SetToSeq(S)) \subseteq S
  BY <1>8, SomeSeqOf
<1>10. QED
  BY <1>9 DEF S

Claims(p, r) == r \in {p.rel} \cup CleanRoutes(p.rel)
Claimed(pages) == UNION {{p.rel} \cup CleanRoutes(p.rel) : p \in ToSet(pages)}

LEMMA LastExists ==
  ASSUME NEW pages, IsSeq(pages), NEW r, r \in Claimed(pages)
  PROVE  \E i \in 1..Len(pages) :
           Claims(pages[i], r) /\ \A j \in (i + 1)..Len(pages) : ~Claims(pages[j], r)
<1> DEFINE n == Len(pages)
           Claim(i) == Claims(pages[i], r)
<1>1. n \in Nat /\ \A p \in ToSet(pages) : \E i \in 1..n : pages[i] = p
  BY SeqFacts
<1>2. PICK p \in ToSet(pages) : Claims(p, r)
  BY DEF Claimed, Claims
<1>3. PICK a \in 1..n : Claim(a)
  BY <1>1, <1>2
<1> HIDE DEF Claim
<1> DEFINE left == {m \in Nat : \E i \in 1..n : Claim(i) /\ m = n - i}
<1>4. left \in SUBSET Nat /\ n - a \in left
  BY <1>1, <1>3
<1>5. PICK m \in left : \A x \in left : m <= x
  BY <1>4, LeastNat
<1>6. PICK i \in 1..n : Claim(i) /\ m = n - i
  BY <1>5
<1>7. ASSUME NEW j \in (i + 1)..n, Claim(j) PROVE FALSE
  <2>1. j \in 1..n /\ n - j \in Nat
    BY <1>1
  <2>2. n - j \in left
    BY <1>7, <2>1
  <2>3. m <= n - j
    BY <1>5, <2>2
  <2>4. QED
    BY <1>1, <1>6, <2>3
<1>8. QED
  BY <1>6, <1>7 DEF Claim

(* An asset the pipeline made up: no file's content, no hash, held in memory.   *)
Built(a) == a.ver = 0 /\ a.disk = FALSE

(* What a map of routes holds, and by whose right.                              *)
Serves(F, w, pages) ==
  /\ DOMAIN w.assets \cup Claimed(pages) \subseteq DOMAIN F
  /\ \A r \in Claimed(pages) :
       \E p \in ToSet(pages) : /\ Claims(p, r) /\ F[r].of = p.rel /\ Built(F[r])
                               /\ F[r].body = BodyOf(p, SortedColls(w), w.hashes)
                               /\ \A k \in ToSet(F[r].body) : Marked(k, p.rel.dir, w.hashes)
  /\ \A r \in DOMAIN w.assets \ Claimed(pages) : F[r] = w.assets[r]

Made(F, w, pages) ==
  /\ Serves(F, w, pages)
  /\ \A r \in DOMAIN F \ (DOMAIN w.assets \cup Claimed(pages)) :
       /\ r \in {SitemapName, RobotsName} /\ F[r].of = r /\ Built(F[r])
       /\ \A k \in ToSet(F[r].body) :
            \E p \in ToSet(pages) : \E q \in CleanRoutes(p.rel) : k = Tok("loc", q)

OfferTo(assets, f, body) ==
  IF f \in DOMAIN assets THEN assets ELSE Put(assets, f, Asset(f, 0, body, FALSE))

LEMMA Offered ==
  ASSUME NEW assets, NEW f, NEW body
  PROVE  LET F == OfferTo(assets, f, body)
         IN  /\ DOMAIN F = DOMAIN assets \cup {f}
             /\ \A r \in DOMAIN assets : F[r] = assets[r]
             /\ f \notin DOMAIN assets => F[f].of = f /\ F[f].body = body /\ Built(F[f])
<1> DEFINE a == Asset(f, 0, body, FALSE)
<1>1. a.of = f /\ a.body = body /\ Built(a)
  BY DEF Asset, Built
<1>2. OfferTo(assets, f, body) = IF f \in DOMAIN assets THEN assets ELSE Put(assets, f, a)
  BY DEF OfferTo
<1> HIDE DEF a
<1>3. QED
  BY <1>1, <1>2 DEF Put

Routed(w, pages) ==
  LET Page(p) == Asset(p.rel, 0, BodyOf(p, SortedColls(w), w.hashes), FALSE)
      LastOf(r) == CHOOSE i \in 1..Len(pages) :
                     Claims(pages[i], r) /\ \A j \in (i + 1)..Len(pages) : ~Claims(pages[j], r)
  IN  [r \in DOMAIN w.assets \cup Claimed(pages) |->
         IF r \in Claimed(pages) THEN Page(pages[LastOf(r)]) ELSE w.assets[r]]

LEMMA RoutedMakes ==
  ASSUME NEW w, WalkOK(w), NEW pages, IsSeq(pages), \A p \in ToSet(pages) : PageOK(p)
  PROVE  /\ DOMAIN Routed(w, pages) = DOMAIN w.assets \cup Claimed(pages)
         /\ Serves(Routed(w, pages), w, pages)
<1> DEFINE n == Len(pages)
           Page(p) == Asset(p.rel, 0, BodyOf(p, SortedColls(w), w.hashes), FALSE)
           LastOf(r) == CHOOSE i \in 1..n :
                          Claims(pages[i], r) /\ \A j \in (i + 1)..n : ~Claims(pages[j], r)
<1>1. PICK F : F = [r \in DOMAIN w.assets \cup Claimed(pages) |->
                      IF r \in Claimed(pages) THEN Page(pages[LastOf(r)]) ELSE w.assets[r]]
  OBVIOUS
<1>2. Routed(w, pages) = F
  BY <1>1 DEF Routed
<1>3. ASSUME NEW r \in Claimed(pages)
      PROVE  \E p \in ToSet(pages) :
               /\ Claims(p, r) /\ F[r].of = p.rel /\ Built(F[r])
               /\ F[r].body = BodyOf(p, SortedColls(w), w.hashes)
               /\ \A k \in ToSet(F[r].body) : Marked(k, p.rel.dir, w.hashes)
  <2>1. PICK i : i = LastOf(r)
    OBVIOUS
  <2>2. i \in 1..n /\ Claims(pages[i], r)
    BY <2>1, LastExists
  <2>3. F[r] = Page(pages[i])
    BY <1>1, <2>1
  <2>4. PICK p \in ToSet(pages) : p = pages[i]
    BY <2>2, SeqFacts
  <2>5. Page(p).of = p.rel /\ Page(p).body = BodyOf(p, SortedColls(w), w.hashes) /\ Built(Page(p))
    BY DEF Asset, Built
  <2>6. \A k \in ToSet(BodyOf(p, SortedColls(w), w.hashes)) : Marked(k, p.rel.dir, w.hashes)
    BY SortedOK, BodyMarked
  <2> HIDE DEF Page
  <2>7. F[r].of = p.rel /\ F[r].body = BodyOf(p, SortedColls(w), w.hashes) /\ Built(F[r])
    BY <2>3, <2>4, <2>5
  <2>8. QED
    BY <2>2, <2>4, <2>6, <2>7
<1>4. /\ DOMAIN F = DOMAIN w.assets \cup Claimed(pages)
      /\ \A r \in DOMAIN w.assets \ Claimed(pages) : F[r] = w.assets[r]
  BY <1>1
<1>5. QED
  BY <1>2, <1>3, <1>4 DEF Serves

LEMMA FinishMakes ==
  ASSUME NEW w, WalkOK(w), NEW site, IsSite(site)
  PROVE  Made(Finish(w, site), w, PagesOfWalk(w, site))
<1> DEFINE pages == PagesOfWalk(w, site)
           locs == SetToSeq({Tok("loc", r) : r \in UNION {CleanRoutes(p.rel) : p \in ToSet(pages)}})
           routed == Routed(w, pages)
<1>1. Finish(w, site) = IF pages = <<>> THEN routed
                        ELSE OfferTo(OfferTo(routed, SitemapName, locs), RobotsName, <<>>)
  BY DEF Finish, PagesOfWalk, Routed, Claims, Claimed, BodyOf, SortedColls, OfferTo
<1>2. IsSeq(pages) /\ \A p \in ToSet(pages) : PageOK(p)
  BY PagesOK
<1>3. \A k \in ToSet(locs) : \E p \in ToSet(pages) : \E q \in CleanRoutes(p.rel) : k = Tok("loc", q)
  BY <1>2, LocsOf DEF PageOK
<1> HIDE DEF pages, locs
<1>4. DOMAIN routed = DOMAIN w.assets \cup Claimed(pages) /\ Serves(routed, w, pages)
  BY <1>2, RoutedMakes
<1> DEFINE one == OfferTo(routed, SitemapName, locs)
           two == OfferTo(one, RobotsName, <<>>)
<1> HIDE DEF routed
<1>5. ASSUME pages = <<>> PROVE Made(Finish(w, site), w, pages)
  BY <1>1, <1>4, <1>5 DEF Made
<1>6. ASSUME pages # <<>> PROVE Made(Finish(w, site), w, pages)
  <2>1. /\ DOMAIN one = DOMAIN routed \cup {SitemapName}
        /\ \A r \in DOMAIN routed : one[r] = routed[r]
        /\ SitemapName \notin DOMAIN routed => one[SitemapName].of = SitemapName
                                                 /\ one[SitemapName].body = locs
                                                 /\ Built(one[SitemapName])
    BY Offered
  <2> HIDE DEF one
  <2>2. /\ DOMAIN two = DOMAIN one \cup {RobotsName}
        /\ \A r \in DOMAIN one : two[r] = one[r]
        /\ RobotsName \notin DOMAIN one => two[RobotsName].of = RobotsName
                                             /\ two[RobotsName].body = <<>>
                                             /\ Built(two[RobotsName])
    BY Offered
  <2>3. Finish(w, site) = two
    BY <1>1, <1>6 DEF one
  <2> HIDE DEF two
  <2>4. \A r \in DOMAIN routed : r \in DOMAIN two /\ two[r] = routed[r]
    BY <2>1, <2>2
  <2>5. ASSUME NEW r \in DOMAIN two \ DOMAIN routed
        PROVE  /\ r \in {SitemapName, RobotsName} /\ two[r].of = r /\ Built(two[r])
               /\ \A k \in ToSet(two[r].body) :
                    \E p \in ToSet(pages) : \E q \in CleanRoutes(p.rel) : k = Tok("loc", q)
    <3>1. CASE r \in DOMAIN one
      <4>1. r = SitemapName /\ two[r] = one[r]
        BY <2>1, <2>2, <3>1
      <4>2. QED
        BY <1>3, <2>1, <4>1
    <3>2. CASE r \notin DOMAIN one
      <4>1. r = RobotsName /\ two[r].of = r /\ two[r].body = <<>> /\ Built(two[r])
        BY <2>2, <3>2
      <4>2. QED
        BY <4>1, SeqEmpty
    <3>3. QED
      BY <3>1, <3>2
  <2>6. Made(two, w, pages)
    <3>1. Serves(two, w, pages)
      BY <1>4, <2>4 DEF Serves
    <3>2. QED
      BY <1>4, <2>5, <3>1 DEF Made
  <2>7. QED
    BY <2>3, <2>6
<1>7. Made(Finish(w, site), w, pages)
  BY <1>5, <1>6
<1>8. QED
  BY <1>7 DEF pages

-----------------------------------------------------------------------------
(* What a finished map promises.                                                *)
NothingHidden(F) == \A r \in DOMAIN F : ~IsHidden(F[r].of)

ListedAnswered(F) ==
  SitemapName \in DOMAIN F =>
    \A k \in ToSet(F[SitemapName].body) :
      LET hit == FindAsset(F, k.to)
      IN  hit # NoName /\ k.to \in CleanRoutes(F[hit].of)

MarksMatch(F) ==
  \A r \in DOMAIN F :
    \A k \in ToSet(F[r].body) :
      (/\ F[r].of = r
       /\ k.t = "absref" \/ (k.t = "ref" /\ k.to.dir = <<>>)
       /\ k.v # 0)
      => LET hit == FindAsset(F, BesideOf(r.dir, k))
         IN  hit # NoName /\ F[hit].ver = k.v

(* The file whose hash a reference carries, and its place in the map.           *)
MarksAre(F) ==
  \A r \in DOMAIN F :
    \A k \in ToSet(F[r].body) :
      k.t \in {"ref", "absref"} /\ k.v # 0 =>
        LET near == BesideOf(F[r].of.dir, k)
            file == IF near \in DOMAIN F THEN near ELSE k.to
        IN  file \in DOMAIN F /\ F[file].of = file /\ F[file].ver = k.v

(* What is neither a page nor made up is a file, under its own name.            *)
OwnFiles(F) ==
  \A r \in DOMAIN F : Built(F[r]) \/ (F[r].of = r /\ F[r].ver # 0)

MapOK(F) == NothingHidden(F) /\ ListedAnswered(F) /\ MarksMatch(F) /\ MarksAre(F) /\ OwnFiles(F)

(* The lookup takes its first candidate that the map holds.                     *)
LEMMA FindFirst ==
  ASSUME NEW F, NEW p \in DOMAIN F
  PROVE  FindAsset(F, p) = p
<1> DEFINE inDir == IF p = Root THEN <<>> ELSE Append(p.dir, p.base)
           here == IF p.ext = "" THEN <<Name(inDir, "index", "html"), Name(p.dir, p.base, "html")>>
                                 ELSE <<>>
           top == IF p.dir # <<>> THEN <<Name(<<>>, p.base, p.ext)>> ELSE <<>>
           last == IF p.ext = "" THEN <<Name(<<>>, "index", "html")>> ELSE <<>>
           tries == <<p>> \o here \o top \o last
           hits == {i \in 1..Len(tries) : tries[i] \in DOMAIN F}
<1>1. FindAsset(F, p) = IF hits = {} THEN NoName ELSE tries[Min(hits)]
  BY DEF FindAsset
<1>2. Len(tries) \in Nat /\ 1 \in 1..Len(tries) /\ tries[1] = p
  <2>1. PICK rest, X : here \in Seq(X) /\ top \in Seq(X) /\ last \in Seq(X) /\ rest = X
    <3>1. PICK a, b, c, d : /\ a = Name(inDir, "index", "html") /\ b = Name(p.dir, p.base, "html")
                            /\ c = Name(<<>>, p.base, p.ext) /\ d = Name(<<>>, "index", "html")
      OBVIOUS
    <3>2. /\ <<a, b>> \in Seq({a, b, c, d}) /\ <<c>> \in Seq({a, b, c, d})
          /\ <<d>> \in Seq({a, b, c, d}) /\ <<>> \in Seq({a, b, c, d})
      OBVIOUS
    <3>3. here \in Seq({a, b, c, d}) /\ top \in Seq({a, b, c, d}) /\ last \in Seq({a, b, c, d})
      BY <3>1, <3>2
    <3>4. QED
      BY <3>3
  <2> HIDE DEF here, top, last
  <2>0. PICK Y : Y = X \cup {p}
    OBVIOUS
  <2>2. here \in Seq(Y) /\ top \in Seq(Y) /\ last \in Seq(Y) /\ <<p>> \in Seq(Y)
        /\ Len(<<p>>) = 1 /\ <<p>>[1] = p
    <3>1. \A s : s \in Seq(X) => s \in Seq(Y)
      BY <2>0
    <3>2. <<p>> \in Seq(Y) /\ Len(<<p>>) = 1 /\ <<p>>[1] = p
      BY <2>0
    <3>3. QED
      BY <2>1, <3>1, <3>2
  <2>3. PICK u \in Seq(Y) : u = <<p>> \o here
    BY <2>2, ConcatProperties
  <2>4. Len(u) \in Nat /\ 1 \in 1..Len(u) /\ u[1] = p
    BY <2>2, <2>3, ConcatProperties
  <2>5. PICK v \in Seq(Y) : v = u \o top
    BY <2>2, <2>3, ConcatProperties
  <2>6. Len(v) \in Nat /\ 1 \in 1..Len(v) /\ v[1] = p
    BY <2>2, <2>4, <2>5, ConcatProperties
  <2>7. PICK x \in Seq(Y) : x = v \o last
    BY <2>2, <2>5, ConcatProperties
  <2>8. Len(x) \in Nat /\ 1 \in 1..Len(x) /\ x[1] = p
    BY <2>2, <2>6, <2>7, ConcatProperties
  <2>9. tries = x
    BY <2>3, <2>5, <2>7
  <2>10. QED
    BY <2>8, <2>9
<1> HIDE DEF tries
<1>3. 1 \in hits /\ \A i \in hits : 1 <= i
  BY <1>2
<1>4. hits \subseteq Nat
  BY <1>2
<1> HIDE DEF hits
<1>5. Min(hits) = 1
  <2>1. \A i \in hits : i \in Nat
    BY <1>4
  <2>2. PICK m : m = Min(hits) /\ m \in hits /\ \A i \in hits : m <= i
    BY <1>3 DEF Min
  <2>3. m <= 1 /\ 1 <= m /\ m \in Nat
    BY <1>3, <2>1, <2>2
  <2>4. QED
    BY <2>2, <2>3
<1>6. QED
  BY <1>1, <1>2, <1>3, <1>5

LEMMA SeqOne ==
  ASSUME NEW S, NEW k \in S
  PROVE  <<k>> \in Seq(S) /\ Len(<<k>>) = 1 /\ <<k>>[1] = k
OBVIOUS

LEMMA SeqNone ==
  ASSUME NEW S PROVE <<>> \in Seq(S) /\ Len(<<>>) = 0
OBVIOUS

(* The first of two candidates misses.                                          *)
HitsOf(tries, known) == {i \in 1..Len(tries) : tries[i] \in known}
TwoTries(p, q) == <<p>> \o <<>> \o <<q>> \o <<>>

LEMMA SecondHit ==
  ASSUME NEW known, NEW p, NEW q, p \notin known, q \in known,
         NEW tried, tried = TwoTries(p, q)
  PROVE  HitsOf(tried, known) # {} /\ tried[Min(HitsOf(tried, known))] = q
<1>1. PICK first, none, top : first = <<p>> /\ none = <<>> /\ top = <<q>>
  OBVIOUS
<1> DEFINE S == {p, q}
<1>2. /\ first \in Seq(S) /\ Len(first) = 1 /\ first[1] = p
      /\ top \in Seq(S) /\ Len(top) = 1 /\ top[1] = q
      /\ none \in Seq(S) /\ Len(none) = 0
  <2>1. p \in S /\ q \in S
    OBVIOUS
  <2> HIDE DEF S
  <2>2. QED
    BY <1>1, <2>1, SeqOne, SeqNone
<1> HIDE DEF S
<1>3. PICK u \in Seq(S) : u = first \o none
  BY <1>2, ConcatProperties
<1>4. Len(u) = 1 /\ u[1] = p
  BY <1>2, <1>3, ConcatProperties
<1>5. PICK v \in Seq(S) : v = u \o top
  BY <1>2, <1>3, ConcatProperties
<1>6. Len(v) = 2 /\ v[1] = p /\ v[2] = q
  <2>1. Len(v) = 1 + 1 /\ \A i \in 1..2 : v[i] = IF i <= 1 THEN u[i] ELSE top[i - 1]
    BY <1>2, <1>3, <1>4, <1>5, ConcatProperties
  <2>2. v[1] = u[1] /\ v[2] = top[1]
    <3>1. v[1] = u[1]
      BY <2>1
    <3>2. 2 \in 1..2 /\ ~(2 <= 1) /\ 2 - 1 = 1
      OBVIOUS
    <3>3. v[2] = top[2 - 1]
      BY <2>1, <3>2
    <3>4. QED
      BY <3>1, <3>2, <3>3
  <2>3. QED
    BY <1>2, <1>4, <2>1, <2>2
<1>7. PICK tries \in Seq(S) : tries = v \o none
  BY <1>2, <1>5, ConcatProperties
<1>8. Len(tries) = 2 /\ tries[1] = p /\ tries[2] = q
  <2>1. Len(tries) = 2 + 0 /\ \A i \in 1..2 : tries[i] = v[i]
    BY <1>2, <1>5, <1>6, <1>7, ConcatProperties
  <2>2. QED
    BY <1>6, <2>1
<1>9. PICK hits : hits = {i \in 1..Len(tries) : tries[i] \in known}
  OBVIOUS
<1>10. tries = TwoTries(p, q)
  BY <1>1, <1>3, <1>5, <1>7 DEF TwoTries
<1>11. 2 \in hits /\ \A i \in hits : i = 2
  <2>1. 2 \in hits
    BY <1>8, <1>9
  <2>2. ASSUME NEW i \in hits, i # 2 PROVE FALSE
    <3>1. i \in 1..2 /\ tries[i] \in known
      BY <1>8, <1>9
    <3>2. i = 1
      BY <2>2, <3>1
    <3>3. QED
      BY <1>8, <3>1, <3>2
  <2>3. QED
    BY <2>1, <2>2
<1>12. Min(hits) = 2
  <2>1. \E m \in hits : \A i \in hits : m <= i
    BY <1>11
  <2>2. PICK m : m = Min(hits) /\ m \in hits
    BY <2>1 DEF Min
  <2>3. QED
    BY <1>11, <2>2
<1>13. hits # {} /\ tries[Min(hits)] = q
  BY <1>8, <1>11, <1>12
<1>14. QED
  BY <1>9, <1>10, <1>13 DEF HitsOf

(* What the lookup finds is in the map.                                         *)
LEMMA FindHeld ==
  ASSUME NEW F, NEW p, FindAsset(F, p) # NoName
  PROVE  FindAsset(F, p) \in DOMAIN F
<1> DEFINE inDir == IF p = Root THEN <<>> ELSE Append(p.dir, p.base)
           tries == <<p>>
               \o (IF p.ext = "" THEN <<Name(inDir, "index", "html"), Name(p.dir, p.base, "html")>>
                                 ELSE <<>>)
               \o (IF p.dir # <<>> THEN <<Name(<<>>, p.base, p.ext)>> ELSE <<>>)
               \o (IF p.ext = "" THEN <<Name(<<>>, "index", "html")>> ELSE <<>>)
<1>1. FindAsset(F, p) = IF HitsOf(tries, DOMAIN F) = {} THEN NoName
                        ELSE tries[Min(HitsOf(tries, DOMAIN F))]
  BY DEF FindAsset, HitsOf
<1> HIDE DEF tries
<1>2. PICK hits : hits = HitsOf(tries, DOMAIN F)
  OBVIOUS
<1>3. hits \in SUBSET Nat
  BY <1>2 DEF HitsOf
<1>4. hits # {} => \E n \in hits : \A m \in hits : n <= m
  BY <1>3, LeastNat
<1>5. hits # {} => Min(hits) \in hits
  BY <1>4 DEF Min
<1>6. QED
  BY <1>1, <1>2, <1>5 DEF HitsOf

(* A name with an extension that the map does not hold is looked for at the root. *)
LEMMA FindAtRoot ==
  ASSUME NEW F, NEW p, p \notin DOMAIN F, p.ext # "", p.dir # <<>>,
         NEW q, q = Name(<<>>, p.base, p.ext), q \in DOMAIN F
  PROVE  FindAsset(F, p) = q
<1>1. PICK tried : tried = TwoTries(p, q)
  OBVIOUS
<1>2. FindAsset(F, p) = IF HitsOf(tried, DOMAIN F) = {} THEN NoName
                        ELSE tried[Min(HitsOf(tried, DOMAIN F))]
  BY <1>1 DEF FindAsset, HitsOf, TwoTries
<1>3. PICK known : known = DOMAIN F
  OBVIOUS
<1>4. p \notin known /\ q \in known
  BY <1>3
<1>5. HitsOf(tried, known) # {} /\ tried[Min(HitsOf(tried, known))] = q
  BY ONLY <1>1, <1>4, SecondHit
<1>6. FindAsset(F, p) = IF HitsOf(tried, known) = {} THEN NoName
                        ELSE tried[Min(HitsOf(tried, known))]
  BY ONLY <1>2, <1>3
<1>7. QED
  BY ONLY <1>5, <1>6

(* Which routes the map can hold at all: files, pages and what is made up.      *)
FromFile(F, w, pages, r) ==
  /\ r \in DOMAIN w.assets /\ r \notin Claimed(pages)
  /\ F[r] = w.assets[r] /\ F[r].of = r /\ F[r].body = <<>>
Paged(F, w, pages, r) ==
  /\ r \in Claimed(pages)
  /\ \E p \in ToSet(pages) : /\ Claims(p, r) /\ F[r].of = p.rel /\ Built(F[r])
                             /\ F[r].body = BodyOf(p, SortedColls(w), w.hashes)
                             /\ \A k \in ToSet(F[r].body) : Marked(k, p.rel.dir, w.hashes)
Listing(F, w, pages, r) ==
  /\ r \notin DOMAIN w.assets /\ r \notin Claimed(pages)
  /\ r \in {SitemapName, RobotsName} /\ F[r].of = r /\ Built(F[r])
  /\ \A k \in ToSet(F[r].body) :
       \E p \in ToSet(pages) : \E q \in CleanRoutes(p.rel) : k = Tok("loc", q)

LEMMA MadeFrom ==
  ASSUME NEW F, NEW w, WalkOK(w), NEW pages, IsSeq(pages), \A p \in ToSet(pages) : PageOK(p),
         Made(F, w, pages), NEW r \in DOMAIN F
  PROVE  FromFile(F, w, pages, r) \/ Paged(F, w, pages, r) \/ Listing(F, w, pages, r)
<1>1. CASE r \in Claimed(pages)
  BY <1>1 DEF Made, Serves, Paged
<1>2. CASE r \in DOMAIN w.assets \ Claimed(pages)
  BY <1>2 DEF Made, Serves, WalkOK, FromFile
<1>3. CASE r \notin DOMAIN w.assets \cup Claimed(pages)
  BY <1>3 DEF Made, Listing
<1>4. QED
  BY <1>1, <1>2, <1>3

(* What a page claims has no other extension than a page's.                     *)
LEMMA ClaimedExt ==
  ASSUME NEW pages, \A p \in ToSet(pages) : PageOK(p), NEW r \in Claimed(pages)
  PROVE  r.ext \in {"", "html", "htm"}
<1>1. PICK p \in ToSet(pages) : r \in {p.rel} \cup CleanRoutes(p.rel)
  BY DEF Claimed
<1>2. p.rel.ext \in {"html", "htm"}
  BY DEF PageOK, HtmlExts
<1>3. CleanRoutes(p.rel) = {RouteOf(p.rel)} /\ RouteOf(p.rel).ext \in {"", "htm"}
  BY CleanRouteIs DEF PageOK
<1>4. QED
  BY <1>1, <1>2, <1>3

LEMMA SitemapExts == SitemapName.ext = "xml" /\ RobotsName.ext = "txt"
                     /\ ~IsHidden(SitemapName) /\ ~IsHidden(RobotsName)
<1>1. /\ SitemapName.ext = "xml" /\ SitemapName.dir = <<>> /\ SitemapName.base = "sitemap"
      /\ RobotsName.ext = "txt" /\ RobotsName.dir = <<>> /\ RobotsName.base = "robots"
  BY DEF SitemapName, RobotsName, Name
<1>2. "sitemap" \notin HiddenBases /\ "robots" \notin HiddenBases
  BY DEF HiddenBases
<1>3. Len(<<>>) = 0
  OBVIOUS
<1>4. \A i \in 1..0 : FALSE
  OBVIOUS
<1>5. QED
  BY <1>1, <1>2, <1>3, <1>4 DEF IsHidden

LEMMA MadeHidesNothing ==
  ASSUME NEW F, NEW w, WalkOK(w), NEW pages, IsSeq(pages), \A p \in ToSet(pages) : PageOK(p),
         Made(F, w, pages)
  PROVE  NothingHidden(F)
<1> SUFFICES ASSUME NEW r \in DOMAIN F PROVE ~IsHidden(F[r].of)
  BY DEF NothingHidden
<1>1. CASE FromFile(F, w, pages, r)
  BY <1>1 DEF WalkOK, FromFile
<1>2. CASE Paged(F, w, pages, r)
  BY <1>2 DEF PageOK, Paged
<1>3. CASE Listing(F, w, pages, r)
  BY <1>3, SitemapExts DEF Listing
<1>4. QED
  BY <1>1, <1>2, <1>3, MadeFrom

LEMMA MadeAnswersList ==
  ASSUME NEW F, NEW w, WalkOK(w), NEW pages, IsSeq(pages), \A p \in ToSet(pages) : PageOK(p),
         Made(F, w, pages)
  PROVE  ListedAnswered(F)
<1> SUFFICES ASSUME SitemapName \in DOMAIN F, NEW k \in ToSet(F[SitemapName].body)
             PROVE  /\ FindAsset(F, k.to) # NoName
                    /\ k.to \in CleanRoutes(F[FindAsset(F, k.to)].of)
  BY DEF ListedAnswered
<1>1. SitemapName \notin Claimed(pages)
  BY ClaimedExt, SitemapExts
<1>2. F[SitemapName].body # <<>>
  BY SeqEmpty
<1>3. PICK p \in ToSet(pages) : \E q \in CleanRoutes(p.rel) : k = Tok("loc", q)
  BY <1>1, <1>2, MadeFrom DEF FromFile, Paged, Listing
<1>4. PICK q \in CleanRoutes(p.rel) : k = Tok("loc", q)
  BY <1>3
<1>5. k.to = q
  BY <1>4 DEF Tok
<1>6. q \in Claimed(pages) /\ q \in DOMAIN F
  BY DEF Claimed, Made, Serves
<1>7. FindAsset(F, q) = q
  BY <1>6, FindFirst
<1>8. PICK o \in ToSet(pages) : Claims(o, q) /\ F[q].of = o.rel
  BY <1>6 DEF Made, Serves
<1>9. /\ CleanRoutes(o.rel) = {RouteOf(o.rel)}
      /\ RouteOf(o.rel).ext = "" \/ (RouteOf(o.rel).ext = "htm" /\ RouteOf(o.rel) = o.rel)
  BY CleanRouteIs DEF PageOK
<1>10. /\ CleanRoutes(p.rel) = {RouteOf(p.rel)}
       /\ RouteOf(p.rel).ext \in {"", "htm"}
  BY CleanRouteIs DEF PageOK
<1>11. q \in CleanRoutes(o.rel)
  <2>1. CASE q = o.rel
    <3>1. q.ext = "htm"
      BY <1>4, <1>10, <2>1 DEF PageOK, HtmlExts
    <3>2. RouteOf(o.rel) = o.rel
      BY <2>1, <3>1, NameParts DEF RouteOf
    <3>3. QED
      BY <1>9, <2>1, <3>2
  <2>2. QED
    BY <1>8, <2>1 DEF Claims
<1>12. q # NoName
  <2>1. NoName.ext = "none"
    BY DEF NoName, Name
  <2>2. QED
    BY <1>4, <1>10, <2>1
<1>13. QED
  BY <1>5, <1>7, <1>8, <1>11, <1>12

(* A fingerprinted reference of a map is one that the last pass marked.         *)
LEMMA MadeMarks ==
  ASSUME NEW F, NEW w, WalkOK(w), NEW pages, IsSeq(pages), \A p \in ToSet(pages) : PageOK(p),
         Made(F, w, pages), NEW r \in DOMAIN F, NEW k \in ToSet(F[r].body),
         k.t \in {"ref", "absref"}
  PROVE  Marked(k, F[r].of.dir, w.hashes)
<1>1. CASE FromFile(F, w, pages, r)
  BY <1>1, SeqEmpty DEF FromFile
<1>2. CASE Paged(F, w, pages, r)
  BY <1>2 DEF Paged
<1>3. CASE Listing(F, w, pages, r)
  <2>1. PICK q : k = Tok("loc", q)
    BY <1>3 DEF Listing
  <2>2. k.t = "loc"
    BY <2>1 DEF Tok
  <2>3. QED
    BY <2>2
<1>4. QED
  BY <1>1, <1>2, <1>3, MadeFrom

(* A name that may be fingerprinted is in the map when the walk stored it.      *)
LEMMA MadeFiles ==
  ASSUME NEW F, NEW w, WalkOK(w), NEW pages, IsSeq(pages), \A p \in ToSet(pages) : PageOK(p),
         Made(F, w, pages), NEW g, g.ext \in RefExts
  PROVE  /\ g \in DOMAIN F => /\ F[g].ver = HashOf(w.hashes, g) /\ F[g].of = g
                              /\ HashOf(w.hashes, g) # 0
         /\ g \notin DOMAIN F => HashOf(w.hashes, g) = 0
         /\ g # NoName
<1>1. g.ext \notin {"", "html", "htm", "xml", "txt", "none"}
  BY DEF RefExts
<1>2. g \notin Claimed(pages) /\ g \notin {SitemapName, RobotsName} /\ g # NoName
  <2>1. NoName.ext = "none"
    BY DEF NoName, Name
  <2>2. QED
    BY <1>1, <2>1, ClaimedExt, SitemapExts
<1>3. g \in DOMAIN F => g \in DOMAIN w.assets /\ F[g] = w.assets[g]
  BY <1>2, MadeFrom DEF FromFile, Paged, Listing
<1>4. g \in DOMAIN w.assets => g \in DOMAIN F
  BY DEF Made, Serves
<1>5. g \in DOMAIN w.assets => /\ w.assets[g].ver = HashOf(w.hashes, g) /\ w.assets[g].of = g
                               /\ HashOf(w.hashes, g) # 0
  BY DEF WalkOK, HashOf
<1>6. g \notin DOMAIN w.assets => HashOf(w.hashes, g) = 0
  BY DEF WalkOK, HashOf
<1>7. QED
  BY <1>2, <1>3, <1>4, <1>5, <1>6

LEMMA MadeMarksAre ==
  ASSUME NEW F, NEW w, WalkOK(w), NEW pages, IsSeq(pages), \A p \in ToSet(pages) : PageOK(p),
         Made(F, w, pages)
  PROVE  MarksAre(F)
<1> SUFFICES ASSUME NEW r \in DOMAIN F, NEW k \in ToSet(F[r].body),
                    k.t \in {"ref", "absref"}, k.v # 0,
                    NEW near, near = BesideOf(F[r].of.dir, k),
                    NEW file, file = IF near \in DOMAIN F THEN near ELSE k.to
             PROVE  file \in DOMAIN F /\ F[file].of = file /\ F[file].ver = k.v
  BY DEF MarksAre
<1>1. /\ k.to.ext \in RefExts
      /\ k.v = IF HashOf(w.hashes, near) # 0 THEN HashOf(w.hashes, near) ELSE HashOf(w.hashes, k.to)
  BY MadeMarks DEF Marked
<1>2. near.ext = k.to.ext
  BY NameParts DEF BesideOf
<1>3. CASE near \in DOMAIN F
  BY <1>1, <1>2, <1>3, MadeFiles
<1>4. CASE near \notin DOMAIN F
  <2>1. HashOf(w.hashes, near) = 0
    BY <1>1, <1>2, <1>4, MadeFiles
  <2>2. QED
    BY <1>1, <1>4, <2>1, MadeFiles
<1>5. QED
  BY <1>3, <1>4

LEMMA MadeOwnFiles ==
  ASSUME NEW F, NEW w, WalkOK(w), NEW pages, IsSeq(pages), \A p \in ToSet(pages) : PageOK(p),
         Made(F, w, pages)
  PROVE  /\ OwnFiles(F)
         /\ \A r \in DOMAIN F : ~Built(F[r]) => r \in DOMAIN w.hashes /\ F[r].ver = w.hashes[r]
<1>1. ASSUME NEW r \in DOMAIN F
      PROVE  \/ Built(F[r])
             \/ /\ F[r].of = r /\ F[r].ver # 0
                /\ r \in DOMAIN w.hashes /\ F[r].ver = w.hashes[r]
  <2>1. CASE FromFile(F, w, pages, r)
    BY <2>1 DEF WalkOK, FromFile
  <2>2. CASE Paged(F, w, pages, r) \/ Listing(F, w, pages, r)
    BY <2>2 DEF Paged, Listing
  <2>3. QED
    BY <2>1, <2>2, MadeFrom
<1>2. QED
  BY <1>1 DEF OwnFiles

LEMMA MadeMatches ==
  ASSUME NEW F, NEW w, WalkOK(w), NEW pages, IsSeq(pages), \A p \in ToSet(pages) : PageOK(p),
         Made(F, w, pages)
  PROVE  MarksMatch(F)
<1> SUFFICES ASSUME NEW r \in DOMAIN F, NEW k \in ToSet(F[r].body), F[r].of = r,
                    k.t = "absref" \/ (k.t = "ref" /\ k.to.dir = <<>>), k.v # 0
             PROVE  LET hit == FindAsset(F, BesideOf(r.dir, k))
                    IN  hit # NoName /\ F[hit].ver = k.v
  BY DEF MarksMatch
<1> DEFINE b == BesideOf(r.dir, k)
           Hash(g) == HashOf(w.hashes, g)
<1>1. Marked(k, r.dir, w.hashes)
  BY MadeMarks
<1>2. /\ k.to = Name(k.to.dir, k.to.base, k.to.ext) /\ k.to.ext \in RefExts
      /\ k.v = IF Hash(b) # 0 THEN Hash(b) ELSE Hash(k.to)
  BY <1>1 DEF Marked
<1>3. b.ext = k.to.ext /\ b.base = k.to.base
  BY NameParts DEF BesideOf
<1>4. ASSUME NEW g, g.ext \in RefExts
      PROVE  /\ g \in DOMAIN F => F[g].ver = Hash(g) /\ Hash(g) # 0
             /\ g \notin DOMAIN F => Hash(g) = 0
             /\ g # NoName
  BY <1>4, MadeFiles
<1> HIDE DEF b, Hash
<1>5. CASE b \in DOMAIN F
  <2>1. FindAsset(F, b) = b
    BY <1>5, FindFirst
  <2>2. k.v = Hash(b) /\ F[b].ver = Hash(b) /\ b # NoName
    BY <1>2, <1>3, <1>4, <1>5
  <2>3. QED
    BY <2>1, <2>2 DEF b
<1>6. CASE b \notin DOMAIN F
  <2>1. k.v = Hash(k.to) /\ k.to \in DOMAIN F /\ F[k.to].ver = Hash(k.to) /\ k.to # NoName
    BY <1>2, <1>3, <1>4, <1>6
  <2>2. k.t # "absref"
    BY <1>6, <2>1 DEF b, BesideOf
  <2>3. b = Name(r.dir \o k.to.dir, k.to.base, k.to.ext)
    BY <2>2 DEF b, BesideOf
  <2>4. k.to = Name(<<>>, b.base, b.ext)
    BY <1>2, <1>3, <2>2
  <2>5. b.dir # <<>>
    <3>1. b = Name(b.dir, b.base, b.ext)
      BY <2>3, NameParts
    <3>2. QED
      BY <1>6, <2>1, <2>4, <3>1
  <2>6. b.ext # ""
    BY <1>2, <1>3 DEF RefExts
  <2>7. FindAsset(F, b) = k.to
    BY <1>6, <2>1, <2>4, <2>5, <2>6, FindAtRoot
  <2>8. QED
    BY <2>1, <2>7 DEF b
<1>7. QED
  BY <1>5, <1>6

LEMMA FinishOK ==
  ASSUME NEW w, WalkOK(w), NEW site, IsSite(site)
  PROVE  /\ MapOK(Finish(w, site))
         /\ \A r \in DOMAIN Finish(w, site) :
              ~Built(Finish(w, site)[r]) =>
                r \in DOMAIN w.hashes /\ Finish(w, site)[r].ver = w.hashes[r]
<1> DEFINE pages == PagesOfWalk(w, site)
           F == Finish(w, site)
<1>1. Made(F, w, pages)
  BY FinishMakes
<1>2. IsSeq(pages) /\ \A p \in ToSet(pages) : PageOK(p)
  BY PagesOK
<1> HIDE DEF pages, F
<1>3. MapOK(F)
  BY <1>1, <1>2, MadeHidesNothing, MadeAnswersList, MadeMatches, MadeMarksAre, MadeOwnFiles DEF MapOK
<1>4. \A r \in DOMAIN F : ~Built(F[r]) => r \in DOMAIN w.hashes /\ F[r].ver = w.hashes[r]
  BY <1>1, <1>2, MadeOwnFiles
<1>5. QED
  BY <1>3, <1>4 DEF F

LEMMA EmptyMapOK == MapOK(<<>>)
<1>1. DOMAIN <<>> = {}
  OBVIOUS
<1>2. QED
  BY <1>1 DEF MapOK, NothingHidden, ListedAnswered, MarksMatch, MarksAre, OwnFiles

-----------------------------------------------------------------------------
(* Whose text a document shows, and of which version.  P gives every file that  *)
(* may be there the versions of it that may be shown.                           *)
Says(k, P) == k.t = "text" /\ k.v # 0 => k.to \in DOMAIN P /\ k.v \in P[k.to]
SaysAll(text, P) == \A k \in ToSet(text) : Says(k, P)
Told(text, P) == \A k \in ToSet(text) : Says(k, P) /\ \A b \in ToSet(k.body) : Says(b, P)
Shows(text, f) == \E k \in ToSet(text) : k.t = "text" /\ k.to = f /\ k.v # 0

Fits(site, P) == \A f \in DOMAIN site : f \in DOMAIN P /\ site[f].ver \in P[f]
Grows(P, Q) == \A f \in DOMAIN P : f \in DOMAIN Q /\ P[f] \subseteq Q[f]

LEMMA ToldGrows ==
  ASSUME NEW P, NEW Q, Grows(P, Q), NEW text, Told(text, P)
  PROVE  Told(text, Q)
BY DEF Told, Says, Grows

LEMMA ToldElement ==
  ASSUME NEW P, NEW text, Told(text, P), NEW k \in ToSet(text)
  PROVE  Told(<<k>>, P)
BY SeqSingle DEF Told

LEMMA ToldEmpty ==
  ASSUME NEW P PROVE Told(<<>>, P)
BY SeqEmpty DEF Told

(* A token that the pipeline makes says nothing of a file.                      *)
LEMMA TokSays ==
  ASSUME NEW P, NEW kind, NEW to
  PROVE  Says(Tok(kind, to), P) /\ Told(<<Tok(kind, to)>>, P)
<1> DEFINE k == Tok(kind, to)
<1>1. k.v = 0 /\ k.body = <<>>
  BY DEF Tok
<1> HIDE DEF k
<1>2. Says(k, P)
  BY <1>1 DEF Says
<1>3. Told(<<k>>, P)
  BY <1>1, <1>2, SeqSingle, SeqEmpty DEF Told
<1>4. QED
  BY <1>2, <1>3 DEF k

LEMMA ToldJoin ==
  ASSUME NEW P, NEW s, NEW t, Doc(s), Doc(t), Told(s, P), Told(t, P)
  PROVE  Told(s \o t, P)
<1>1. ToSet(s \o t) = ToSet(s) \cup ToSet(t)
  BY SeqJoin DEF Doc
<1>2. QED
  BY <1>1 DEF Told

LEMMA ShowsJoin ==
  ASSUME NEW f, NEW s, NEW t, IsSeq(s), IsSeq(t), Shows(s, f) \/ Shows(t, f)
  PROVE  Shows(s \o t, f)
<1>1. ToSet(s \o t) = ToSet(s) \cup ToSet(t)
  BY SeqJoin
<1>2. QED
  BY <1>1 DEF Shows

(* The parts of an expansion, joined.                                           *)
LEMMA FlatHolds ==
  ASSUME NEW n \in Nat, NEW parts, parts = [i \in 1..n |-> parts[i]],
         \A i \in 1..n : IsSeq(parts[i])
  PROVE  ToSet(FlattenSeq(parts)) = UNION {ToSet(parts[i]) : i \in 1..n}
<1>1. IsSeq(parts) /\ Len(parts) = n
  BY SeqMade
<1>2. QED
  BY <1>1, SeqFlat

LEMMA ToldFlat ==
  ASSUME NEW P, NEW n \in Nat, NEW parts, parts = [i \in 1..n |-> parts[i]],
         \A i \in 1..n : Doc(parts[i]) /\ Told(parts[i], P)
  PROVE  Told(FlattenSeq(parts), P)
<1>1. ToSet(FlattenSeq(parts)) = UNION {ToSet(parts[i]) : i \in 1..n}
  BY FlatHolds DEF Doc
<1>2. ASSUME NEW k \in ToSet(FlattenSeq(parts))
      PROVE  Says(k, P) /\ \A b \in ToSet(k.body) : Says(b, P)
  <2>1. PICK i \in 1..n : k \in ToSet(parts[i])
    BY <1>1
  <2>2. QED
    BY <2>1 DEF Told
<1>3. QED
  BY <1>2 DEF Told

LEMMA SaysFlat ==
  ASSUME NEW P, NEW n \in Nat, NEW parts, parts = [i \in 1..n |-> parts[i]],
         \A i \in 1..n : IsSeq(parts[i]) /\ SaysAll(parts[i], P)
  PROVE  SaysAll(FlattenSeq(parts), P)
<1>1. ToSet(FlattenSeq(parts)) = UNION {ToSet(parts[i]) : i \in 1..n}
  BY FlatHolds
<1>2. ASSUME NEW k \in ToSet(FlattenSeq(parts)) PROVE Says(k, P)
  <2>1. PICK i \in 1..n : k \in ToSet(parts[i])
    BY <1>1
  <2>2. QED
    BY <2>1 DEF SaysAll
<1>3. QED
  BY <1>2 DEF SaysAll

LEMMA ShowsFlat ==
  ASSUME NEW f, NEW n \in Nat, NEW parts, parts = [i \in 1..n |-> parts[i]],
         \A i \in 1..n : IsSeq(parts[i]), NEW i \in 1..n, Shows(parts[i], f)
  PROVE  Shows(FlattenSeq(parts), f)
<1>1. ToSet(FlattenSeq(parts)) = UNION {ToSet(parts[j]) : j \in 1..n}
  BY FlatHolds
<1>2. QED
  BY <1>1 DEF Shows

(* A text shows a file by one of its tokens.                                    *)
LEMMA ShownAt ==
  ASSUME NEW f, NEW text, IsSeq(text), Shows(text, f)
  PROVE  \E i \in 1..Len(text) : text[i].t = "text" /\ Shows(<<text[i]>>, f)
                                 /\ text[i].to = f /\ text[i].v # 0
<1>1. PICK k \in ToSet(text) : k.t = "text" /\ k.to = f /\ k.v # 0
  BY DEF Shows
<1>2. PICK i \in 1..Len(text) : text[i] = k
  BY SeqFacts
<1>3. Shows(<<k>>, f)
  BY <1>1, SeqSingle DEF Shows
<1>4. QED
  BY <1>1, <1>2, <1>3

LEMMA SourceTold ==
  ASSUME NEW P, NEW site, IsSite(site), Fits(site, P), NEW f \in DOMAIN site
  PROVE  Told(Source(site, f), P) /\ Shows(Source(site, f), f)
<1> DEFINE k == [Tok("text", f) EXCEPT !.v = site[f].ver]
<1>1. k \in [t : {"text"}, to : {f}, v : {site[f].ver}, body : {<<>>}]
  BY DEF Tok
<1>2. Source(site, f) = <<k>> \o site[f].text
  BY DEF Source
<1> HIDE DEF k
<1>3. k.t = "text" /\ k.to = f /\ k.v = site[f].ver /\ k.body = <<>> /\ Unmarked(k)
  BY <1>1 DEF Unmarked
<1>4. site[f].ver # 0 /\ Doc(site[f].text) /\ Bare(site[f].text)
  BY DEF IsSite, IsNode
<1>5. Doc(<<k>>)
  BY <1>3, SeqEmpty, DocSingle
<1>6. Told(<<k>>, P) /\ Shows(<<k>>, f)
  <2>1. ToSet(<<k>>) = {k} /\ ToSet(k.body) = {}
    BY <1>3, SeqSingle, SeqEmpty
  <2>2. Says(k, P)
    BY <1>3 DEF Says, Fits
  <2>3. QED
    BY <1>3, <1>4, <2>1, <2>2 DEF Told, Shows
<1>7. Told(site[f].text, P)
  BY <1>4 DEF Told, Bare, Says
<1>8. QED
  BY <1>2, <1>4, <1>5, <1>6, <1>7, ToldJoin, ShowsJoin DEF Doc

LEMMA FillTold ==
  ASSUME NEW P, NEW layout, NEW page, Doc(layout), Doc(page), Told(layout, P), Told(page, P)
  PROVE  Told(Fill(layout, page), P)
<1>1. CASE ~HasSlot(layout)
  BY <1>1, ToldJoin DEF Fill
<1>2. CASE HasSlot(layout)
  <2> DEFINE n == Len(layout)
  <2>1. n \in Nat /\ \A i \in 1..n : layout[i] \in ToSet(layout)
    BY SeqFacts DEF Doc
  <2>2. PICK parts : parts = [i \in 1..n |-> IF layout[i].t = "slot" THEN page ELSE <<layout[i]>>]
    OBVIOUS
  <2>3. parts = [i \in 1..n |-> parts[i]]
    BY <2>2
  <2>4. ASSUME NEW i \in 1..n PROVE Doc(parts[i]) /\ Told(parts[i], P)
    <3>1. Doc(<<layout[i]>>) /\ Told(<<layout[i]>>, P)
      BY <2>1, DocElement, ToldElement
    <3>2. QED
      BY <2>2, <3>1
  <2>5. Told(FlattenSeq(parts), P)
    BY <2>1, <2>3, <2>4, ToldFlat
  <2>6. QED
    BY <1>2, <2>2, <2>5 DEF Fill, Expand
<1>3. QED
  BY <1>1, <1>2

(* Whatever the layout, the page is in what it makes of it.                     *)
LEMMA FillShows ==
  ASSUME NEW f, NEW layout, NEW page, Doc(layout), Doc(page), Shows(page, f)
  PROVE  Shows(Fill(layout, page), f)
<1>1. CASE ~HasSlot(layout)
  BY <1>1, ShowsJoin DEF Fill, Doc
<1>2. CASE HasSlot(layout)
  <2> DEFINE n == Len(layout)
  <2>1. n \in Nat /\ \A i \in 1..n : layout[i] \in ToSet(layout)
    BY SeqFacts DEF Doc
  <2>2. PICK parts : parts = [i \in 1..n |-> IF layout[i].t = "slot" THEN page ELSE <<layout[i]>>]
    OBVIOUS
  <2>3. parts = [i \in 1..n |-> parts[i]]
    BY <2>2
  <2>4. \A i \in 1..n : IsSeq(parts[i])
    BY <2>2, SeqSingle DEF Doc
  <2>5. PICK i \in 1..n : layout[i].t = "slot"
    BY <1>2 DEF HasSlot
  <2>6. parts[i] = page
    BY <2>2, <2>5
  <2>7. Shows(FlattenSeq(parts), f)
    BY <2>1, <2>3, <2>4, <2>6, ShowsFlat
  <2>8. QED
    BY <1>2, <2>2, <2>7 DEF Fill, Expand
<1>3. QED
  BY <1>1, <1>2

LEMMA BareTold ==
  ASSUME NEW P, NEW raw, Doc(raw), Told(raw, P), NEW f, Shows(raw, f)
  PROVE  LET bare == Expand(raw, LAMBDA k : IF k.t = "layout" THEN <<>> ELSE <<k>>)
         IN  Told(bare, P) /\ Shows(bare, f)
<1> DEFINE n == Len(raw)
<1>1. n \in Nat /\ \A i \in 1..n : raw[i] \in ToSet(raw)
  BY SeqFacts DEF Doc
<1>2. PICK parts : parts = [i \in 1..n |-> IF raw[i].t = "layout" THEN <<>> ELSE <<raw[i]>>]
  OBVIOUS
<1>3. parts = [i \in 1..n |-> parts[i]]
  BY <1>2
<1>4. ASSUME NEW i \in 1..n PROVE Doc(parts[i]) /\ Told(parts[i], P)
  <2>1. Doc(<<raw[i]>>) /\ Doc(<<>>) /\ Told(<<raw[i]>>, P) /\ Told(<<>>, P)
    BY <1>1, DocElement, DocEmpty, ToldElement, ToldEmpty
  <2>2. QED
    BY <1>2, <2>1
<1>5. Told(FlattenSeq(parts), P)
  BY <1>1, <1>3, <1>4, ToldFlat
<1>6. PICK i \in 1..n : raw[i].t = "text" /\ Shows(<<raw[i]>>, f)
  BY ShownAt DEF Doc
<1>7. parts[i] = <<raw[i]>>
  BY <1>2, <1>6
<1>8. Shows(FlattenSeq(parts), f)
  BY <1>1, <1>3, <1>4, <1>6, <1>7, ShowsFlat DEF Doc
<1>9. QED
  BY <1>2, <1>5, <1>8 DEF Expand

LEMMA ExpandFileTold ==
  ASSUME NEW P, NEW site, IsSite(site), Fits(site, P), NEW f \in DOMAIN site,
         NEW deeper, \A g \in DOMAIN site : Doc(deeper[g]) /\ Told(deeper[g], P)
  PROVE  Told(ExpandFile(site, f, deeper), P) /\ Shows(ExpandFile(site, f, deeper), f)
<1> DEFINE raw == Source(site, f)
           layouts == {i \in 1..Len(raw) : raw[i].t = "layout"}
           layout == IF layouts = {} THEN NoName
                     ELSE ResolveIncludePath(site, f.dir, raw[Min(layouts)].to)
           bare == Expand(raw, LAMBDA k : IF k.t = "layout" THEN <<>> ELSE <<k>>)
           laid == IF layout = NoName THEN raw ELSE Fill(deeper[layout], bare)
           Included(k) == LET g == ResolveIncludePath(site, f.dir, k.to)
                          IN  IF g = NoName THEN <<Tok("error", k.to)>> ELSE deeper[g]
<1>1. Doc(raw) /\ Told(raw, P) /\ Shows(raw, f)
  BY SourceDoc, SourceTold
<1>2. Doc(bare) /\ Told(bare, P) /\ Shows(bare, f)
  BY <1>1, BareDoc, BareTold
<1>3. layout # NoName => layout \in DOMAIN site
  BY ResolveFound
<1>4. ExpandFile(site, f, deeper) = Expand(laid, LAMBDA k : IF k.t = "include" THEN Included(k) ELSE <<k>>)
  BY DEF ExpandFile
<1> HIDE DEF raw, layout, bare
<1>5. Doc(laid) /\ Told(laid, P) /\ Shows(laid, f)
  BY <1>1, <1>2, <1>3, FillDoc, FillTold, FillShows
<1>6. ASSUME NEW k PROVE Doc(Included(k)) /\ Told(Included(k), P)
  <2>1. Doc(<<Tok("error", k.to)>>) /\ Told(<<Tok("error", k.to)>>, P)
    BY DocToken, TokSays
  <2>2. QED
    BY <2>1, ResolveFound
<1> HIDE DEF laid, Included
<1> DEFINE n == Len(laid)
<1>7. n \in Nat /\ \A i \in 1..n : laid[i] \in ToSet(laid)
  BY <1>5, SeqFacts DEF Doc
<1>8. PICK parts : parts = [i \in 1..n |-> IF laid[i].t = "include" THEN Included(laid[i])
                                            ELSE <<laid[i]>>]
  OBVIOUS
<1>9. parts = [i \in 1..n |-> parts[i]]
  BY <1>8
<1>10. ASSUME NEW i \in 1..n PROVE Doc(parts[i]) /\ Told(parts[i], P)
  <2>1. /\ Doc(<<laid[i]>>) /\ Doc(Included(laid[i]))
        /\ Told(<<laid[i]>>, P) /\ Told(Included(laid[i]), P)
    BY <1>5, <1>6, <1>7, DocElement, ToldElement
  <2>2. QED
    BY <1>8, <2>1
<1>11. Told(FlattenSeq(parts), P)
  BY <1>7, <1>9, <1>10, ToldFlat
<1>12. PICK i \in 1..n : laid[i].t = "text" /\ Shows(<<laid[i]>>, f)
  BY <1>5, ShownAt DEF Doc
<1>13. parts[i] = <<laid[i]>>
  BY <1>8, <1>12
<1>14. Shows(FlattenSeq(parts), f)
  BY <1>7, <1>9, <1>10, <1>12, <1>13, ShowsFlat DEF Doc
<1>15. QED
  BY <1>4, <1>8, <1>11, <1>14 DEF Expand

(* An expanded page shows its own file, and of the others what they were.       *)
LEMMA ProcessHTMLTold ==
  ASSUME NEW P, NEW site, IsSite(site), Fits(site, P), NEW f \in DOMAIN site
  PROVE  Told(ProcessHTML(site, f), P) /\ Shows(ProcessHTML(site, f), f)
<1> DEFINE N == MaxIncludeDepth + 1
           page == CHOOSE page : PagesOf(site, N, page)
<1>1. N \in Nat
  BY DEF MaxIncludeDepth
<1>2. ProcessHTML(site, f) = page[N][f]
  BY DEF ProcessHTML, PagesOf
<1>3. PagesOf(site, N, page)
  BY <1>1, PageExists
<1> HIDE DEF page, N
<1>4. \A left \in 0..N : \A g \in DOMAIN site :
         page[left][g] = IF left = 0 THEN Source(site, g) ELSE ExpandFile(site, g, page[left - 1])
  <2>1. \A left \in 0..N :
           page[left] = [g \in DOMAIN site |-> IF left = 0 THEN Source(site, g)
                                               ELSE ExpandFile(site, g, page[left - 1])]
    BY <1>3 DEF PagesOf
  <2>2. QED
    BY <2>1
<1> DEFINE Good(s, g) == Doc(s) /\ Told(s, P) /\ Shows(s, g)
           T == {k \in Nat : k \in 0..N => \A g \in DOMAIN site : Good(page[k][g], g)}
<1>5. 0 \in T
  BY <1>1, <1>4, SourceDoc, SourceTold
<1>6. ASSUME NEW k \in Nat, k \in T PROVE k + 1 \in T
  <2>1. SUFFICES ASSUME k + 1 \in 0..N, NEW g \in DOMAIN site PROVE Good(page[k + 1][g], g)
    OBVIOUS
  <2>2. k \in 0..N /\ k + 1 # 0 /\ (k + 1) - 1 = k
    BY <1>1, <2>1
  <2>3. page[k + 1][g] = ExpandFile(site, g, page[k])
    BY <1>4, <2>1, <2>2
  <2>4. \A h \in DOMAIN site : Doc(page[k][h]) /\ Told(page[k][h], P)
    BY <1>6, <2>2
  <2>5. QED
    BY <2>3, <2>4, ExpandFileDoc, ExpandFileTold
<1> HIDE DEF T
<1>7. N \in T
  BY <1>1, <1>5, <1>6, SetInduction
<1>8. QED
  BY <1>1, <1>2, <1>7 DEF T

(* The later passes add no text of a file and take none away.                   *)
LEMMA ReplacedSays ==
  ASSUME NEW P, NEW k, Says(k, P), NEW values, NEW scope
  PROVE  /\ Says(Replaced(k, values, scope), P)
         /\ Replaced(k, values, scope).body \in {<<>>, k.body}
         /\ k.t = "text" => Replaced(k, values, scope) = k
<1> DEFINE to == values[k.to.base]
<1>1. Says(Tok("text", to), P) /\ Tok("text", to).body = <<>>
  BY TokSays DEF Tok
<1>2. /\ Replaced(k, values, scope) \in {Tok("text", to), k}
      /\ k.t = "text" => Replaced(k, values, scope) = k
  BY DEF Replaced
<1>3. QED
  BY <1>1, <1>2

LEMMA ReplacedAllSays ==
  ASSUME NEW P, NEW s, IsSeq(s), SaysAll(s, P), NEW values, NEW scope
  PROVE  SaysAll([j \in 1..Len(s) |-> Replaced(s[j], values, scope)], P)
<1>1. Len(s) \in Nat /\ \A j \in 1..Len(s) : Says(s[j], P)
  BY SeqFacts DEF SaysAll
<1>2. PICK u : u = [j \in 1..Len(s) |-> Replaced(s[j], values, scope)]
  OBVIOUS
<1>3. u = [j \in 1..Len(s) |-> u[j]]
  BY <1>2
<1>4. ToSet(u) = {u[j] : j \in 1..Len(s)}
  BY <1>1, <1>3, SeqMade
<1>5. \A j \in 1..Len(s) : Says(u[j], P)
  BY <1>1, <1>2, ReplacedSays
<1>6. QED
  BY <1>2, <1>4, <1>5 DEF SaysAll

LEMMA VariablesSay ==
  ASSUME NEW P, NEW text, Flat(text), SaysAll(text, P), NEW values, NEW f
  PROVE  LET s == ProcessVariables(text, values)
         IN  /\ SaysAll(s, P)
             /\ Doc(text) /\ Told(text, P) => Told(s, P)
             /\ Shows(text, f) => Shows(s, f)
<1> DEFINE n == Len(text)
           In(s) == [j \in 1..Len(s) |-> Replaced(s[j], values, "page")]
           Kept(i) == [text[i] EXCEPT !.body = In(@)]
<1>1. /\ IsSeq(text) /\ n \in Nat
      /\ \A i \in 1..n : Unmarked(text[i]) /\ text[i] \in ToSet(text) /\ Says(text[i], P)
  BY SeqFacts DEF Flat, SaysAll
<1>2. \A i \in 1..n : Kept(i) = [text[i] EXCEPT !.body = In(text[i].body)]
  OBVIOUS
<1>3. PICK u : u = [i \in 1..n |-> Replaced(Kept(i), values, "page")]
  OBVIOUS
<1>4. ProcessVariables(text, values) = u
  BY <1>3 DEF ProcessVariables
<1> HIDE DEF In, Kept
<1>5. ASSUME NEW i \in 1..n
      PROVE  /\ Kept(i).body = In(text[i].body) /\ Kept(i).t = text[i].t
             /\ Kept(i).to = text[i].to /\ Kept(i).v = text[i].v /\ Says(Kept(i), P)
  <2>1. PICK k, b : k = text[i] /\ b = In(text[i].body)
    OBVIOUS
  <2>2. Unmarked(k) /\ Says(k, P) /\ Kept(i) = [k EXCEPT !.body = b]
    BY <1>1, <1>2, <2>1
  <2>3. [k EXCEPT !.body = b] \in [t : {k.t}, to : {k.to}, v : {k.v}, body : {b}]
    BY <2>2 DEF Unmarked
  <2>4. Kept(i).t = k.t /\ Kept(i).to = k.to /\ Kept(i).v = k.v /\ Kept(i).body = b
    BY <2>2, <2>3
  <2>5. QED
    BY <2>1, <2>2, <2>4 DEF Says
<1>6. u = [i \in 1..n |-> u[i]]
  BY <1>3
<1>7. ToSet(u) = {u[i] : i \in 1..n} /\ IsSeq(u)
  BY <1>1, <1>6, SeqMade
<1>8. \A i \in 1..n : /\ Says(u[i], P) /\ u[i].body \in {<<>>, In(text[i].body)}
                      /\ text[i].t = "text" => u[i] = Kept(i)
  BY <1>3, <1>5, ReplacedSays
<1>9. SaysAll(u, P)
  BY <1>7, <1>8 DEF SaysAll
<1>10. ASSUME Doc(text), Told(text, P) PROVE Told(u, P)
  <2>1. ASSUME NEW i \in 1..n PROVE SaysAll(u[i].body, P)
    <3>1. IsSeq(text[i].body) /\ SaysAll(text[i].body, P)
      BY <1>1, <1>10 DEF Doc, Told, SaysAll
    <3>2. SaysAll(In(text[i].body), P)
      BY <3>1, ReplacedAllSays DEF In
    <3>3. SaysAll(<<>>, P)
      BY SeqEmpty DEF SaysAll
    <3>4. QED
      BY <1>8, <3>2, <3>3
  <2>2. QED
    BY <1>7, <1>8, <2>1 DEF Told, SaysAll
<1>11. ASSUME Shows(text, f) PROVE Shows(u, f)
  <2>0. \E i \in 1..Len(text) : text[i].t = "text" /\ Shows(<<text[i]>>, f)
                                  /\ text[i].to = f /\ text[i].v # 0
    BY <1>1, <1>11, ShownAt, Zenon
  <2>1. PICK i \in 1..n : text[i].t = "text" /\ text[i].to = f /\ text[i].v # 0
    BY <2>0
  <2>2. u[i].t = "text" /\ u[i].to = f /\ u[i].v # 0
    BY <1>5, <1>8, <2>1
  <2>3. QED
    BY <1>7, <2>2 DEF Shows
<1>12. QED
  BY <1>4, <1>9, <1>10, <1>11

LEMMA LoopsSay ==
  ASSUME NEW P, NEW text, Doc(text), Told(text, P), NEW f,
         NEW colls, \A c \in DOMAIN colls : IsSeq(colls[c])
  PROVE  LET s == ProcessTemplateLoops(text, colls)
         IN  SaysAll(s, P) /\ (Shows(text, f) => Shows(s, f))
<1> DEFINE n == Len(text)
           Items(k) == IF k.to.base \in DOMAIN colls THEN colls[k.to.base] ELSE <<>>
           Once(k, item) == [j \in 1..Len(k.body) |-> Replaced(k.body[j], item.vals, k.to.dir[1])]
           Loop(k) == Expand(Items(k), LAMBDA item : Once(k, item))
<1>1. IsSeq(text) /\ n \in Nat /\ \A i \in 1..n : text[i] \in ToSet(text)
  BY SeqFacts DEF Doc
<1>2. ASSUME NEW k \in ToSet(text) PROVE IsSeq(Loop(k)) /\ SaysAll(Loop(k), P)
  <2>1. IsSeq(Items(k))
    BY SeqEmpty
  <2> DEFINE m == Len(Items(k))
  <2>2. m \in Nat
    BY <2>1, SeqFacts
  <2>3. Flat(k.body) /\ SaysAll(k.body, P)
    BY DEF Doc, Flat, Told, SaysAll
  <2> HIDE DEF Items
  <2>4. PICK parts : parts = [i \in 1..m |-> Once(k, Items(k)[i])]
    OBVIOUS
  <2>5. parts = [i \in 1..m |-> parts[i]]
    BY <2>4
  <2>6. ASSUME NEW i \in 1..m PROVE Flat(parts[i]) /\ SaysAll(parts[i], P)
    <3>1. Flat(Once(k, Items(k)[i])) /\ SaysAll(Once(k, Items(k)[i]), P)
      BY <2>3, ReplacedAll, ReplacedAllSays DEF Flat
    <3>2. QED
      BY <2>4, <3>1
  <2>7. Flat(FlattenSeq(parts)) /\ SaysAll(FlattenSeq(parts), P)
    BY <2>2, <2>5, <2>6, FlatFlat, SaysFlat DEF Flat
  <2>8. QED
    BY <2>4, <2>7 DEF Expand, Flat
<1>3. ProcessTemplateLoops(text, colls) = Expand(text, LAMBDA k : IF k.t = "loop" THEN Loop(k) ELSE <<k>>)
  BY DEF ProcessTemplateLoops
<1> HIDE DEF Loop
<1>4. PICK parts : parts = [i \in 1..n |-> IF text[i].t = "loop" THEN Loop(text[i]) ELSE <<text[i]>>]
  OBVIOUS
<1>5. parts = [i \in 1..n |-> parts[i]]
  BY <1>4
<1>6. ASSUME NEW i \in 1..n PROVE IsSeq(parts[i]) /\ SaysAll(parts[i], P)
  <2>1. IsSeq(<<text[i]>>) /\ ToSet(<<text[i]>>) = {text[i]} /\ Says(text[i], P)
    BY <1>1, SeqSingle DEF Told
  <2>2. SaysAll(<<text[i]>>, P)
    BY <2>1 DEF SaysAll
  <2>3. QED
    BY <1>1, <1>2, <1>4, <2>1, <2>2
<1>7. SaysAll(FlattenSeq(parts), P)
  BY <1>1, <1>5, <1>6, SaysFlat
<1>8. ASSUME Shows(text, f) PROVE Shows(FlattenSeq(parts), f)
  <2>1. PICK i \in 1..n : text[i].t = "text" /\ Shows(<<text[i]>>, f)
    BY <1>1, <1>8, ShownAt
  <2>2. parts[i] = <<text[i]>>
    BY <1>4, <2>1
  <2>3. QED
    BY <1>1, <1>5, <1>6, <2>1, <2>2, ShowsFlat
<1>9. QED
  BY <1>3, <1>4, <1>7, <1>8 DEF Expand

LEMMA FingerprintSays ==
  ASSUME NEW P, NEW dir, NEW text, Flat(text), SaysAll(text, P), NEW hashes, NEW f
  PROVE  LET s == FingerprintHTML(dir, text, hashes)
         IN  SaysAll(s, P) /\ (Shows(text, f) => Shows(s, f))
<1> DEFINE n == Len(text)
           Mark(k) == [k EXCEPT !.v = IF HashOf(hashes, BesideOf(dir, k)) # 0
                                      THEN HashOf(hashes, BesideOf(dir, k))
                                      ELSE HashOf(hashes, k.to)]
<1>1. IsSeq(text) /\ n \in Nat /\ \A i \in 1..n : Unmarked(text[i]) /\ Says(text[i], P)
  BY SeqFacts DEF Flat, SaysAll
<1>2. PICK s : s = [i \in 1..n |-> IF text[i].t \in {"ref", "absref"} /\ text[i].to.ext \in RefExts
                                   THEN Mark(text[i]) ELSE text[i]]
  OBVIOUS
<1>3. FingerprintHTML(dir, text, hashes) = s
  BY <1>2 DEF FingerprintHTML, HashOf, BesideOf
<1>4. s = [i \in 1..n |-> s[i]]
  BY <1>2
<1>5. ToSet(s) = {s[i] : i \in 1..n}
  BY <1>1, <1>4, SeqMade
<1>6. ASSUME NEW i \in 1..n PROVE Says(s[i], P) /\ (text[i].t = "text" => s[i] = text[i])
  <2> DEFINE k == text[i]
  <2>1. Unmarked(k) /\ Says(k, P)
    BY <1>1
  <2>2. CASE k.t \in {"ref", "absref"} /\ k.to.ext \in RefExts
    <3>1. PICK x : x = IF HashOf(hashes, BesideOf(dir, k)) # 0 THEN HashOf(hashes, BesideOf(dir, k))
                       ELSE HashOf(hashes, k.to)
      OBVIOUS
    <3>2. s[i] = [k EXCEPT !.v = x]
      BY <1>2, <2>2, <3>1
    <3> HIDE DEF k
    <3>3. s[i] \in [t : {k.t}, to : {k.to}, v : {x}, body : {k.body}]
      BY <2>1, <3>2 DEF Unmarked
    <3>4. k.t # "text" /\ s[i].t = k.t
      BY <2>2, <3>3
    <3>5. QED
      BY <3>4 DEF Says, k
  <2>3. CASE ~(k.t \in {"ref", "absref"} /\ k.to.ext \in RefExts)
    BY <1>2, <2>1, <2>3
  <2>4. QED
    BY <2>2, <2>3
<1>7. SaysAll(s, P)
  BY <1>5, <1>6 DEF SaysAll
<1>8. ASSUME Shows(text, f) PROVE Shows(s, f)
  <2>0. \E i \in 1..Len(text) : text[i].t = "text" /\ Shows(<<text[i]>>, f)
                                  /\ text[i].to = f /\ text[i].v # 0
    BY <1>1, <1>8, ShownAt, Zenon
  <2>1. PICK i \in 1..n : text[i].t = "text" /\ text[i].to = f /\ text[i].v # 0
    BY <2>0
  <2>2. QED
    BY <1>5, <1>6, <2>1 DEF Shows
<1>9. QED
  BY <1>3, <1>7, <1>8

(* The body of a page, from its text.                                           *)
LEMMA BodySays ==
  ASSUME NEW P, NEW p, Doc(p.text), Told(p.text, P), NEW f,
         NEW colls, \A c \in DOMAIN colls : IsSeq(colls[c]), NEW hashes
  PROVE  /\ SaysAll(BodyOf(p, colls, hashes), P)
         /\ Shows(p.text, f) => Shows(BodyOf(p, colls, hashes), f)
<1>1. PICK looped : looped = ProcessTemplateLoops(p.text, colls)
  OBVIOUS
<1>2. Flat(looped) /\ SaysAll(looped, P) /\ (Shows(p.text, f) => Shows(looped, f))
  BY <1>1, LoopsFlat, LoopsSay
<1>3. PICK valued : valued = ProcessVariables(looped, p.vars)
  OBVIOUS
<1>4. Flat(valued) /\ SaysAll(valued, P) /\ (Shows(looped, f) => Shows(valued, f))
  BY <1>2, <1>3, VariablesUnmarked, VariablesSay
<1>5. PICK body : body = FingerprintHTML(p.rel.dir, valued, hashes)
  OBVIOUS
<1>6. SaysAll(body, P) /\ (Shows(valued, f) => Shows(body, f))
  BY <1>4, <1>5, FingerprintSays
<1>7. BodyOf(p, colls, hashes) = body
  BY <1>1, <1>3, <1>5 DEF BodyOf
<1>8. QED
  BY <1>2, <1>4, <1>6, <1>7

(* The walk, with what the files it read had to say.                            *)
WalkDated(w, P) ==
  /\ \A f \in DOMAIN w.hashes : f \in DOMAIN P /\ w.hashes[f] \in P[f] /\ f.ext \notin MdExts
  /\ \A p \in ToSet(w.html) : p.rel \in DOMAIN P /\ Told(p.text, P) /\ Shows(p.text, p.rel)
  /\ \A m \in ToSet(w.md) : /\ m.of \in DOMAIN P /\ m.of.ext \in MdExts
                            /\ Told(m.text, P) /\ Shows(m.text, m.of)

(* The walk has taken the file in, as an asset or as a page to be.              *)
Gathered(w, f) == \/ f \in DOMAIN w.assets
                  \/ \E p \in ToSet(w.html) : p.rel = f
                  \/ \E m \in ToSet(w.md) : m.of = f

LEMMA EmptyWalkDated ==
  ASSUME NEW P PROVE WalkDated(EmptyWalk, P)
<1>1. EmptyWalk.hashes = <<>> /\ EmptyWalk.html = <<>> /\ EmptyWalk.md = <<>>
  BY DEF EmptyWalk
<1>2. DOMAIN <<>> = {} /\ ToSet(<<>>) = {}
  BY SeqEmpty
<1>3. QED
  BY <1>1, <1>2 DEF WalkDated

LEMMA WalkDatedGrows ==
  ASSUME NEW P, NEW Q, Grows(P, Q), NEW w, WalkDated(w, P)
  PROVE  WalkDated(w, Q)
<1>1. \A text : Told(text, P) => Told(text, Q)
  BY ToldGrows
<1>2. QED
  BY <1>1 DEF WalkDated, Grows

(* What one visit changes: nothing, the stored files, the posts or the pages.   *)
Stores(w, v, f, ver) ==
  /\ f.ext \notin MdExts
  /\ \E streamed : v.assets = Put(w.assets, f, Asset(f, ver, <<>>, streamed))
  /\ v.hashes = Put(w.hashes, f, ver) /\ v.html = w.html /\ v.md = w.md
Posts(w, v, f, text) ==
  /\ f.ext \in MdExts
  /\ v.assets = w.assets /\ v.hashes = w.hashes /\ v.html = w.html
  /\ \E m : m.of = f /\ m.text = text /\ v.md = Append(w.md, m)
Opens(w, v, f, text) ==
  /\ v.assets = w.assets /\ v.hashes = w.hashes /\ v.md = w.md
  /\ \E p : p.rel = f /\ p.text = text /\ v.html = Append(w.html, p)

LEMMA VisitParts ==
  ASSUME NEW w, WalkOK(w), NEW site, NEW f \in DOMAIN site, ~IsHidden(f),
         NEW v, v = Visit(w, site, f)
  PROVE  \/ site[f].link /\ v = w
         \/ Stores(w, v, f, site[f].ver)
         \/ Posts(w, v, f, Source(site, f))
         \/ Opens(w, v, f, ProcessHTML(site, f))
<1> DEFINE posts == IF "posts" \in DOMAIN w.colls THEN w.colls["posts"] ELSE <<>>
           Stored(x, streamed) == [x EXCEPT !.assets = Put(@, f, Asset(f, site[f].ver, <<>>, streamed)),
                                            !.hashes = Put(@, f, site[f].ver)]
           entry == [of |-> f, front |-> site[f].front, text |-> Source(site, f)]
           page == [rel |-> f, vars |-> <<>>, text |-> ProcessHTML(site, f)]
           withPost == [w EXCEPT !.md = Append(@, entry),
                                 !.colls = Put(@, "posts", Append(posts, PostItem(site, f)))]
           withPage == [w EXCEPT !.html = Append(@, page)]
           withData == [w EXCEPT !.colls = Put(@, f.base, site[f].items)]
           json == f.ext = "json" /\ f.dir # <<>> /\ Head(f.dir) = "data"
<1>0. w \in [assets : {w.assets}, hashes : {w.hashes}, html : {w.html}, md : {w.md},
             colls : {w.colls}]
  BY DEF WalkOK
<1>1. ASSUME NEW x, x \in [assets : {x.assets}, hashes : {x.hashes}, html : {x.html}, md : {x.md},
                           colls : {x.colls}],
             x.assets = w.assets, x.hashes = w.hashes, x.html = w.html, x.md = w.md,
             NEW streamed, f.ext \notin MdExts
      PROVE  Stores(w, Stored(x, streamed), f, site[f].ver)
  <2>1. PICK a, h : /\ a = Put(w.assets, f, Asset(f, site[f].ver, <<>>, streamed))
                    /\ h = Put(w.hashes, f, site[f].ver)
    OBVIOUS
  <2>2. [x EXCEPT !.assets = a, !.hashes = h] = WalkOf(a, h, x.html, x.md, x.colls)
    BY <1>1, WalkStored, Zenon
  <2>3. Stored(x, streamed) = [x EXCEPT !.assets = a, !.hashes = h]
    BY <1>1, <2>1, Zenon
  <2>4. PICK y : y = WalkOf(a, h, x.html, x.md, x.colls)
    OBVIOUS
  <2>5. y.assets = a /\ y.hashes = h /\ y.html = w.html /\ y.md = w.md
    BY <1>1, <2>4, WalkOfParts
  <2>6. Stores(w, y, f, site[f].ver)
    BY <1>1, <2>1, <2>5 DEF Stores
  <2>7. QED
    BY <2>2, <2>3, <2>4, <2>6, Zenon
<1>2. ASSUME f.ext \in MdExts PROVE Posts(w, withPost, f, Source(site, f))
  <2>1. entry.of = f /\ entry.text = Source(site, f)
    OBVIOUS
  <2> HIDE DEF entry
  <2>2. PICK md, colls : md = Append(w.md, entry)
                         /\ colls = Put(w.colls, "posts", Append(posts, PostItem(site, f)))
    OBVIOUS
  <2>3. [w EXCEPT !.md = md, !.colls = colls] = WalkOf(w.assets, w.hashes, w.html, md, colls)
    BY <1>0, WalkPosted, Zenon
  <2>4. withPost = [w EXCEPT !.md = md, !.colls = colls]
    BY <2>2, Zenon
  <2>5. withPost = WalkOf(w.assets, w.hashes, w.html, md, colls)
    BY <2>3, <2>4, Zenon
  <2> HIDE DEF withPost
  <2>6. /\ withPost.assets = w.assets /\ withPost.hashes = w.hashes /\ withPost.html = w.html
        /\ withPost.md = md
    BY <2>5, WalkOfParts
  <2>7. QED
    BY <1>2, <2>1, <2>2, <2>6 DEF Posts
<1>3. Opens(w, withPage, f, ProcessHTML(site, f))
  <2>1. page.rel = f /\ page.text = ProcessHTML(site, f)
    OBVIOUS
  <2> HIDE DEF page
  <2>2. PICK html : html = Append(w.html, page)
    OBVIOUS
  <2>3. [w EXCEPT !.html = html] = WalkOf(w.assets, w.hashes, html, w.md, w.colls)
    BY <1>0, WalkChanged, Zenon
  <2>4. withPage = WalkOf(w.assets, w.hashes, html, w.md, w.colls)
    BY <2>2, <2>3, Zenon
  <2> HIDE DEF withPage
  <2>5. /\ withPage.assets = w.assets /\ withPage.hashes = w.hashes /\ withPage.html = html
        /\ withPage.md = w.md
    BY <2>4, WalkOfParts
  <2>6. QED
    BY <2>1, <2>2, <2>5 DEF Opens
<1>4. /\ withData.assets = w.assets /\ withData.hashes = w.hashes /\ withData.html = w.html
      /\ withData.md = w.md
      /\ withData \in [assets : {withData.assets}, hashes : {withData.hashes},
                        html : {withData.html}, md : {withData.md}, colls : {withData.colls}]
  <2>1. PICK colls : colls = Put(w.colls, f.base, site[f].items)
    OBVIOUS
  <2>2. [w EXCEPT !.colls = colls] = WalkOf(w.assets, w.hashes, w.html, w.md, colls)
    BY <1>0, WalkChanged, Zenon
  <2>3. withData = WalkOf(w.assets, w.hashes, w.html, w.md, colls)
    BY <2>1, <2>2, Zenon
  <2>4. QED
    BY <2>3, WalkOfParts
<1>5. HeavyExts \cap MdExts = {} /\ MdExts \subseteq RamExts /\ (json => f.ext \notin MdExts)
  BY DEF HeavyExts, MdExts, RamExts
<1>6. v = IF IsHidden(f) \/ site[f].link THEN w ELSE
          CASE f.ext \in HeavyExts \/ (site[f].big /\ f.ext \notin RamExts) -> Stored(w, TRUE)
            [] f.ext \in MdExts -> withPost
            [] f.ext \in HtmlExts -> withPage
            [] json -> Stored(withData, FALSE)
            [] OTHER -> Stored(w, FALSE)
  BY DEF Visit
<1> HIDE DEF Stored, withPost, withPage, withData, json
<1>7. \/ site[f].link /\ v = w
      \/ f.ext \notin MdExts /\ v = Stored(w, TRUE)
      \/ f.ext \in MdExts /\ v = withPost
      \/ v = withPage
      \/ f.ext \notin MdExts /\ v = Stored(withData, FALSE)
      \/ f.ext \notin MdExts /\ v = Stored(w, FALSE)
  BY <1>5, <1>6
<1>8. ASSUME f.ext \notin MdExts
      PROVE  /\ Stores(w, Stored(w, TRUE), f, site[f].ver)
             /\ Stores(w, Stored(w, FALSE), f, site[f].ver)
             /\ Stores(w, Stored(withData, FALSE), f, site[f].ver)
  BY <1>0, <1>1, <1>4, <1>8
<1>9. QED
  BY <1>2, <1>3, <1>7, <1>8

LEMMA VisitDated ==
  ASSUME NEW w, WalkOK(w), NEW P, WalkDated(w, P), NEW site, IsSite(site), Fits(site, P),
         NEW f \in DOMAIN site, ~IsHidden(f)
  PROVE  /\ WalkDated(Visit(w, site, f), P)
         /\ ~site[f].link => Gathered(Visit(w, site, f), f)
         /\ \A g : Gathered(w, g) => Gathered(Visit(w, site, f), g)
<1> DEFINE ver == site[f].ver
<1>0. PICK v : v = Visit(w, site, f)
  OBVIOUS
<1>1. f \in DOMAIN P /\ ver \in P[f]
  BY DEF Fits
<1>2. IsSeq(w.html) /\ IsSeq(w.md)
  BY DEF WalkOK
<1>3. CASE site[f].link /\ v = w
  BY <1>0, <1>3
<1>4. CASE Stores(w, v, f, ver)
  <2>1. /\ DOMAIN v.hashes = DOMAIN w.hashes \cup {f} /\ f \in DOMAIN v.assets
        /\ DOMAIN w.assets \subseteq DOMAIN v.assets
        /\ \A g \in DOMAIN v.hashes : v.hashes[g] = IF g = f THEN ver ELSE w.hashes[g]
    BY <1>4 DEF Stores, Put
  <2>2. v.html = w.html /\ v.md = w.md /\ f.ext \notin MdExts
    BY <1>4 DEF Stores
  <2>3. WalkDated(v, P)
    BY <1>1, <2>1, <2>2 DEF WalkDated
  <2>4. QED
    BY <1>0, <2>1, <2>2, <2>3 DEF Gathered
<1>5. CASE Posts(w, v, f, Source(site, f))
  <2>1. PICK m : m.of = f /\ m.text = Source(site, f) /\ v.md = Append(w.md, m)
    BY <1>5 DEF Posts
  <2>2. ToSet(v.md) = ToSet(w.md) \cup {m}
    BY <1>2, <2>1, SeqAppend
  <2>3. v.hashes = w.hashes /\ v.assets = w.assets /\ v.html = w.html /\ f.ext \in MdExts
    BY <1>5 DEF Posts
  <2>4. Told(m.text, P) /\ Shows(m.text, m.of)
    BY <2>1, SourceTold
  <2>5. WalkDated(v, P)
    BY <1>1, <2>1, <2>2, <2>3, <2>4 DEF WalkDated
  <2>6. QED
    BY <1>0, <2>1, <2>2, <2>3, <2>5 DEF Gathered
<1>6. CASE Opens(w, v, f, ProcessHTML(site, f))
  <2>1. PICK p : p.rel = f /\ p.text = ProcessHTML(site, f) /\ v.html = Append(w.html, p)
    BY <1>6 DEF Opens
  <2>2. ToSet(v.html) = ToSet(w.html) \cup {p}
    BY <1>2, <2>1, SeqAppend
  <2>3. v.hashes = w.hashes /\ v.assets = w.assets /\ v.md = w.md
    BY <1>6 DEF Opens
  <2>4. Told(p.text, P) /\ Shows(p.text, p.rel)
    BY <2>1, ProcessHTMLTold
  <2>5. WalkDated(v, P)
    BY <1>1, <2>1, <2>2, <2>3, <2>4 DEF WalkDated
  <2>6. QED
    BY <1>0, <2>1, <2>2, <2>3, <2>5 DEF Gathered
<1>7. QED
  BY <1>0, <1>3, <1>4, <1>5, <1>6, VisitParts

(* The pages of a finished walk, and the sources they are made from.            *)
PageFrom(p, P) ==
  /\ Doc(p.text) /\ Told(p.text, P)
  /\ \E g \in DOMAIN P : p.rel \in PagesMade(g) /\ p.rel = RouteFor(g) /\ Shows(p.text, g)

LEMMA ExtsApart == HtmlExts \cap MdExts = {} /\ "html" \in HtmlExts
BY DEF HtmlExts, MdExts

LEMMA MarkdownPageFrom ==
  ASSUME NEW P, NEW site, IsSite(site), Fits(site, P), NEW m, m.of \in DOMAIN P,
         m.of.ext \in MdExts, Doc(m.text), Told(m.text, P), Shows(m.text, m.of)
  PROVE  /\ PageFrom(MarkdownPage(site, m), P)
         /\ MarkdownPage(site, m).rel = RouteFor(m.of)
<1> DEFINE base == Name(<<>>, "base", "html")
           wanted == IF "layout" \in DOMAIN m.front THEN m.front["layout"]
                     ELSE IF base \in DOMAIN site THEN base ELSE NoName
           layout == IF wanted = NoName THEN NoName ELSE ResolveIncludePath(site, m.of.dir, wanted)
           laid == IF layout = NoName THEN m.text
                   ELSE Fill(ProcessHTML(site, layout), m.text)
           rel == Name(m.of.dir, m.of.base, "html")
           page == [rel |-> rel, vars |-> m.front, text |-> ProcessVariables(laid, m.front)]
<1>1. MarkdownPage(site, m) = page
  BY DEF MarkdownPage
<1>2. layout # NoName => layout \in DOMAIN site
  BY ResolveFound
<1>3. page.rel = rel /\ page.text = ProcessVariables(laid, m.front)
  OBVIOUS
<1> HIDE DEF page, layout
<1>4. Doc(laid) /\ Told(laid, P) /\ Shows(laid, m.of)
  BY <1>2, ProcessHTMLDoc, ProcessHTMLTold, FillDoc, FillTold, FillShows
<1> HIDE DEF laid
<1>5. Flat(laid) /\ SaysAll(laid, P)
  BY <1>4, DocIsFlat DEF Told, SaysAll
<1>6. /\ Doc(ProcessVariables(laid, m.front)) /\ Told(ProcessVariables(laid, m.front), P)
      /\ Shows(ProcessVariables(laid, m.front), m.of)
  BY <1>4, <1>5, VariablesUnmarked, VariablesSay
<1>7. rel \in PagesMade(m.of) /\ rel = RouteFor(m.of)
  BY ExtsApart DEF PagesMade, RouteFor
<1>8. PageFrom(page, P) /\ page.rel = RouteFor(m.of)
  BY <1>3, <1>6, <1>7 DEF PageFrom
<1>9. QED
  BY <1>1, <1>8

LEMMA HtmlPageFrom ==
  ASSUME NEW P, NEW p, p.rel.ext \in HtmlExts, p.rel \in DOMAIN P,
         Doc(p.text), Told(p.text, P), Shows(p.text, p.rel)
  PROVE  PageFrom(p, P) /\ p.rel = RouteFor(p.rel)
BY ExtsApart DEF PageFrom, PagesMade, RouteFor

LEMMA PagesFrom ==
  ASSUME NEW P, NEW w, WalkOK(w), WalkDated(w, P), NEW site, IsSite(site), Fits(site, P)
  PROVE  LET pages == PagesOfWalk(w, site)
         IN  /\ \A p \in ToSet(pages) : PageFrom(p, P)
             /\ \A f : Gathered(w, f) => f \in DOMAIN w.assets \/ RouteFor(f) \in Claimed(pages)
<1> DEFINE n == Len(w.md)
           pages == PagesOfWalk(w, site)
<1>1. n \in Nat /\ \A i \in 1..n : w.md[i] \in ToSet(w.md)
  BY SeqFacts DEF WalkOK
<1>2. PICK made : made = [i \in 1..n |-> MarkdownPage(site, w.md[i])]
  OBVIOUS
<1>3. made = [i \in 1..n |-> made[i]]
  BY <1>2
<1>4. IsSeq(made) /\ ToSet(made) = {made[i] : i \in 1..n}
  BY <1>1, <1>3, SeqMade
<1>5. ASSUME NEW i \in 1..n PROVE PageFrom(made[i], P) /\ made[i].rel = RouteFor(w.md[i].of)
  <2>1. PICK m \in ToSet(w.md) : m = w.md[i] /\ made[i] = MarkdownPage(site, m)
    BY <1>1, <1>2
  <2>2. /\ m.of \in DOMAIN P /\ m.of.ext \in MdExts /\ Doc(m.text) /\ Told(m.text, P)
        /\ Shows(m.text, m.of)
    BY DEF WalkOK, WalkDated
  <2>3. QED
    BY <2>1, <2>2, MarkdownPageFrom
<1>6. ASSUME NEW p \in ToSet(w.html) PROVE PageFrom(p, P) /\ p.rel = RouteFor(p.rel)
  <2>1. /\ p.rel.ext \in HtmlExts /\ p.rel \in DOMAIN P /\ Doc(p.text) /\ Told(p.text, P)
        /\ Shows(p.text, p.rel)
    BY DEF WalkOK, WalkDated
  <2>2. QED
    BY <2>1, HtmlPageFrom
<1>7. ToSet(pages) = ToSet(w.html) \cup ToSet(made)
  <2>1. pages = w.html \o made
    BY <1>2 DEF PagesOfWalk
  <2>2. QED
    BY <1>4, <2>1, SeqJoin DEF WalkOK
<1> HIDE DEF pages
<1>8. \A p \in ToSet(pages) : PageFrom(p, P)
  BY <1>4, <1>5, <1>6, <1>7
<1>9. ASSUME NEW f, Gathered(w, f), f \notin DOMAIN w.assets PROVE RouteFor(f) \in Claimed(pages)
  <2>1. \E p \in ToSet(pages) : p.rel = RouteFor(f)
    <3>1. CASE \E p \in ToSet(w.html) : p.rel = f
      BY <1>6, <1>7, <3>1
    <3>2. CASE \E m \in ToSet(w.md) : m.of = f
      <4>1. PICK i \in 1..n : w.md[i].of = f
        <5>1. \A m \in ToSet(w.md) : \E i \in 1..n : w.md[i] = m
          BY SeqFacts DEF WalkOK
        <5>2. QED
          BY <3>2, <5>1
      <4>2. QED
        BY <1>4, <1>5, <1>7, <4>1
    <3>3. QED
      BY <1>9, <3>1, <3>2 DEF Gathered
  <2>2. QED
    BY <2>1 DEF Claimed
<1>10. QED
  BY <1>8, <1>9 DEF pages

(* Every version a finished map shows is one that P allows.                     *)
Dated(F, P) == \A f : \A v \in Versions(F, f) : f \in DOMAIN P /\ v \in P[f]

LEMMA NoneDated ==
  ASSUME NEW P PROVE Dated(<<>>, P)
<1>1. DOMAIN <<>> = {}
  OBVIOUS
<1>2. QED
  BY <1>1 DEF Dated, Versions

LEMMA VersionsOf ==
  ASSUME NEW F, NEW f, NEW v \in Versions(F, f)
  PROVE  \E r \in DOMAIN F : \/ F[r].of = f /\ F[r].ver # 0 /\ v = F[r].ver
                             \/ \E k \in ToSet(F[r].body) :
                                  k.t = "text" /\ k.to = f /\ k.v # 0 /\ v = k.v
BY DEF Versions

LEMMA VersionShown ==
  ASSUME NEW F, NEW f, NEW r \in DOMAIN F,
         (F[r].of = f /\ F[r].ver # 0) \/ Shows(F[r].body, f)
  PROVE  Versions(F, f) # {}
<1>1. CASE F[r].of = f /\ F[r].ver # 0
  BY <1>1 DEF Versions
<1>2. CASE Shows(F[r].body, f)
  <2>1. PICK k \in ToSet(F[r].body) : k.t = "text" /\ k.to = f /\ k.v # 0
    BY <1>2 DEF Shows
  <2>2. k.v \in Versions(F, f)
    BY <2>1 DEF Versions
  <2>3. QED
    BY <2>2
<1>3. QED
  BY <1>1, <1>2

LEMMA FinishDated ==
  ASSUME NEW P, NEW w, WalkOK(w), WalkDated(w, P), NEW site, IsSite(site), Fits(site, P)
  PROVE  /\ Dated(Finish(w, site), P)
         /\ \A f \in DOMAIN P : Gathered(w, f) /\ ~Shadowed(f, DOMAIN P) =>
                                  Versions(Finish(w, site), f) # {}
<1> DEFINE pages == PagesOfWalk(w, site)
           F == Finish(w, site)
           colls == SortedColls(w)
<1>1. Made(F, w, pages)
  BY FinishMakes
<1>2. IsSeq(pages) /\ \A p \in ToSet(pages) : PageOK(p)
  BY PagesOK
<1>3. /\ \A p \in ToSet(pages) : PageFrom(p, P)
      /\ \A f : Gathered(w, f) => f \in DOMAIN w.assets \/ RouteFor(f) \in Claimed(pages)
  BY PagesFrom
<1>4. \A c \in DOMAIN colls : IsSeq(colls[c])
  BY SortedOK
<1> HIDE DEF pages, F, colls
<1>5. ASSUME NEW f, NEW v \in Versions(F, f) PROVE f \in DOMAIN P /\ v \in P[f]
  <2>1. PICK r \in DOMAIN F : \/ F[r].of = f /\ F[r].ver # 0 /\ v = F[r].ver
                              \/ \E k \in ToSet(F[r].body) :
                                   k.t = "text" /\ k.to = f /\ k.v # 0 /\ v = k.v
    BY VersionsOf
  <2>2. CASE FromFile(F, w, pages, r)
    <3>1. /\ r \in DOMAIN w.hashes /\ F[r].of = r /\ F[r].ver = w.hashes[r] /\ ToSet(F[r].body) = {}
      BY <2>2, SeqEmpty DEF FromFile, WalkOK
    <3>2. QED
      BY <2>1, <3>1 DEF WalkDated
  <2>3. CASE Paged(F, w, pages, r)
    <3>1. PICK p \in ToSet(pages) : Built(F[r]) /\ F[r].body = BodyOf(p, SortedColls(w), w.hashes)
      BY <2>3 DEF Paged
    <3>2. Doc(p.text) /\ Told(p.text, P)
      BY <1>3 DEF PageFrom
    <3>3. SaysAll(BodyOf(p, colls, w.hashes), P)
      BY <1>4, <3>2, BodySays
    <3>4. SaysAll(F[r].body, P) /\ F[r].ver = 0
      BY <3>1, <3>3 DEF Built, colls
    <3>5. QED
      BY <2>1, <3>4 DEF SaysAll, Says
  <2>4. CASE Listing(F, w, pages, r)
    <3>1. F[r].ver = 0 /\ \A k \in ToSet(F[r].body) : \E q : k = Tok("loc", q)
      BY <2>4 DEF Listing, Built
    <3>2. \A q : Tok("loc", q).t = "loc"
      BY DEF Tok
    <3>3. QED
      BY <2>1, <3>1, <3>2
  <2>5. QED
    BY <1>1, <1>2, <2>2, <2>3, <2>4, MadeFrom
<1>6. ASSUME NEW p \in ToSet(pages), NEW f \in DOMAIN P, ~Shadowed(f, DOMAIN P),
             Claims(p, RouteFor(f))
      PROVE  Shows(p.text, f) /\ p.rel \in PagesMade(f)
  <2>1. PICK g \in DOMAIN P : p.rel \in PagesMade(g) /\ Shows(p.text, g)
    BY <1>3 DEF PageFrom
  <2>2. g = f
    BY <1>6, <2>1 DEF Shadowed, Claims
  <2>3. QED
    BY <2>1, <2>2
<1>7. ASSUME NEW f \in DOMAIN P, Gathered(w, f), ~Shadowed(f, DOMAIN P)
      PROVE  Versions(F, f) # {}
  <2>1. CASE RouteFor(f) \in Claimed(pages)
    <3>1. PICK p \in ToSet(pages) : /\ Claims(p, RouteFor(f))
                                    /\ F[RouteFor(f)].body = BodyOf(p, SortedColls(w), w.hashes)
      BY <1>1, <2>1 DEF Made, Serves
    <3>2. Shows(p.text, f) /\ Doc(p.text) /\ Told(p.text, P)
      BY <1>3, <1>6, <1>7, <3>1 DEF PageFrom
    <3>3. Shows(F[RouteFor(f)].body, f)
      BY <1>4, <3>1, <3>2, BodySays DEF colls
    <3>4. RouteFor(f) \in DOMAIN F
      BY <1>1, <2>1 DEF Made, Serves
    <3>5. QED
      BY <3>3, <3>4, VersionShown
  <2>2. CASE RouteFor(f) \notin Claimed(pages)
    <3>1. f \in DOMAIN w.assets
      BY <1>3, <1>7, <2>2
    <3>2. f.ext \notin MdExts /\ w.assets[f].of = f /\ w.assets[f].ver # 0
      BY <3>1 DEF WalkOK, WalkDated
    <3>3. RouteFor(f) = f
      BY <3>2 DEF RouteFor
    <3>4. f \in DOMAIN F /\ F[f] = w.assets[f]
      BY <1>1, <2>2, <3>1, <3>3 DEF Made, Serves
    <3>5. QED
      BY <3>2, <3>4, VersionShown
  <2>3. QED
    BY <2>1, <2>2
<1>8. QED
  BY <1>5, <1>7 DEF F, Dated
=============================================================================
