------------------------------- MODULE BuildProofs -------------------------------
(* Proofs about Loader within Build: for every project, the merged module is    *)
(* what the imports reach, each file once, and a cycle is told where there is   *)
(* one.                                                                         *)
EXTENDS Build, TLAPS, FiniteSetTheorems, SequenceTheorems

--------------------------------------------------------------------------------
(* Files, directories and what they hold, by the project alone.                 *)

Dirs == DOMAIN project.dirs
Sources == {f \in Files : Parses(f)}
Trees == UNION {ToSet(Contents(f)) : f \in Sources}
Listed == UNION {MembersOf(f) : f \in Reached}
Free == Reached \ Listed

(* The files that a declaration names: none unless it is an import.             *)
DirectOf(d) == {Key(ImportPath(d))} \cap Files
NamedBy(d) ==
  IF ~IsImport(d) THEN {}
  ELSE DirectOf(d) \cup UNION {ToSet(project.dirs[k]) : k \in {Key(ImportPath(d))} \cap Dirs}

(* The file g is reached from f by one import or more.                          *)
Leads(f, g) == \A S \in SUBSET Files : Uses(f) \subseteq S /\ Closed(S, Uses) => g \in S
FreeUses(f) == DirectFiles(f) \cap Free

--------------------------------------------------------------------------------
(* Calls.  Each has taken a part of its list, from the front.                   *)

Frames ==
  [kind : FileCalls, at : Sources, rest : Seq(Trees)] \cup [kind : DirCalls, at : Dirs, rest : Seq(Files)]
ListOf(call) == IF call.kind \in FileCalls THEN Contents(call.at) ELSE project.dirs[call.at]
Taken(call) == Len(ListOf(call)) - Len(call.rest)
InOrder(call) ==
  /\ Taken(call) \in 0..Len(ListOf(call))
  /\ call.rest = SubSeq(ListOf(call), Taken(call) + 1, Len(ListOf(call)))

FileCall(i) == i \in DOMAIN calls /\ calls[i].kind \in FileCalls
DirCall(i) == i \in DOMAIN calls /\ calls[i].kind \in DirCalls
Expanding(f) == \E i \in DOMAIN calls : FileCall(i) /\ calls[i].at = f
Finished == {f \in visited : ~Expanding(f)}
Waiting == UNION {ToSet(calls[i].rest) : i \in {j \in DOMAIN calls : DirCall(j)}}

--------------------------------------------------------------------------------
(* The inductive invariant.                                                     *)

TypeInv ==
  /\ project \in Projects
  /\ phase \in {"start", "load", "loaded", "accepted", "built", "ran", "refused"}
  /\ visited \subseteq Sources
  /\ calls \in Seq(Frames)
  /\ stack \in Seq(Files)
  /\ decls \in Seq([tree : Trees, file : Files, module : {ModuleOf(f) : f \in Sources}])
  /\ phase \in {"start", "load", "loaded"} => verdict = Nil

(* Before Load.                                                                 *)
Fresh == visited = {} /\ stack = <<>> /\ calls = <<>> /\ decls = <<>> /\ diags = {}

(* Each call has its place: a file is expanded by one call at most, which has   *)
(* taken the first of its declarations.                                         *)
WellPlaced(i, call) ==
  /\ call.at \in IF call.kind \in FileCalls THEN visited ELSE Dirs
  /\ InOrder(call)
  /\ call.kind = "root directory" => i = 1 /\ call.at = project.root /\ ~FileAt(project.root)
  /\ call.kind = "imported directory" => \E f \in Reached : call.at \in DirsOf(f)
  /\ call.kind = "member file" => call.at \in Listed
CallInv ==
  /\ \A i \in DOMAIN calls : WellPlaced(i, calls[i])
  /\ \A i, j \in DOMAIN calls : FileCall(i) /\ FileCall(j) /\ calls[i].at = calls[j].at => i = j

(* The stack of the code: the files whose expansion began with an import or     *)
(* with Load, from the first.                                                   *)
Pushed(i) == calls[i].kind \in {"root file", "imported file"}
StackInv ==
  \E p \in [DOMAIN stack -> DOMAIN calls] :
    /\ \A k \in DOMAIN stack : Pushed(p[k]) /\ stack[k] = calls[p[k]].at
    /\ \A k, m \in DOMAIN stack : k < m => p[k] < p[m]
    /\ \A i \in DOMAIN calls : Pushed(i) => \E k \in DOMAIN stack : p[k] = i

(* What is called leads from what called it.                                    *)
ChainInv ==
  \A i, j \in DOMAIN calls : i < j /\ FileCall(i) =>
    IF FileCall(j) THEN Leads(calls[i].at, calls[j].at)
    ELSE \A m \in ToSet(project.dirs[calls[j].at]) : Leads(calls[i].at, m)

ReachInv == visited \subseteq Reached

(* The first n declarations of f are merged: those that are no imports are on   *)
(* the list, and what the imports name is visited or will be.                   *)
OwnUpTo(f, n) == {j \in OwnOf(f) : j <= n}
Merged(f, own) ==
  /\ Cardinality(FromFile(f)) = Cardinality(own)
  /\ \A i \in FromFile(f), j \in own :
       Place(i, FromFile(f)) = Place(j, own) => decls[i] = Origin(Contents(f)[j], f)
MergedInv ==
  /\ \A i \in DOMAIN calls : FileCall(i) => Merged(calls[i].at, OwnUpTo(calls[i].at, Taken(calls[i])))
  /\ \A f \in Finished : Merged(f, OwnOf(f))
  /\ \A f \in Files \ visited : FromFile(f) = {}

Named(f, n) == UNION {NamedBy(Contents(f)[j]) : j \in {m \in DOMAIN Contents(f) : m <= n}}
ClosureInv ==
  /\ Given \subseteq visited \cup Waiting
  /\ \A i \in DOMAIN calls : FileCall(i) => Named(calls[i].at, Taken(calls[i])) \subseteq visited \cup Waiting
  /\ \A f \in Finished : Uses(f) \subseteq visited \cup Waiting

(* Of files in no imported directory, those that are finished are on no cycle,  *)
(* and one that is being expanded has met finished ones or those above it.      *)
FreeNamed(f, n) ==
  {g \in Free : \E j \in DOMAIN Contents(f) :
     j <= n /\ IsImport(Contents(f)[j]) /\ g \in DirectOf(Contents(f)[j])}
AcyclicInv ==
  /\ \A f \in Finished \cap Free : FreeUses(f) \subseteq Finished /\ ~OnCycle(FreeUses, f)
  /\ \A i \in DOMAIN calls : FileCall(i) =>
       \A g \in FreeNamed(calls[i].at, Taken(calls[i])) :
         g \in Finished \/ \E j \in DOMAIN calls : i < j /\ FileCall(j) /\ calls[j].at = g

LoadInv ==
  /\ CallInv /\ StackInv /\ ChainInv /\ ReachInv /\ MergedInv
  /\ diags = {} => ClosureInv /\ AcyclicInv

WellMerged ==
  /\ \A f \in Files : Merged(f, IF f \in Reached THEN OwnOf(f) ELSE {})
  /\ \A f \in Free : ~OnCycle(FreeUses, f)

IInv ==
  /\ TypeInv
  /\ phase = "start" => Fresh
  /\ phase = "load" => LoadInv
  /\ Loaded => WellMerged

(* A cycle is told where there is one.                                          *)
CyclesTold == "E_CIRCULAR_IMPORT" \in diags => \E f \in Reached : OnCycle(Uses, f)

--------------------------------------------------------------------------------
(* The project.                                                                 *)

LEMMA ProjectFacts ==
  ASSUME project \in Projects
  PROVE  /\ Files \cap Dirs = {}
         /\ \A d \in Dirs : project.dirs[d] \in Seq(Files)
         /\ \A f \in Sources : Contents(f) \in Seq(ToSet(Contents(f)))
         /\ \A f \in Sources : Contents(f) \in Seq(Trees)
<1>1. Files \cap Dirs = {} /\ \A d \in Dirs : project.dirs[d] \in Seq(Files)
  BY ProjectsAssumption DEF Files, Dirs
<1>2. \A f \in Sources : Contents(f) \in Seq(ToSet(Contents(f)))
  BY ProjectsAssumption DEF Sources, Files, Parses, Contents
<1>3. ASSUME NEW f \in Sources PROVE Contents(f) \in Seq(Trees)
  BY <1>2, <1>3, SeqMonotonic, ToSet(Contents(f)) \subseteq Trees DEF Trees
<1>4. QED
  BY <1>1, <1>2, <1>3

(* Nothing changes it.                                                          *)
LEMMA SameProject ==
  ASSUME project' = project
  PROVE  /\ Files' = Files /\ Dirs' = Dirs /\ Sources' = Sources /\ Trees' = Trees
         /\ Frames' = Frames /\ Given' = Given /\ Reached' = Reached
         /\ Listed' = Listed /\ Free' = Free
         /\ \A f : /\ Contents(f)' = Contents(f) /\ ModuleOf(f)' = ModuleOf(f)
                   /\ FileAt(f)' = FileAt(f)
                   /\ Uses(f)' = Uses(f) /\ DirsOf(f)' = DirsOf(f) /\ FreeUses(f)' = FreeUses(f)
                   /\ OwnOf(f)' = OwnOf(f)
         /\ \A d : NamedBy(d)' = NamedBy(d) /\ DirectOf(d)' = DirectOf(d)
         /\ \A call : ListOf(call)' = ListOf(call) /\ Taken(call)' = Taken(call)
         /\ \A f, g : Leads(f, g)' = Leads(f, g)
         /\ \A f, n : /\ Named(f, n)' = Named(f, n) /\ FreeNamed(f, n)' = FreeNamed(f, n)
                      /\ OwnUpTo(f, n)' = OwnUpTo(f, n)
<1>1. /\ Files' = Files /\ Dirs' = Dirs /\ Given' = Given
      /\ \A f : /\ Contents(f)' = Contents(f) /\ ModuleOf(f)' = ModuleOf(f)
                /\ FileAt(f)' = FileAt(f) /\ Parses(f)' = Parses(f)
  BY DEF Files, Dirs, Given, Contents, ModuleOf, FileAt, Parses
<1>2. \A q : Target(q)' = Target(q)
  BY <1>1 DEF Target
<1>3. \A q : Key(q)' = Key(q)
  BY <1>2 DEF Key
<1>4. Sources' = Sources /\ Trees' = Trees /\ Frames' = Frames
  BY <1>1 DEF Sources, Trees, Frames
<1>5. \A f : /\ Imported(f)' = Imported(f) /\ DirectFiles(f)' = DirectFiles(f)
            /\ DirsOf(f)' = DirsOf(f) /\ MembersOf(f)' = MembersOf(f) /\ Uses(f)' = Uses(f)
  <2>1. \A f : Imported(f)' = Imported(f)
    BY <1>1 DEF Imported
  <2>2. \A f : DirectFiles(f)' = DirectFiles(f) /\ DirsOf(f)' = DirsOf(f)
    BY <1>1, <1>3, <2>1 DEF DirectFiles, DirsOf, Dirs
  <2>3. \A f : MembersOf(f)' = MembersOf(f)
    BY <2>2 DEF MembersOf
  <2>4. \A f : Uses(f)' = Uses(f)
    BY <1>1, <2>2, <2>3 DEF Uses
  <2>5. QED
    BY <2>1, <2>2, <2>3, <2>4
<1>6. Reached' = Reached
  BY <1>1, <1>5 DEF Reached, Closed
<1>7. Listed' = Listed /\ Free' = Free
  BY <1>5, <1>6 DEF Listed, Free
<1>8. \A f : FreeUses(f)' = FreeUses(f) /\ OwnOf(f)' = OwnOf(f)
  BY <1>1, <1>5, <1>7 DEF FreeUses, OwnOf
<1>9. \A d : NamedBy(d)' = NamedBy(d) /\ DirectOf(d)' = DirectOf(d)
  BY <1>1, <1>3 DEF NamedBy, DirectOf
<1>10. \A call : ListOf(call)' = ListOf(call) /\ Taken(call)' = Taken(call)
  BY <1>1 DEF ListOf, Taken
<1>11. \A f, g : Leads(f, g)' = Leads(f, g)
  BY <1>1, <1>5 DEF Leads, Closed
<1>12. \A f, n : /\ Named(f, n)' = Named(f, n) /\ FreeNamed(f, n)' = FreeNamed(f, n)
                 /\ OwnUpTo(f, n)' = OwnUpTo(f, n)
  BY <1>1, <1>7, <1>8, <1>9 DEF Named, FreeNamed, OwnUpTo
<1>13. QED
  BY <1>1, <1>4, <1>5, <1>6, <1>7, <1>8, <1>9, <1>10, <1>11, <1>12

(* What a file uses is what its imports name.                                   *)
LEMMA UsesNamed ==
  ASSUME project \in Projects, NEW f \in Sources
  PROVE  /\ Uses(f) = Named(f, Len(Contents(f)))
         /\ FreeUses(f) = FreeNamed(f, Len(Contents(f)))
         /\ \A j \in DOMAIN Contents(f) : NamedBy(Contents(f)[j]) \subseteq Uses(f)
<1> DEFINE c == Contents(f)
<1>1. \A j \in DOMAIN c : j <= Len(c)
  BY ProjectFacts
<1>2. Imported(f) = {ImportPath(c[j]) : j \in {m \in DOMAIN c : IsImport(c[m])}}
  BY DEF Sources, Imported, ToSet
<1>3. DirectFiles(f) = UNION {DirectOf(c[j]) : j \in {m \in DOMAIN c : IsImport(c[m])}}
  BY <1>2 DEF DirectFiles, DirectOf
<1>4. DirsOf(f) = UNION {{Key(ImportPath(c[j]))} \cap Dirs : j \in {m \in DOMAIN c : IsImport(c[m])}}
  BY <1>2 DEF DirsOf, Dirs
<1>5. MembersOf(f) \subseteq Files
  <2>1. \A d \in DirsOf(f) : ToSet(project.dirs[d]) \subseteq Files
    BY ProjectFacts DEF DirsOf, Dirs, ToSet
  <2>2. QED
    BY <2>1 DEF MembersOf
<1>6. Uses(f) = DirectFiles(f) \cup MembersOf(f)
  BY <1>5 DEF Uses, DirectFiles
<1>7. Uses(f) = UNION {NamedBy(c[j]) : j \in DOMAIN c}
  BY <1>3, <1>4, <1>6 DEF NamedBy, MembersOf
<1>8. QED
  BY <1>1, <1>3, <1>7 DEF Named, FreeUses, FreeNamed

(* Reaching and leading.                                                        *)
LEMMA ReachedFacts ==
  /\ Given \subseteq Files => Given \subseteq Reached
  /\ \A f \in Reached : f \in Files /\ Uses(f) \subseteq Reached
  /\ \A V \in SUBSET Files : Given \subseteq V /\ (\A f \in V : Uses(f) \subseteq V) => Reached \subseteq V
<1>1. Given \subseteq Files => Given \subseteq Reached
  BY DEF Reached
<1>2. ASSUME NEW f \in Reached, NEW g \in Uses(f) PROVE g \in Reached
  <2>1. g \in Files
    BY <1>2 DEF Uses
  <2>2. QED
    BY <1>2, <2>1 DEF Reached, Closed
<1>3. \A V \in SUBSET Files : Given \subseteq V /\ (\A f \in V : Uses(f) \subseteq V) => Reached \subseteq V
  BY DEF Reached, Closed
<1>4. QED
  BY <1>1, <1>2, <1>3 DEF Reached

LEMMA LeadsOn ==
  ASSUME NEW f
  PROVE  /\ \A h \in Uses(f) : Leads(f, h)
         /\ \A g : \A h \in Uses(g) : Leads(f, g) => Leads(f, h)
         /\ Leads(f, f) => OnCycle(Uses, f)
  BY DEF Leads, Closed, OnCycle

--------------------------------------------------------------------------------
(* The list of a call.                                                          *)

LEMMA ListFacts ==
  ASSUME TypeInv, NEW call \in Frames
  PROVE  /\ call.kind \in FileCalls => call.at \in Sources /\ ListOf(call) \in Seq(Trees) /\ ListOf(call) = Contents(call.at)
         /\ call.kind \in DirCalls =>
              /\ call.at \in Dirs /\ ListOf(call) \in Seq(Files) /\ ListOf(call) = project.dirs[call.at]
              /\ call.kind \notin FileCalls
         /\ call.kind \in FileCalls \cup DirCalls
         /\ Len(ListOf(call)) \in Nat /\ Len(call.rest) \in Nat
         /\ \E S : ListOf(call) \in Seq(S) /\ call.rest \in Seq(S)
         /\ Taken(call) \in Int
<1>1. CASE call \in [kind : FileCalls, at : Sources, rest : Seq(Trees)]
  <2>1. ListOf(call) = Contents(call.at) /\ ListOf(call) \in Seq(Trees) /\ call.rest \in Seq(Trees)
    BY <1>1, ProjectFacts DEF ListOf, TypeInv
  <2>2. Len(ListOf(call)) \in Nat /\ Len(call.rest) \in Nat
    BY <2>1
  <2>3. call.kind \in FileCalls /\ call.kind \notin DirCalls
    BY <1>1 DEF FileCalls, DirCalls
  <2>4. QED
    BY <1>1, <2>1, <2>2, <2>3 DEF Taken
<1>2. CASE call \in [kind : DirCalls, at : Dirs, rest : Seq(Files)]
  <2>1. call.kind \in DirCalls /\ call.kind \notin FileCalls
    BY <1>2 DEF FileCalls, DirCalls
  <2>2. ListOf(call) = project.dirs[call.at] /\ ListOf(call) \in Seq(Files) /\ call.rest \in Seq(Files)
    BY <1>2, <2>1, ProjectFacts DEF ListOf, TypeInv
  <2>3. Len(ListOf(call)) \in Nat /\ Len(call.rest) \in Nat
    BY <2>2
  <2>4. QED
    BY <1>2, <2>1, <2>2, <2>3 DEF Taken
<1>3. QED
  BY <1>1, <1>2 DEF Frames

LEMMA TailOfSuffix ==
  ASSUME NEW S, NEW s \in Seq(S), NEW k \in 0..Len(s), SubSeq(s, k + 1, Len(s)) # <<>>
  PROVE  /\ k + 1 \in 1..Len(s)
         /\ Head(SubSeq(s, k + 1, Len(s))) = s[k + 1]
         /\ Tail(SubSeq(s, k + 1, Len(s))) = SubSeq(s, k + 2, Len(s))
         /\ Len(SubSeq(s, k + 2, Len(s))) = Len(s) - k - 1
         /\ SubSeq(s, k + 2, Len(s)) \in Seq(S)
<1>1. k + 1 \in 1..Len(s)
  BY SubSeqEmpty
<1>2. QED
  BY <1>1, SMT

LEMMA WholeSuffix ==
  ASSUME NEW S, NEW s \in Seq(S)
  PROVE  s = SubSeq(s, 1, Len(s)) /\ (SubSeq(s, Len(s) + 1, Len(s)) = <<>>)
  BY SubSeqFull, SubSeqEmpty

LEMMA ToSetTail ==
  ASSUME NEW S, NEW s \in Seq(S), s # <<>>
  PROVE  ToSet(s) = ToSet(Tail(s)) \cup {Head(s)}
<1>1. Len(s) \in Nat \ {0} /\ Head(s) = s[1] /\ DOMAIN s = 1..Len(s)
  BY EmptySeq
<1>2. Len(Tail(s)) = Len(s) - 1 /\ DOMAIN Tail(s) = 1..(Len(s) - 1)
      /\ \A i \in 1..(Len(s) - 1) : Tail(s)[i] = s[i + 1]
  BY <1>1
<1>3. \A i \in 2..Len(s) : i - 1 \in 1..(Len(s) - 1) /\ s[i] = Tail(s)[i - 1]
  BY <1>1, <1>2
<1>4. ASSUME NEW x \in ToSet(s) PROVE x \in ToSet(Tail(s)) \cup {Head(s)}
  <2>1. PICK i \in 1..Len(s) : x = s[i]
    BY <1>1 DEF ToSet
  <2>2. CASE i = 1
    BY <1>1, <2>1, <2>2
  <2>3. CASE i # 1
    <3>1. i \in 2..Len(s)
      BY <1>1, <2>3
    <3>2. i - 1 \in DOMAIN Tail(s) /\ x = Tail(s)[i - 1]
      BY <1>2, <1>3, <2>1, <3>1
    <3>3. QED
      BY <3>2 DEF ToSet
  <2>4. QED
    BY <2>2, <2>3
<1>5. ToSet(Tail(s)) \subseteq ToSet(s)
  BY <1>1, <1>2 DEF ToSet
<1>6. Head(s) \in ToSet(s)
  <2>1. 1 \in DOMAIN s /\ Head(s) = s[1]
    BY <1>1
  <2>2. QED
    BY <2>1 DEF ToSet
<1>7. QED
  BY <1>4, <1>5, <1>6

(* Taking the next of it.                                                       *)
LEMMA TakeNext ==
  ASSUME TypeInv, NEW call \in Frames, InOrder(call), call.rest # <<>>
  PROVE  LET next == [call EXCEPT !.rest = Tail(call.rest)]
         IN  /\ next \in Frames /\ next.kind = call.kind /\ next.at = call.at
             /\ next.rest = Tail(call.rest)
             /\ ListOf(next) = ListOf(call) /\ Taken(next) = Taken(call) + 1
             /\ InOrder(next)
             /\ Taken(call) + 1 \in DOMAIN ListOf(call)
             /\ Head(call.rest) = ListOf(call)[Taken(call) + 1]
             /\ ToSet(call.rest) = ToSet(next.rest) \cup {Head(call.rest)}
<1> DEFINE next == [call EXCEPT !.rest = Tail(call.rest)]
           L == ListOf(call)
           k == Taken(call)
<1>1. PICK S : L \in Seq(S) /\ call.rest \in Seq(S)
  BY ListFacts
<1>2. k \in 0..Len(L) /\ call.rest = SubSeq(L, k + 1, Len(L))
  BY DEF InOrder
<1> HIDE DEF L, k
<1>3. /\ k + 1 \in 1..Len(L) /\ Head(call.rest) = L[k + 1]
      /\ Tail(call.rest) = SubSeq(L, k + 2, Len(L)) /\ Len(Tail(call.rest)) = Len(L) - k - 1
  BY <1>1, <1>2, TailOfSuffix
<1>4. next \in Frames /\ next.kind = call.kind /\ next.at = call.at /\ next.rest = Tail(call.rest)
  <2>1. ASSUME NEW K, NEW A, NEW T, call \in [kind : K, at : A, rest : Seq(T)]
        PROVE  /\ next \in [kind : K, at : A, rest : Seq(T)]
               /\ next.kind = call.kind /\ next.at = call.at /\ next.rest = Tail(call.rest)
    BY <2>1
  <2>2. QED
    BY <2>1 DEF Frames
<1>5. ListOf(next) = L
  BY <1>4 DEF ListOf, L
<1>6. Taken(next) = k + 1
  BY <1>1, <1>2, <1>3, <1>4, <1>5 DEF Taken
<1>7. InOrder(next)
  <2>1. k + 1 + 1 = k + 2 /\ k + 1 \in 0..Len(L)
    BY <1>1, <1>2, <1>3
  <2>2. QED
    BY <1>3, <1>4, <1>5, <1>6, <2>1 DEF InOrder
<1>8. ToSet(call.rest) = ToSet(Tail(call.rest)) \cup {Head(call.rest)}
  BY <1>1, ToSetTail
<1>9. QED
  BY <1>1, <1>3, <1>4, <1>5, <1>6, <1>7, <1>8 DEF L, k

--------------------------------------------------------------------------------
(* What the actions do to the calls.                                            *)

Item == Head(Top.rest)
Onward(new) == calls # <<>> /\ Top.rest # <<>> /\ calls' = Advanced \o new

DeclareEffect ==
  /\ Onward(<<>>)
  /\ Top.kind \in FileCalls /\ ~IsImport(Item)
  /\ decls' = Append(decls, Origin(Item, Top.at))
  /\ UNCHANGED <<visited, stack, diags>>

PassEffect ==
  /\ Onward(<<>>)
  /\ Top.kind \in FileCalls => IsImport(Item)
  /\ UNCHANGED <<visited, stack, decls>>
  /\ \/ /\ diags' = diags
        /\ IF Top.kind \in FileCalls THEN \E f \in visited \ ToSet(stack) : NamedBy(Item) = {f}
           ELSE Item \in visited
     \/ /\ diags' # {}
        /\ \/ "E_CIRCULAR_IMPORT" \in diags' => "E_CIRCULAR_IMPORT" \in diags
           \/ Top.kind \in FileCalls /\ \E f \in ToSet(stack) : f \in NamedBy(Item)

FileEffect(kind, f) ==
  /\ Onward(<<CallOf(kind, f, Contents(f))>>)
  /\ f \in Sources \ visited
  /\ visited' = visited \cup {f}
  /\ stack' = IF kind = "member file" THEN stack ELSE Append(stack, f)
  /\ UNCHANGED <<decls, diags>>
  /\ \/ kind = "imported file" /\ Top.kind \in FileCalls /\ IsImport(Item) /\ NamedBy(Item) = {f}
     \/ kind = "member file" /\ Top.kind = "imported directory" /\ Item = f
     \/ kind = "root file" /\ Top.kind = "root directory" /\ Item = f

DirEffect(d) ==
  /\ Onward(<<CallOf("imported directory", d, project.dirs[d])>>)
  /\ Top.kind \in FileCalls /\ IsImport(Item)
  /\ d \in Dirs /\ d = Key(ImportPath(Item)) /\ NamedBy(Item) = ToSet(project.dirs[d])
  /\ UNCHANGED <<visited, stack, decls, diags>>

LeaveEffect ==
  /\ calls # <<>> /\ Top.rest = <<>>
  /\ calls' = Front(calls)
  /\ stack' = IF Pushed(Len(calls)) THEN Front(stack) ELSE stack
  /\ UNCHANGED <<visited, decls, diags>>

Effect ==
  \/ DeclareEffect \/ PassEffect \/ LeaveEffect
  \/ \E kind \in FileCalls, f \in Files : FileEffect(kind, f)
  \/ \E d \in Dirs : DirEffect(d)
Goes == UNCHANGED <<project, phase, verdict>> /\ phase = "load" /\ Effect

(* Refusals end it, with codes that tell of no cycle.                           *)
Refused ==
  /\ phase' = "refused"
  /\ "E_CIRCULAR_IMPORT" \in diags' => "E_CIRCULAR_IMPORT" \in diags
  /\ UNCHANGED <<project, visited, stack, calls, decls, verdict>>

LEMMA AdvancedSeq ==
  ASSUME TypeInv, calls # <<>>, Top.rest # <<>>
  PROVE  /\ Advanced \in Seq(Frames) /\ Advanced \o <<>> = Advanced
         /\ \A c \in Frames : Append(Advanced, c) = Advanced \o <<c>>
<1>1. calls \in Seq(Frames) /\ Len(calls) \in Nat \ {0}
  BY EmptySeq DEF TypeInv
<1>2. Front(calls) \in Seq(Frames) /\ Top \in Frames
  BY <1>1 DEF Front, Top
<1>3. [Top EXCEPT !.rest = Tail(Top.rest)] \in Frames
  <2>1. ASSUME NEW K, NEW A, NEW S, Top \in [kind : K, at : A, rest : Seq(S)]
        PROVE  [Top EXCEPT !.rest = Tail(Top.rest)] \in [kind : K, at : A, rest : Seq(S)]
    BY <2>1
  <2>2. QED
    BY <1>2, <2>1 DEF Frames
<1>4. Advanced \in Seq(Frames)
  BY <1>2, <1>3 DEF Advanced
<1>5. QED
  BY <1>4, AppendIsConcat, ConcatEmptySeq

LEMMA SkipEffect ==
  ASSUME TypeInv, calls # <<>>, Top.rest # <<>>, Skip
  PROVE  Onward(<<>>) /\ diags' = diags /\ UNCHANGED <<project, phase, visited, stack, decls>>
  BY AdvancedSeq DEF Skip, Onward

LEMMA FaultEffect ==
  ASSUME TypeInv, calls # <<>>, Top.rest # <<>>, NEW code, Fault(code)
  PROVE  /\ Onward(<<>>) /\ diags' # {} /\ UNCHANGED <<project, phase, visited, stack, decls>>
         /\ code # "E_CIRCULAR_IMPORT" => ("E_CIRCULAR_IMPORT" \in diags' => "E_CIRCULAR_IMPORT" \in diags)
  BY AdvancedSeq DEF Fault, Onward

LEMMA EnterEffect ==
  ASSUME TypeInv, calls # <<>>, Top.rest # <<>>, NEW kind \in FileCalls, NEW f \in Sources,
         Enter(kind, f, Advanced)
  PROVE  /\ Onward(<<CallOf(kind, f, Contents(f))>>)
         /\ visited' = visited \cup {f}
         /\ stack' = IF kind = "member file" THEN stack ELSE Append(stack, f)
         /\ UNCHANGED <<project, phase, decls, diags>>
<1>1. CallOf(kind, f, Contents(f)) \in Frames
  BY ProjectFacts DEF TypeInv, Frames, CallOf
<1>2. QED
  BY <1>1, AdvancedSeq DEF Enter, Onward

(* An import of one file.                                                       *)
LEMMA ImportEffect ==
  ASSUME TypeInv, phase = "load", UNCHANGED verdict, calls # <<>>, Top.rest # <<>>,
         Top.kind \in FileCalls, IsImport(Item),
         NEW f, f \in Files, NamedBy(Item) = {f}, EnterImport(f)
  PROVE  Goes
<1>1. CASE f \in ToSet(stack) /\ Fault("E_CIRCULAR_IMPORT")
  BY <1>1, FaultEffect DEF Goes, Effect, PassEffect
<1>2. CASE f \notin ToSet(stack) /\ f \in visited /\ Skip
  BY <1>2, SkipEffect DEF Goes, Effect, PassEffect
<1>3. CASE f \notin visited /\ ~Parses(f) /\ Fault("E_SYNTAX")
  BY <1>3, FaultEffect DEF Goes, Effect, PassEffect
<1>4. CASE f \notin visited /\ Parses(f) /\ Enter("imported file", f, Advanced)
  <2>1. f \in Sources /\ "imported file" \in FileCalls
    BY <1>4 DEF Sources, FileCalls
  <2>2. FileEffect("imported file", f)
    BY <1>4, <2>1, EnterEffect DEF FileEffect
  <2>3. UNCHANGED <<project, phase>>
    BY <1>4 DEF Enter
  <2>4. QED
    BY <2>1, <2>2, <2>3 DEF Goes, Effect
<1>5. QED
  BY <1>1, <1>2, <1>3, <1>4 DEF EnterImport

(* What an import names is a file or a directory's files.                       *)
LEMMA NamedByCases ==
  ASSUME TypeInv, NEW d, IsImport(d)
  PROVE  LET k == Key(ImportPath(d)) IN
         /\ DirectOf(d) \subseteq NamedBy(d)
         /\ k \in Files => NamedBy(d) = {k}
         /\ k \in Dirs => NamedBy(d) = ToSet(project.dirs[k])
  BY ProjectFacts DEF TypeInv, NamedBy, DirectOf

LEMMA StepEffect ==
  ASSUME TypeInv, phase = "load", LoaderStep
  PROVE  Goes \/ Refused \/ Finish
<1>0. UNCHANGED verdict
  BY DEF LoaderStep
<1>1. CASE LoadFile \/ LoadDirectory \/ LoadNothing
  BY <1>1 DEF LoadFile, LoadDirectory, LoadNothing
<1>2. CASE Declare
  BY <1>0, <1>2, AdvancedSeq DEF Declare, OnTop, Goes, Effect, DeclareEffect, Onward, Item
<1>3. CASE ResolveStd
  <2> DEFINE key == StdKey(ImportPath(Item))
  <2>1. /\ calls # <<>> /\ Top.rest # <<>> /\ Top.kind \in FileCalls
        /\ IsImport(Item) /\ InStd(ImportPath(Item))
        /\ IF FileAt(key) THEN EnterImport(key) ELSE Fault("E_IMPORT_NOT_FOUND")
    BY <1>3 DEF ResolveStd, OnTop, IsStdImport, Item
  <2>2. key = Key(ImportPath(Item))
    BY <2>1 DEF Key
  <2>3. CASE FileAt(key)
    <3>1. key \in Files
      BY <2>3 DEF FileAt, Files
    <3>2. QED
      BY <1>0, <2>1, <2>2, <2>3, <3>1, NamedByCases, ImportEffect
  <2>4. CASE ~FileAt(key)
    BY <1>0, <2>1, <2>4, FaultEffect DEF Goes, Effect, PassEffect
  <2>5. QED
    BY <2>3, <2>4
<1>4. CASE ResolveImport
  <2> DEFINE key == Target(ImportPath(Item))
  <2>1. /\ calls # <<>> /\ Top.rest # <<>> /\ Top.kind \in FileCalls
        /\ IsImport(Item) /\ ~InStd(ImportPath(Item))
    BY <1>4 DEF ResolveImport, OnTop, IsStdImport, Item
  <2>2. key = Key(ImportPath(Item))
    BY <2>1 DEF Key
  <2>3. \/ \E code \in {"E_STD_RELATIVE_IMPORT", "E_IMPORT_NOT_FOUND"} : Fault(code)
        \/ /\ key \in Dirs
           /\ calls' = Append(Advanced, CallOf("imported directory", key, project.dirs[key]))
           /\ UNCHANGED <<project, visited, stack, decls, diags, phase>>
        \/ key \in Files /\ EnterImport(key)
    BY <1>4 DEF ResolveImport, Item, DirAt, FileAt, Dirs, Files
  <2>4. CASE \E code \in {"E_STD_RELATIVE_IMPORT", "E_IMPORT_NOT_FOUND"} : Fault(code)
    BY <1>0, <2>1, <2>4, FaultEffect DEF Goes, Effect, PassEffect
  <2>5. CASE /\ key \in Dirs
             /\ calls' = Append(Advanced, CallOf("imported directory", key, project.dirs[key]))
             /\ UNCHANGED <<project, visited, stack, decls, diags, phase>>
    <3>1. CallOf("imported directory", key, project.dirs[key]) \in Frames
      BY <2>5, ProjectFacts DEF TypeInv, Frames, CallOf, DirCalls
    <3>2. DirEffect(key)
      BY <2>1, <2>2, <2>5, <3>1, AdvancedSeq, NamedByCases DEF DirEffect, Onward
    <3>3. QED
      BY <1>0, <2>5, <3>2 DEF Goes, Effect
  <2>6. CASE key \in Files /\ EnterImport(key)
    BY <1>0, <2>1, <2>2, <2>6, NamedByCases, ImportEffect
  <2>7. QED
    BY <2>3, <2>4, <2>5, <2>6
<1>5. CASE NextMember \/ NextRootFile
  <2>1. calls # <<>> /\ Top.rest # <<>> /\ Top.kind \in DirCalls /\ Top.kind \notin FileCalls /\ Top \in Frames
    <3>1. calls \in Seq(Frames) /\ Top.kind \in DirCalls /\ calls # <<>> /\ Top.rest # <<>>
      BY <1>5 DEF NextMember, NextRootFile, OnTop, DirCalls, TypeInv
    <3>2. Top \in Frames
      BY <3>1 DEF Top
    <3>3. QED
      BY <3>1, <3>2, ListFacts
  <2>2. Item \in Files
    BY <2>1 DEF Frames, Item
  <2>3. \/ Skip /\ Item \in visited
        \/ Fault("E_SYNTAX")
        \/ Refuse({}) \/ Refuse({"E_SYNTAX"})
        \/ /\ Item \notin visited /\ Parses(Item)
           /\ \/ Top.kind = "imported directory" /\ Enter("member file", Item, Advanced)
              \/ Top.kind = "root directory" /\ Enter("root file", Item, Advanced)
    BY <1>5 DEF NextMember, NextRootFile, OnTop, Item
  <2>4. CASE Skip /\ Item \in visited
    BY <1>0, <2>1, <2>4, SkipEffect DEF Goes, Effect, PassEffect
  <2>5. CASE Fault("E_SYNTAX")
    BY <1>0, <2>1, <2>5, FaultEffect DEF Goes, Effect, PassEffect
  <2>6. CASE Refuse({}) \/ Refuse({"E_SYNTAX"})
    BY <1>0, <2>6 DEF Refuse, Refused
  <2>7. CASE /\ Item \notin visited /\ Parses(Item)
             /\ \/ Top.kind = "imported directory" /\ Enter("member file", Item, Advanced)
                \/ Top.kind = "root directory" /\ Enter("root file", Item, Advanced)
    <3>1. Item \in Sources
      BY <2>2, <2>7 DEF Sources
    <3>2. \E kind \in FileCalls : FileEffect(kind, Item) /\ UNCHANGED <<project, phase>>
      BY <2>1, <2>7, <3>1, EnterEffect DEF FileEffect, FileCalls
    <3>3. QED
      BY <1>0, <2>2, <3>2 DEF Goes, Effect
  <2>8. QED
    BY <2>3, <2>4, <2>5, <2>6, <2>7
<1>6. CASE Leave
  BY <1>0, <1>6 DEF Leave, OnTop, Goes, Effect, LeaveEffect, Pushed, Top
<1>7. CASE Finish
  BY <1>7
<1>8. QED
  BY <1>1, <1>2, <1>3, <1>4, <1>5, <1>6, <1>7 DEF LoaderStep, LoaderNext

--------------------------------------------------------------------------------
(* The calls after an effect.                                                   *)

LEMMA CallsFacts ==
  ASSUME TypeInv
  PROVE  /\ Len(calls) \in Nat /\ DOMAIN calls = 1..Len(calls)
         /\ \A i \in 1..Len(calls) : calls[i] \in Frames
         /\ calls # <<>> => Len(calls) \in 1..Len(calls) /\ Top = calls[Len(calls)]
  BY EmptySeq DEF TypeInv, Top

LEMMA OnwardFacts ==
  ASSUME TypeInv, CallInv, NEW new \in Seq(Frames), Len(new) \in 0..1, Onward(new)
  PROVE  LET n == Len(calls) IN
         /\ n \in Nat \ {0} /\ DOMAIN calls = 1..n /\ n \in 1..n /\ Top = calls[n]
         /\ calls' \in Seq(Frames) /\ DOMAIN calls' = 1..(n + Len(new)) /\ Len(calls') = n + Len(new)
         /\ \A i \in 1..(n - 1) : calls'[i] = calls[i]
         /\ \A i \in 1..n : /\ calls[i] \in Frames /\ calls'[i] \in Frames
                            /\ calls'[i].kind = calls[i].kind /\ calls'[i].at = calls[i].at
         /\ calls'[n].rest = Tail(Top.rest)
         /\ Taken(calls'[n]) = Taken(Top) + 1 /\ InOrder(calls'[n]) /\ ListOf(calls'[n]) = ListOf(Top)
         /\ Len(new) = 1 => calls'[n + 1] = new[1]
         /\ Taken(Top) + 1 \in DOMAIN ListOf(Top) /\ Item = ListOf(Top)[Taken(Top) + 1]
         /\ ToSet(Top.rest) = ToSet(calls'[n].rest) \cup {Item}
<1> DEFINE n == Len(calls)
           next == [Top EXCEPT !.rest = Tail(Top.rest)]
<1>1. /\ calls # <<>> /\ Top.rest # <<>> /\ calls' = Advanced \o new
      /\ n \in Nat \ {0} /\ DOMAIN calls = 1..n /\ n \in 1..n /\ Top = calls[n]
      /\ \A i \in 1..n : calls[i] \in Frames
  BY CallsFacts DEF Onward
<1>2. InOrder(Top)
  BY <1>1 DEF CallInv, WellPlaced
<1>3. /\ next \in Frames /\ next.kind = Top.kind /\ next.at = Top.at
      /\ next.rest = Tail(Top.rest)
      /\ ListOf(next) = ListOf(Top) /\ Taken(next) = Taken(Top) + 1
      /\ InOrder(next)
      /\ Taken(Top) + 1 \in DOMAIN ListOf(Top)
      /\ Item = ListOf(Top)[Taken(Top) + 1]
      /\ ToSet(Top.rest) = ToSet(next.rest) \cup {Item}
  BY <1>1, <1>2, TakeNext DEF Item
<1> HIDE DEF n, next
<1>4. /\ Advanced \in Seq(Frames) /\ Len(Advanced) = n
      /\ Advanced[n] = next /\ \A i \in 1..(n - 1) : Advanced[i] = calls[i]
  <2>1. calls \in Seq(Frames)
    BY DEF TypeInv
  <2>2. Front(calls) \in Seq(Frames) /\ Len(Front(calls)) = n - 1
        /\ \A i \in 1..(n - 1) : Front(calls)[i] = calls[i]
    BY <1>1, <2>1 DEF Front, n
  <2>3. Advanced = Append(Front(calls), next)
    BY DEF Advanced, next
  <2>4. QED
    BY <1>1, <1>3, <2>2, <2>3
<1>5. /\ calls' \in Seq(Frames) /\ Len(calls') = n + Len(new)
      /\ \A i \in 1..n : calls'[i] = Advanced[i]
      /\ Len(new) = 1 => calls'[n + 1] = new[1]
  BY <1>1, <1>4, ConcatProperties
<1>6. DOMAIN calls' = 1..(n + Len(new))
  BY <1>5
<1>7. calls'[n] = next /\ \A i \in 1..(n - 1) : calls'[i] = calls[i]
  BY <1>1, <1>4, <1>5
<1>8. \A i \in 1..n : calls'[i] \in Frames /\ calls'[i].kind = calls[i].kind /\ calls'[i].at = calls[i].at
  <2>1. TAKE i \in 1..n
  <2>2. CASE i = n
    BY <1>1, <1>3, <1>7, <2>2
  <2>3. CASE i # n
    <3>1. i \in 1..(n - 1)
      BY <1>1, <2>3
    <3>2. calls'[i] = calls[i]
      BY <1>7, <3>1
    <3>3. QED
      BY <1>1, <3>2
  <2>4. QED
    BY <2>2, <2>3
<1>9. QED
  BY <1>1, <1>3, <1>5, <1>6, <1>7, <1>8 DEF n

LEMMA LeaveFacts ==
  ASSUME TypeInv, CallInv, LeaveEffect
  PROVE  LET n == Len(calls) IN
         /\ n \in Nat \ {0} /\ DOMAIN calls = 1..n /\ n \in 1..n /\ Top = calls[n]
         /\ calls' \in Seq(Frames) /\ DOMAIN calls' = 1..(n - 1) /\ Len(calls') = n - 1
         /\ \A i \in 1..(n - 1) : calls'[i] = calls[i]
         /\ \A i \in 1..n : calls[i] \in Frames
         /\ Taken(Top) = Len(ListOf(Top))
         /\ ToSet(Top.rest) = {}
<1>1. /\ calls # <<>> /\ Top.rest = <<>> /\ calls' = Front(calls)
      /\ calls \in Seq(Frames)
      /\ Len(calls) \in Nat \ {0} /\ DOMAIN calls = 1..Len(calls) /\ Len(calls) \in 1..Len(calls)
      /\ Top = calls[Len(calls)]
      /\ \A i \in 1..Len(calls) : calls[i] \in Frames
  BY CallsFacts DEF LeaveEffect, TypeInv
<1>2. Front(calls) \in Seq(Frames) /\ Len(Front(calls)) = Len(calls) - 1
      /\ \A i \in 1..(Len(calls) - 1) : Front(calls)[i] = calls[i]
  BY <1>1 DEF Front
<1>3. Taken(Top) = Len(ListOf(Top))
  <2>1. Len(ListOf(Top)) \in Nat
    BY <1>1, ListFacts
  <2>2. QED
    BY <1>1, <2>1 DEF Taken
<1>4. ToSet(Top.rest) = {}
  BY <1>1 DEF ToSet
<1>5. QED
  BY <1>1, <1>2, <1>3, <1>4

LEMMA NewCall ==
  ASSUME TypeInv, NEW c \in Frames, c.rest = ListOf(c)
  PROVE  InOrder(c) /\ Taken(c) = 0
<1>1. PICK S : ListOf(c) \in Seq(S)
  BY ListFacts
<1>2. Len(ListOf(c)) \in Nat /\ Taken(c) = 0
  BY <1>1 DEF Taken
<1>3. ListOf(c) = SubSeq(ListOf(c), 0 + 1, Len(ListOf(c)))
  BY <1>1, <1>2, WholeSuffix
<1>4. QED
  BY <1>2, <1>3 DEF InOrder

LEMMA OneCall ==
  ASSUME NEW S, NEW c \in S
  PROVE  <<c>> \in Seq(S) /\ Len(<<c>>) = 1 /\ Len(<<c>>) \in 0..1 /\ <<c>>[1] = c
  OBVIOUS

(* All effects but the return of a call go onward, with a call more or not.     *)
LEMMA FileOnward ==
  ASSUME TypeInv, NEW kind \in FileCalls, NEW f, FileEffect(kind, f)
  PROVE  LET c == CallOf(kind, f, Contents(f)) IN
         /\ c \in Frames /\ c.kind = kind /\ c.at = f /\ c.rest = ListOf(c)
         /\ f \in Sources /\ f \in Files /\ ListOf(c) = Contents(f)
         /\ InOrder(c) /\ Taken(c) = 0
         /\ <<c>> \in Seq(Frames) /\ Len(<<c>>) = 1 /\ Len(<<c>>) \in 0..1 /\ <<c>>[1] = c
         /\ Onward(<<c>>)
<1> DEFINE c == CallOf(kind, f, Contents(f))
<1>1. f \in Sources /\ Contents(f) \in Seq(Trees) /\ f \in Files
  BY ProjectFacts DEF FileEffect, TypeInv, Sources
<1>2. c \in Frames /\ c.kind = kind /\ c.at = f /\ c.rest = Contents(f)
  BY <1>1 DEF Frames, CallOf
<1>3. ListOf(c) = Contents(f)
  BY <1>2 DEF ListOf
<1>4. Onward(<<c>>)
  BY DEF FileEffect
<1> HIDE DEF c
<1>5. <<c>> \in Seq(Frames) /\ Len(<<c>>) = 1 /\ Len(<<c>>) \in 0..1 /\ <<c>>[1] = c
  BY <1>2, OneCall
<1>6. QED
  BY <1>1, <1>2, <1>3, <1>4, <1>5, NewCall DEF c

LEMMA DirOnward ==
  ASSUME TypeInv, NEW d, DirEffect(d)
  PROVE  LET c == CallOf("imported directory", d, project.dirs[d]) IN
         /\ c \in Frames /\ c.kind = "imported directory" /\ c.kind \notin FileCalls
         /\ c.at = d /\ c.rest = ListOf(c)
         /\ ListOf(c) = project.dirs[d]
         /\ InOrder(c) /\ Taken(c) = 0
         /\ <<c>> \in Seq(Frames) /\ Len(<<c>>) = 1 /\ Len(<<c>>) \in 0..1 /\ <<c>>[1] = c
         /\ Onward(<<c>>)
<1> DEFINE c == CallOf("imported directory", d, project.dirs[d])
<1>1. d \in Dirs /\ project.dirs[d] \in Seq(Files)
  BY ProjectFacts DEF DirEffect, TypeInv
<1>2. /\ c \in Frames /\ c.kind = "imported directory" /\ c.kind \notin FileCalls
      /\ c.at = d /\ c.rest = project.dirs[d]
  BY <1>1 DEF Frames, CallOf, DirCalls, FileCalls
<1>3. ListOf(c) = project.dirs[d]
  BY <1>2 DEF ListOf
<1>4. Onward(<<c>>)
  BY DEF DirEffect
<1> HIDE DEF c
<1>5. <<c>> \in Seq(Frames) /\ Len(<<c>>) = 1 /\ Len(<<c>>) \in 0..1 /\ <<c>>[1] = c
  BY <1>2, OneCall
<1>6. QED
  BY <1>2, <1>3, <1>4, <1>5, NewCall DEF c

LEMMA NoNew == <<>> \in Seq(Frames) /\ Len(<<>>) = 0 /\ Len(<<>>) \in 0..1
  BY EmptySeq

LEMMA EffectCases ==
  ASSUME TypeInv, Effect
  PROVE  LeaveEffect \/ \E new \in Seq(Frames) : Len(new) \in 0..1 /\ Onward(new)
<1>1. CASE DeclareEffect \/ PassEffect
  BY <1>1, NoNew DEF DeclareEffect, PassEffect
<1>2. ASSUME NEW kind \in FileCalls, NEW f \in Files, FileEffect(kind, f)
      PROVE  \E new \in Seq(Frames) : Len(new) \in 0..1 /\ Onward(new)
  <2> DEFINE c == CallOf(kind, f, Contents(f))
  <2>1. <<c>> \in Seq(Frames) /\ Len(<<c>>) \in 0..1 /\ Onward(<<c>>)
    BY <1>2, FileOnward
  <2> HIDE DEF c
  <2>2. QED
    BY <2>1
<1>3. ASSUME NEW d \in Dirs, DirEffect(d)
      PROVE  \E new \in Seq(Frames) : Len(new) \in 0..1 /\ Onward(new)
  <2> DEFINE c == CallOf("imported directory", d, project.dirs[d])
  <2>1. <<c>> \in Seq(Frames) /\ Len(<<c>>) \in 0..1 /\ Onward(<<c>>)
    BY <1>3, DirOnward
  <2> HIDE DEF c
  <2>2. QED
    BY <2>1
<1>4. QED
  BY <1>1, <1>2, <1>3 DEF Effect

LEMMA TypeStep == ASSUME TypeInv, CallInv, Goes PROVE TypeInv'
<1>1. project' = project /\ phase' = phase /\ verdict' = verdict /\ phase = "load" /\ Effect
  BY DEF Goes
<1>2. calls' \in Seq(Frames)
  BY <1>1, EffectCases, OnwardFacts, LeaveFacts
<1>3. visited' \subseteq Sources
  BY <1>1 DEF TypeInv, Effect, DeclareEffect, PassEffect, FileEffect, DirEffect, LeaveEffect
<1>4. stack' \in Seq(Files)
  <2>1. stack \in Seq(Files)
    BY DEF TypeInv
  <2>2. CASE stack' = stack
    BY <2>1, <2>2
  <2>3. CASE stack' = Front(stack) /\ stack # <<>>
    BY <2>1, <2>3 DEF Front
  <2>4. CASE stack' = Front(stack) /\ stack = <<>>
    BY <2>1, <2>4 DEF Front
  <2>5. CASE \E f \in Files : stack' = Append(stack, f)
    BY <2>1, <2>5
  <2>6. QED
    BY <1>1, <2>2, <2>3, <2>4, <2>5 DEF Effect, DeclareEffect, PassEffect, FileEffect, DirEffect, LeaveEffect
<1>5. decls' \in Seq([tree : Trees, file : Files, module : {ModuleOf(f) : f \in Sources}])
  <2> DEFINE D == [tree : Trees, file : Files, module : {ModuleOf(f) : f \in Sources}]
  <2>1. decls \in Seq(D)
    BY DEF TypeInv
  <2>2. CASE DeclareEffect
    <3>1. /\ Top \in Frames /\ Top.kind \in FileCalls /\ Item = ListOf(Top)[Taken(Top) + 1]
          /\ Taken(Top) + 1 \in DOMAIN ListOf(Top)
      BY <2>2, NoNew, OnwardFacts DEF DeclareEffect
    <3>2. Top.at \in Sources /\ ListOf(Top) \in Seq(Trees)
      BY <3>1, ListFacts
    <3>3. Item \in Trees
      BY <3>1, <3>2
    <3>4. Origin(Item, Top.at) \in D
      BY <3>2, <3>3 DEF Origin, Sources
    <3>5. decls' = Append(decls, Origin(Item, Top.at))
      BY <2>2 DEF DeclareEffect
    <3> HIDE DEF D
    <3>6. \A o \in D : Append(decls, o) \in Seq(D)
      BY <2>1
    <3>7. QED
      BY <3>4, <3>5, <3>6 DEF D
  <2>3. CASE decls' = decls
    BY <2>1, <2>3
  <2>4. QED
    BY <1>1, <2>2, <2>3 DEF Effect, PassEffect, FileEffect, DirEffect, LeaveEffect
<1>6. QED
  BY <1>1, <1>2, <1>3, <1>4, <1>5, SameProject DEF TypeInv

(* Each call keeps its place.                                                   *)
LEMMA WellPlacedKept ==
  ASSUME project' = project, visited \subseteq visited'
  PROVE  \A i, call : WellPlaced(i, call) => WellPlaced(i, call)'
<1>1. \A call : InOrder(call)' = InOrder(call)
  BY SameProject DEF InOrder
<1>2. QED
  BY <1>1, SameProject DEF WellPlaced

LEMMA OldCallsPlaced ==
  ASSUME TypeInv, CallInv, project' = project, visited \subseteq visited',
         NEW new \in Seq(Frames), Len(new) \in 0..1, Onward(new)
  PROVE  /\ \A i \in 1..Len(calls) : WellPlaced(i, calls[i])'
         /\ \A i, j \in 1..Len(calls) :
              FileCall(i)' /\ FileCall(j)' /\ calls'[i].at = calls'[j].at => i = j
<1> DEFINE n == Len(calls)
<1>1. \A i \in 1..n : WellPlaced(i, calls[i])
  BY OnwardFacts DEF CallInv
<1>2. ASSUME NEW i \in 1..n PROVE WellPlaced(i, calls'[i])
  <2>1. CASE i = n
    <3>1. InOrder(calls'[n]) /\ calls'[n].kind = calls[n].kind /\ calls'[n].at = calls[n].at
      BY OnwardFacts
    <3>2. QED
      BY <1>1, <2>1, <3>1 DEF WellPlaced
  <2>2. CASE i # n
    <3>1. i \in 1..(n - 1)
      BY <2>2, OnwardFacts
    <3>2. calls'[i] = calls[i]
      BY <3>1, OnwardFacts
    <3>3. QED
      BY <1>1, <3>2
  <2>3. QED
    BY <2>1, <2>2
<1>3. \A i \in 1..n : WellPlaced(i, calls[i])'
  BY <1>2, WellPlacedKept
<1>4. ASSUME NEW i \in 1..n, NEW j \in 1..n, FileCall(i)', FileCall(j)', calls'[i].at = calls'[j].at
      PROVE  i = j
  BY <1>4, OnwardFacts DEF CallInv, FileCall
<1>5. QED
  BY <1>3, <1>4

(* Where a file call and a directory call stand.                                *)
LEMMA TopPlace ==
  ASSUME TypeInv, CallInv, ReachInv, calls # <<>>, Top.rest # <<>>
  PROVE  /\ Item = ListOf(Top)[Taken(Top) + 1] /\ Taken(Top) + 1 \in DOMAIN ListOf(Top)
         /\ Top.kind \in FileCalls =>
              /\ Top.at \in visited /\ Top.at \in Reached /\ Top.at \in Sources
              /\ ListOf(Top) = Contents(Top.at)
              /\ NamedBy(Item) \subseteq Uses(Top.at)
              /\ \A d \in Dirs : IsImport(Item) /\ d = Key(ImportPath(Item)) => d \in DirsOf(Top.at)
         /\ Top.kind \in DirCalls => Item \in ToSet(project.dirs[Top.at]) /\ Item \in Files /\ Top.at \in Dirs
<1>1. Len(calls) \in DOMAIN calls /\ Top = calls[Len(calls)] /\ Top \in Frames
  BY CallsFacts
<1>2. WellPlaced(Len(calls), Top)
  BY <1>1 DEF CallInv
<1>3. Item = ListOf(Top)[Taken(Top) + 1] /\ Taken(Top) + 1 \in DOMAIN ListOf(Top)
  BY <1>1, <1>2, TakeNext DEF WellPlaced, Item
<1>4. ASSUME Top.kind \in FileCalls
      PROVE  /\ Top.at \in visited /\ Top.at \in Reached /\ Top.at \in Sources
             /\ ListOf(Top) = Contents(Top.at)
             /\ NamedBy(Item) \subseteq Uses(Top.at)
             /\ \A d \in Dirs : IsImport(Item) /\ d = Key(ImportPath(Item)) => d \in DirsOf(Top.at)
  <2>1. /\ Top.at \in visited /\ Top.at \in Reached /\ Top.at \in Sources
        /\ ListOf(Top) = Contents(Top.at)
    BY <1>1, <1>2, <1>4, ListFacts DEF WellPlaced, ReachInv
  <2>2. NamedBy(Item) \subseteq Uses(Top.at)
    BY <1>3, <2>1, UsesNamed DEF TypeInv
  <2>3. ASSUME NEW d \in Dirs, IsImport(Item), d = Key(ImportPath(Item)) PROVE d \in DirsOf(Top.at)
    <3>1. Item \in ToSet(Contents(Top.at))
      BY <1>3, <2>1 DEF ToSet
    <3>2. ImportPath(Item) \in Imported(Top.at)
      BY <2>1, <2>3, <3>1 DEF Imported, Sources
    <3>3. QED
      BY <2>3, <3>2 DEF DirsOf, Dirs
  <2>4. QED
    BY <2>1, <2>2, <2>3
<1>5. ASSUME Top.kind \in DirCalls PROVE Item \in ToSet(project.dirs[Top.at]) /\ Item \in Files /\ Top.at \in Dirs
  BY <1>1, <1>3, <1>5, ListFacts DEF ToSet
<1>6. QED
  BY <1>3, <1>4, <1>5

LEMMA CallStep == ASSUME TypeInv, CallInv, ReachInv, Goes PROVE CallInv'
<1>0. PICK n : n = Len(calls)
  OBVIOUS
<1>1. project' = project /\ Effect /\ visited \subseteq visited'
  BY DEF Goes, Effect, DeclareEffect, PassEffect, FileEffect, DirEffect, LeaveEffect
<1>2. CASE LeaveEffect
  <2>1. \A i \in 1..(n - 1) : i \in DOMAIN calls /\ calls'[i] = calls[i] /\ DOMAIN calls' = 1..(n - 1)
    BY <1>0, <1>2, LeaveFacts
  <2>2. \A i \in DOMAIN calls' : WellPlaced(i, calls'[i])
    BY <1>0, <1>2, <2>1, LeaveFacts DEF CallInv
  <2>3. \A i \in DOMAIN calls' : WellPlaced(i, calls[i])'
    BY <1>1, <2>2, WellPlacedKept
  <2>4. QED
    BY <1>0, <1>2, <2>1, <2>3, LeaveFacts DEF CallInv, FileCall
<1>3. CASE DeclareEffect \/ PassEffect
  <2>1. Onward(<<>>)
    BY <1>3 DEF DeclareEffect, PassEffect
  <2>2. DOMAIN calls' = 1..n
    <3>1. DOMAIN calls' = 1..(n + 0) /\ n \in Nat
      BY <2>1, <1>0, NoNew, OnwardFacts
    <3>2. QED
      BY <3>1
  <2>3. QED
    BY <1>0, <1>1, <2>1, <2>2, NoNew, OldCallsPlaced DEF CallInv
<1>4. ASSUME NEW kind \in FileCalls, NEW f \in Files, FileEffect(kind, f) PROVE CallInv'
  <2>1. PICK c :
        /\ c.kind = kind /\ c.at = f /\ InOrder(c)
        /\ <<c>> \in Seq(Frames) /\ Len(<<c>>) = 1 /\ Len(<<c>>) \in 0..1 /\ <<c>>[1] = c
        /\ Onward(<<c>>)
    <3> DEFINE e == CallOf(kind, f, Contents(f))
    <3>1. /\ e.kind = kind /\ e.at = f /\ InOrder(e)
          /\ <<e>> \in Seq(Frames) /\ Len(<<e>>) = 1 /\ Len(<<e>>) \in 0..1 /\ <<e>>[1] = e
          /\ Onward(<<e>>)
      BY <1>4, FileOnward
    <3> HIDE DEF e
    <3>2. QED
      BY <3>1
  <2>2. n \in Nat \ {0} /\ DOMAIN calls' = 1..(n + 1) /\ calls'[n + 1] = c
        /\ DOMAIN calls = 1..n /\ \A i \in 1..n : calls'[i].kind = calls[i].kind /\ calls'[i].at = calls[i].at
    BY <1>0, <2>1, OnwardFacts
  <2>3. f \notin visited /\ f \in visited'
    BY <1>4 DEF FileEffect
  <2>4. kind = "member file" => f \in Listed
    <3>1. SUFFICES ASSUME kind = "member file" PROVE f \in Listed
      OBVIOUS
    <3>2. Top.kind = "imported directory" /\ Item = f
      BY <1>4, <3>1 DEF FileEffect
    <3>3. Item \in ToSet(project.dirs[Top.at])
      BY <2>1, <3>2, TopPlace DEF Onward, DirCalls
    <3>4. PICK g \in Reached : Top.at \in DirsOf(g)
      <4>1. Len(calls) \in DOMAIN calls /\ Top = calls[Len(calls)]
        BY <2>1, CallsFacts DEF Onward
      <4>2. QED
        BY <3>2, <4>1 DEF CallInv, WellPlaced
    <3>5. f \in MembersOf(g)
      BY <3>2, <3>3, <3>4 DEF MembersOf
    <3>6. QED
      BY <3>5 DEF Listed
  <2>5. visited' = visited' /\ WellPlaced(n + 1, calls[n + 1])'
    <3>1. InOrder(c)'
      BY <1>1, <2>1, SameProject DEF InOrder
    <3>2. c.kind \in FileCalls /\ c.kind # "root directory" /\ c.kind # "imported directory"
      BY <2>1 DEF FileCalls
    <3>3. Listed' = Listed
      BY <1>1, SameProject
    <3>4. WellPlaced(n + 1, c)'
      BY <2>1, <2>3, <2>4, <3>1, <3>2, <3>3 DEF WellPlaced
    <3>5. QED
      BY <2>2, <3>4
  <2>6. \A i \in 1..n : FileCall(i)' => calls'[i].at # f
    <3>1. \A i \in 1..n : calls[i].kind \in FileCalls => calls[i].at \in visited
      BY <2>2 DEF CallInv, WellPlaced
    <3>2. QED
      BY <2>2, <2>3, <3>1 DEF FileCall
  <2>7. \A i \in 1..(n + 1) : i \in 1..n \/ i = n + 1
    BY <2>2
  <2>8. \A i \in 1..n : WellPlaced(i, calls[i])'
    BY <1>0, <1>1, <2>1, OldCallsPlaced
  <2>9. \A i, j \in 1..n : FileCall(i)' /\ FileCall(j)' /\ calls'[i].at = calls'[j].at => i = j
    BY <1>0, <1>1, <2>1, OldCallsPlaced
  <2>10. \A i \in DOMAIN calls' : WellPlaced(i, calls[i])'
    BY <2>2, <2>5, <2>7, <2>8
  <2>11. \A i, j \in DOMAIN calls' : FileCall(i)' /\ FileCall(j)' /\ calls'[i].at = calls'[j].at => i = j
    BY <2>1, <2>2, <2>6, <2>7, <2>9
  <2>12. QED
    BY <2>10, <2>11 DEF CallInv
<1>5. ASSUME NEW d \in Dirs, DirEffect(d) PROVE CallInv'
  <2>1. PICK c :
        /\ c.kind = "imported directory" /\ c.kind \notin FileCalls /\ c.at = d /\ InOrder(c)
        /\ <<c>> \in Seq(Frames) /\ Len(<<c>>) = 1 /\ Len(<<c>>) \in 0..1 /\ <<c>>[1] = c
        /\ Onward(<<c>>)
    <3> DEFINE e == CallOf("imported directory", d, project.dirs[d])
    <3>1. /\ e.kind = "imported directory" /\ e.kind \notin FileCalls /\ e.at = d /\ InOrder(e)
          /\ <<e>> \in Seq(Frames) /\ Len(<<e>>) = 1 /\ Len(<<e>>) \in 0..1 /\ <<e>>[1] = e
          /\ Onward(<<e>>)
      BY <1>5, DirOnward
    <3> HIDE DEF e
    <3>2. QED
      BY <3>1
  <2>2. n \in Nat \ {0} /\ DOMAIN calls' = 1..(n + 1) /\ calls'[n + 1] = c
    BY <1>0, <2>1, OnwardFacts
  <2>3. \E g \in Reached : d \in DirsOf(g)
    BY <1>5, <2>1, TopPlace DEF DirEffect, Onward
  <2>4. WellPlaced(n + 1, calls[n + 1])'
    <3>1. InOrder(c)'
      BY <1>1, <2>1, SameProject DEF InOrder
    <3>2. Reached' = Reached /\ Dirs' = Dirs /\ \A g : DirsOf(g)' = DirsOf(g)
      BY <1>1, SameProject
    <3>3. WellPlaced(n + 1, c)'
      BY <2>1, <2>3, <3>1, <3>2 DEF WellPlaced
    <3>4. QED
      BY <2>2, <3>3
  <2>5. \A i \in 1..(n + 1) : i \in 1..n \/ i = n + 1
    BY <2>2
  <2>6. ~FileCall(n + 1)'
    BY <2>1, <2>2 DEF FileCall
  <2>7. \A i \in 1..n : WellPlaced(i, calls[i])'
    BY <1>0, <1>1, <2>1, OldCallsPlaced
  <2>8. \A i, j \in 1..n : FileCall(i)' /\ FileCall(j)' /\ calls'[i].at = calls'[j].at => i = j
    BY <1>0, <1>1, <2>1, OldCallsPlaced
  <2>9. \A i \in DOMAIN calls' : WellPlaced(i, calls[i])'
    BY <2>2, <2>4, <2>5, <2>7
  <2>10. \A i, j \in DOMAIN calls' : FileCall(i)' /\ FileCall(j)' /\ calls'[i].at = calls'[j].at => i = j
    BY <2>2, <2>5, <2>6, <2>8
  <2>11. QED
    BY <2>9, <2>10 DEF CallInv
<1>6. QED
  BY <1>1, <1>2, <1>3, <1>4, <1>5 DEF Effect

(* The same, with names for the length of calls and the new call.               *)
Same(n) ==
  /\ n = Len(calls) /\ n \in Nat \ {0} /\ n \in 1..n /\ DOMAIN calls = 1..n /\ Top = calls[n]
  /\ \A i \in 1..n : calls'[i].kind = calls[i].kind /\ calls'[i].at = calls[i].at
  /\ \A i \in 1..(n - 1) : calls'[i] = calls[i]
  /\ Taken(calls'[n]) = Taken(Top) + 1
  /\ ToSet(Top.rest) = ToSet(calls'[n].rest) \cup {Item}
  /\ n \in DOMAIN calls' /\ 1..n \subseteq DOMAIN calls'
One(n, c) ==
  /\ Same(n) /\ DOMAIN calls' = 1..(n + 1) /\ calls'[n + 1] = c
  /\ n + 1 \notin 1..n /\ n + 1 \in 1..(n + 1)
  /\ \A i \in 1..(n + 1) : i \in 1..n \/ i = n + 1
  /\ Taken(c) = 0

LEMMA NonePushed ==
  ASSUME TypeInv, CallInv, Onward(<<>>)
  PROVE  \E n : Same(n) /\ DOMAIN calls' = 1..n
<1>0. PICK n : n = Len(calls)
  OBVIOUS
<1>1. DOMAIN calls' = 1..(n + 0) /\ n \in Nat
  BY <1>0, NoNew, OnwardFacts
<1>2. DOMAIN calls' = 1..n
  BY <1>1
<1>3. Same(n)
  BY <1>0, <1>2, NoNew, OnwardFacts DEF Same
<1>4. QED
  BY <1>2, <1>3

LEMMA OnePushed ==
  ASSUME TypeInv, CallInv, NEW c \in Frames, Taken(c) = 0,
         <<c>> \in Seq(Frames), Len(<<c>>) = 1, Len(<<c>>) \in 0..1, <<c>>[1] = c, Onward(<<c>>)
  PROVE  \E n : One(n, c)
<1>0. PICK n : n = Len(calls)
  OBVIOUS
<1>1. n \in Nat \ {0} /\ DOMAIN calls' = 1..(n + 1) /\ calls'[n + 1] = c
  BY <1>0, OnwardFacts
<1>2. 1..n \subseteq DOMAIN calls'
  BY <1>1
<1>3. Same(n)
  BY <1>0, <1>2, OnwardFacts DEF Same
<1>4. QED
  BY <1>1, <1>3 DEF One

LEMMA FilePushed ==
  ASSUME TypeInv, CallInv, NEW kind \in FileCalls, NEW f, FileEffect(kind, f)
  PROVE  \E n, c : One(n, c) /\ c.kind = kind /\ c.at = f /\ ListOf(c) = Contents(f)
<1> DEFINE e == CallOf(kind, f, Contents(f))
<1>1. /\ e \in Frames /\ e.kind = kind /\ e.at = f /\ Taken(e) = 0 /\ ListOf(e) = Contents(f)
      /\ <<e>> \in Seq(Frames) /\ Len(<<e>>) = 1 /\ Len(<<e>>) \in 0..1 /\ <<e>>[1] = e
      /\ Onward(<<e>>)
  BY FileOnward
<1> HIDE DEF e
<1>2. QED
  BY <1>1, OnePushed

LEMMA DirPushed ==
  ASSUME TypeInv, CallInv, NEW d, DirEffect(d)
  PROVE  \E n, c : /\ One(n, c) /\ c.kind = "imported directory" /\ c.kind \notin FileCalls /\ c.kind \in DirCalls
                   /\ c.at = d /\ c.rest = project.dirs[d]
<1> DEFINE e == CallOf("imported directory", d, project.dirs[d])
<1>1. /\ e \in Frames /\ e.kind = "imported directory" /\ e.kind \notin FileCalls
      /\ e.at = d /\ Taken(e) = 0 /\ e.rest = project.dirs[d]
      /\ <<e>> \in Seq(Frames) /\ Len(<<e>>) = 1 /\ Len(<<e>>) \in 0..1 /\ <<e>>[1] = e
      /\ Onward(<<e>>)
  BY DirOnward
<1>2. "imported directory" \in DirCalls
  BY DEF DirCalls
<1> HIDE DEF e
<1>3. QED
  BY <1>1, <1>2, OnePushed

--------------------------------------------------------------------------------
(* The stack of the code.                                                       *)

StackMap(p) ==
  /\ p \in [DOMAIN stack -> DOMAIN calls]
  /\ \A k \in DOMAIN stack : Pushed(p[k]) /\ stack[k] = calls[p[k]].at
  /\ \A k, m \in DOMAIN stack : k < m => p[k] < p[m]
  /\ \A i \in DOMAIN calls : Pushed(i) => \E k \in DOMAIN stack : p[k] = i

LEMMA StackMapped == StackInv <=> \E p : StackMap(p)
  BY DEF StackInv, StackMap

LEMMA StackFiles ==
  ASSUME TypeInv, StackInv, NEW f
  PROVE  f \in ToSet(stack) <=> \E i \in DOMAIN calls : Pushed(i) /\ calls[i].at = f
<1>1. PICK p : StackMap(p)
  BY StackMapped
<1>2. ASSUME f \in ToSet(stack) PROVE \E i \in DOMAIN calls : Pushed(i) /\ calls[i].at = f
  BY <1>1, <1>2 DEF StackMap, ToSet
<1>3. ASSUME NEW i \in DOMAIN calls, Pushed(i), calls[i].at = f PROVE f \in ToSet(stack)
  BY <1>1, <1>3 DEF StackMap, ToSet
<1>4. QED
  BY <1>2, <1>3

LEMMA StackStep == ASSUME TypeInv, CallInv, StackInv, Goes PROVE StackInv'
<1>1. PICK p : StackMap(p)
  BY StackMapped
<1>2. PICK L : L = Len(stack)
  OBVIOUS
<1>3. L \in Nat /\ DOMAIN stack = 1..L /\ stack \in Seq(Files) /\ Effect
  BY <1>2 DEF TypeInv, Goes
<1>4. PICK n : n = Len(calls) /\ n \in Nat /\ DOMAIN calls = 1..n
  BY CallsFacts
<1>5. ASSUME stack' = stack, 1..n \subseteq DOMAIN calls',
             \A i \in 1..n : calls'[i].kind = calls[i].kind /\ calls'[i].at = calls[i].at,
             \A i \in DOMAIN calls' : i \in 1..n \/ ~Pushed(i)'
      PROVE  StackInv'
  <2>1. StackMap(p)'
    BY <1>1, <1>4, <1>5 DEF StackMap, Pushed
  <2>2. QED
    BY <2>1 DEF StackMap, StackInv
<1>6. CASE DeclareEffect \/ PassEffect
  <2>1. stack' = stack /\ \E m : Same(m) /\ DOMAIN calls' = 1..m
    BY <1>6, NonePushed DEF DeclareEffect, PassEffect
  <2>2. Same(n) /\ DOMAIN calls' = 1..n
    BY <1>4, <2>1 DEF Same
  <2>3. QED
    BY <1>5, <2>1, <2>2 DEF Same
<1>7. ASSUME NEW d \in Dirs, DirEffect(d) PROVE StackInv'
  <2>0. PICK m, c : One(m, c) /\ c.kind = "imported directory"
    BY <1>7, DirPushed
  <2>1. One(n, c) /\ c.kind = "imported directory"
    BY <1>4, <2>0 DEF One, Same
  <2>2. ~Pushed(n + 1)'
    BY <2>1 DEF One, Pushed
  <2>3. stack' = stack
    BY <1>7 DEF DirEffect
  <2>4. QED
    BY <1>5, <2>1, <2>2, <2>3 DEF One, Same
<1>8. ASSUME NEW kind \in FileCalls, NEW f \in Files, FileEffect(kind, f) PROVE StackInv'
  <2>1. PICK c : One(n, c) /\ c.kind = kind /\ c.at = f
    BY <1>4, <1>8, FilePushed DEF One, Same
  <2>2. CASE kind = "member file"
    <3>1. ~Pushed(n + 1)'
      BY <2>1, <2>2 DEF One, Pushed
    <3>2. stack' = stack
      BY <1>8, <2>2 DEF FileEffect
    <3>3. QED
      BY <1>5, <2>1, <3>1, <3>2 DEF One, Same
  <2>3. CASE kind # "member file"
    <3>1. stack' = Append(stack, f) /\ kind \in {"root file", "imported file"}
      BY <1>8, <2>3 DEF FileEffect, FileCalls
    <3>2. /\ DOMAIN stack' = 1..(L + 1) /\ stack'[L + 1] = f
          /\ \A k \in 1..L : stack'[k] = stack[k]
      <4>1. /\ Len(stack') = L + 1 /\ stack' \in Seq(Files) /\ stack'[L + 1] = f
            /\ \A k \in 1..L : stack'[k] = stack[k]
        <5>1. \A s \in Seq(Files) :
                /\ Append(s, f) \in Seq(Files) /\ Len(Append(s, f)) = Len(s) + 1
                /\ Append(s, f)[Len(s) + 1] = f
                /\ \A k \in 1..Len(s) : Append(s, f)[k] = s[k]
          BY AppendProperties
        <5>2. QED
          BY <1>2, <1>3, <3>1, <5>1
      <4>2. QED
        BY <4>1
    <3>3. PICK q : q = [k \in 1..(L + 1) |-> IF k = L + 1 THEN n + 1 ELSE p[k]]
      OBVIOUS
    <3>4. q[L + 1] = n + 1 /\ (\A k \in 1..L : q[k] = p[k] /\ p[k] \in 1..n) /\ L + 1 \in 1..(L + 1)
      BY <1>1, <1>3, <1>4, <3>3 DEF StackMap
    <3>5. \A k \in 1..(L + 1) : k \in 1..L \/ k = L + 1
      BY <1>3
    <3>6. DOMAIN calls' = 1..(n + 1) /\ 1..n \subseteq 1..(n + 1) /\ n + 1 \in 1..(n + 1)
      BY <1>4, <2>1 DEF One, Same
    <3>7. q \in [DOMAIN stack' -> DOMAIN calls']
      <4>1. \A k \in 1..(L + 1) : q[k] \in 1..(n + 1)
        BY <3>4, <3>5, <3>6
      <4>2. QED
        BY <3>2, <3>3, <3>6, <4>1
    <3>8. Pushed(n + 1)' /\ calls'[n + 1].at = f /\ \A i \in 1..n : Pushed(i)' = Pushed(i) /\ calls'[i].at = calls[i].at
      BY <2>1, <3>1 DEF One, Same, Pushed
    <3>9. \A k \in DOMAIN stack' : Pushed(q[k])' /\ stack'[k] = calls'[q[k]].at
      <4>1. ASSUME NEW k \in 1..L PROVE Pushed(q[k])' /\ stack'[k] = calls'[q[k]].at
        BY <1>1, <1>3, <3>2, <3>4, <3>8 DEF StackMap
      <4>2. QED
        BY <3>2, <3>4, <3>5, <3>8, <4>1
    <3>10. \A k, m \in DOMAIN stack' : k < m => q[k] < q[m]
      <4>1. ASSUME NEW k \in 1..(L + 1), NEW m \in 1..(L + 1), k < m PROVE q[k] < q[m]
        <5>1. k \in 1..L
          BY <1>3, <4>1
        <5>2. CASE m = L + 1
          BY <1>4, <3>4, <5>1, <5>2
        <5>3. CASE m \in 1..L
          BY <1>1, <1>3, <3>4, <4>1, <5>1, <5>3 DEF StackMap
        <5>4. QED
          BY <3>5, <5>2, <5>3
      <4>2. QED
        BY <3>2, <4>1
    <3>11. \A i \in DOMAIN calls' : Pushed(i)' => \E k \in DOMAIN stack' : q[k] = i
      <4>1. ASSUME NEW i \in 1..n, Pushed(i)' PROVE \E k \in 1..(L + 1) : q[k] = i
        <5>1. PICK k \in 1..L : p[k] = i
          BY <1>1, <1>3, <1>4, <3>8, <4>1 DEF StackMap
        <5>2. QED
          BY <1>3, <3>4, <5>1
      <4>2. QED
        BY <2>1, <3>2, <3>4, <3>6, <4>1 DEF One
    <3>12. StackMap(q)'
      BY <3>7, <3>9, <3>10, <3>11 DEF StackMap
    <3>13. QED
      BY <3>12 DEF StackMap, StackInv
  <2>4. QED
    BY <2>2, <2>3
<1>9. CASE LeaveEffect
  <2>1. /\ n \in Nat \ {0} /\ n \in 1..n /\ DOMAIN calls' = 1..(n - 1)
        /\ \A i \in 1..(n - 1) : i \in 1..n /\ calls'[i] = calls[i]
    BY <1>4, <1>9, LeaveFacts
  <2>2. CASE ~Pushed(n)
    <3>1. stack' = stack
      BY <1>4, <1>9, <2>2 DEF LeaveEffect
    <3>2. \A k \in 1..L : p[k] \in 1..n /\ p[k] # n
      BY <1>1, <1>3, <1>4, <2>2 DEF StackMap
    <3>3. \A k \in 1..L : p[k] \in 1..(n - 1)
      BY <2>1, <3>2
    <3>4. p \in [DOMAIN stack' -> DOMAIN calls']
      BY <1>1, <1>3, <2>1, <3>1, <3>3 DEF StackMap
    <3>5. StackMap(p)'
      BY <1>1, <1>3, <1>4, <2>1, <3>1, <3>3, <3>4 DEF StackMap, Pushed
    <3>6. QED
      BY <3>5 DEF StackMap, StackInv
  <2>3. CASE Pushed(n)
    <3>1. stack' = Front(stack)
      BY <1>4, <1>9, <2>3 DEF LeaveEffect
    <3>2. PICK t \in 1..L : p[t] = n
      BY <1>1, <1>3, <1>4, <2>1, <2>3 DEF StackMap
    <3>3. t = L
      <4>1. SUFFICES ASSUME t < L PROVE FALSE
        BY <1>3, <3>2
      <4>2. L \in 1..L
        BY <1>3, <3>2
      <4>3. p[t] < p[L] /\ p[L] \in 1..n
        BY <1>1, <1>3, <1>4, <3>2, <4>1, <4>2 DEF StackMap
      <4>4. QED
        BY <1>4, <3>2, <4>3
    <3>4. L \in Nat \ {0} /\ \A k \in 1..(L - 1) : k \in 1..L /\ k < L
      BY <1>3, <3>2
    <3>5. DOMAIN stack' = 1..(L - 1) /\ \A k \in 1..(L - 1) : stack'[k] = stack[k]
      BY <1>2, <1>3, <3>1, <3>4 DEF Front
    <3>6. PICK q : q = [k \in 1..(L - 1) |-> p[k]]
      OBVIOUS
    <3>7. \A k \in 1..(L - 1) : q[k] = p[k] /\ p[k] \in 1..n /\ p[k] < n
      <4>1. TAKE k \in 1..(L - 1)
      <4>2. q[k] = p[k] /\ k \in 1..L /\ L \in 1..L /\ k < L
        BY <3>4, <3>6
      <4>3. p[k] \in 1..n /\ p[k] < p[L]
        BY <1>1, <1>3, <1>4, <4>2 DEF StackMap
      <4>4. QED
        BY <3>2, <3>3, <4>2, <4>3
    <3>8. \A k \in 1..(L - 1) : p[k] \in 1..(n - 1)
      BY <2>1, <3>7
    <3>9. q \in [DOMAIN stack' -> DOMAIN calls']
      BY <2>1, <3>5, <3>6, <3>7, <3>8
    <3>10. \A i \in 1..(n - 1) : Pushed(i)' = Pushed(i) /\ calls'[i].at = calls[i].at
      BY <2>1 DEF Pushed
    <3>11. \A k \in DOMAIN stack' : Pushed(q[k])' /\ stack'[k] = calls'[q[k]].at
      BY <1>1, <1>3, <3>4, <3>5, <3>7, <3>8, <3>10 DEF StackMap
    <3>12. \A k, m \in DOMAIN stack' : k < m => q[k] < q[m]
      BY <1>1, <1>3, <3>4, <3>5, <3>7 DEF StackMap
    <3>13. ASSUME NEW i \in DOMAIN calls', Pushed(i)' PROVE \E k \in DOMAIN stack' : q[k] = i
      <4>1. i \in 1..(n - 1) /\ Pushed(i) /\ i \in 1..n
        BY <2>1, <3>10, <3>13
      <4>2. PICK k \in 1..L : p[k] = i
        BY <1>1, <1>3, <1>4, <4>1 DEF StackMap
      <4>3. k # L
        BY <2>1, <3>2, <3>3, <4>1, <4>2
      <4>4. k \in 1..(L - 1)
        BY <3>4, <4>2, <4>3
      <4>5. QED
        BY <3>5, <3>7, <4>2, <4>4
    <3>14. StackMap(q)'
      BY <3>9, <3>11, <3>12, <3>13 DEF StackMap
    <3>15. QED
      BY <3>14 DEF StackMap, StackInv
  <2>4. QED
    BY <2>2, <2>3
<1>10. QED
  BY <1>3, <1>6, <1>7, <1>8, <1>9 DEF Effect

--------------------------------------------------------------------------------
(* What leads to what, and what is reached.                                     *)

(* What the top call takes next is reached, and every file being expanded leads *)
(* there.                                                                       *)
LEMMA TopOffers ==
  ASSUME TypeInv, CallInv, ReachInv, ChainInv, calls # <<>>, Top.rest # <<>>
  PROVE  LET next == IF Top.kind \in FileCalls THEN NamedBy(Item) ELSE {Item} IN
         /\ next \subseteq Reached
         /\ \A i \in DOMAIN calls : FileCall(i) => \A m \in next : Leads(calls[i].at, m)
<1>1. PICK n : n = Len(calls) /\ n \in Nat /\ n \in 1..n /\ DOMAIN calls = 1..n /\ Top = calls[n] /\ Top \in Frames
  BY CallsFacts
<1>2. CASE Top.kind \in FileCalls
  <2>1. Top.at \in Reached /\ NamedBy(Item) \subseteq Uses(Top.at)
    BY <1>2, TopPlace
  <2>2. ASSUME NEW i \in DOMAIN calls, FileCall(i), NEW m \in NamedBy(Item) PROVE Leads(calls[i].at, m)
    <3>1. m \in Uses(Top.at)
      BY <2>1
    <3>2. CASE i = n
      BY <1>1, <3>1, <3>2, LeadsOn
    <3>3. CASE i # n
      <4>1. i < n
        BY <1>1, <2>2, <3>3
      <4>2. Leads(calls[i].at, Top.at)
        BY <1>1, <1>2, <2>2, <4>1 DEF ChainInv, FileCall
      <4>3. QED
        BY <3>1, <4>2, LeadsOn
    <3>4. QED
      BY <3>2, <3>3
  <2>3. QED
    BY <1>2, <2>1, <2>2, ReachedFacts
<1>3. CASE Top.kind \in DirCalls
  <2>1. /\ Top.kind \notin FileCalls /\ Item \in ToSet(project.dirs[Top.at]) /\ Item \in Files /\ Top.at \in Dirs
        /\ WellPlaced(n, Top)
    BY <1>1, <1>3, TopPlace, ListFacts DEF CallInv
  <2>2. Item \in Reached
    <3>1. CASE Top.kind = "root directory"
      <4>1. Given = ToSet(project.dirs[Top.at])
        BY <2>1, <3>1 DEF WellPlaced, Given
      <4>2. Given \subseteq Files
        BY <2>1, <4>1, ProjectFacts DEF TypeInv, ToSet
      <4>3. QED
        BY <2>1, <4>1, <4>2, ReachedFacts
    <3>2. CASE Top.kind = "imported directory"
      <4>1. PICK g \in Reached : Top.at \in DirsOf(g)
        BY <2>1, <3>2 DEF WellPlaced
      <4>2. Item \in MembersOf(g)
        BY <2>1, <4>1 DEF MembersOf
      <4>3. Item \in Uses(g)
        BY <2>1, <4>2 DEF Uses
      <4>4. QED
        BY <4>1, <4>3, ReachedFacts
    <3>3. QED
      BY <1>3, <3>1, <3>2 DEF DirCalls
  <2>3. ASSUME NEW i \in DOMAIN calls, FileCall(i) PROVE Leads(calls[i].at, Item)
    <3>1. i # n
      BY <1>1, <2>1, <2>3 DEF FileCall
    <3>2. i < n
      BY <1>1, <2>3, <3>1
    <3>3. QED
      BY <1>1, <2>1, <2>3, <3>2 DEF ChainInv, FileCall
  <2>4. QED
    BY <2>1, <2>2, <2>3
<1>4. QED
  BY <1>1, <1>2, <1>3, ListFacts

LEMMA FileOffered ==
  ASSUME TypeInv, CallInv, ReachInv, ChainInv, NEW kind, NEW f, FileEffect(kind, f)
  PROVE  f \in Reached /\ \A i \in DOMAIN calls : FileCall(i) => Leads(calls[i].at, f)
<1>1. calls # <<>> /\ Top.rest # <<>>
  BY DEF FileEffect, Onward
<1>2. f \in IF Top.kind \in FileCalls THEN NamedBy(Item) ELSE {Item}
  BY DEF FileEffect, FileCalls
<1>3. QED
  BY <1>1, <1>2, TopOffers

LEMMA ReachStep == ASSUME TypeInv, CallInv, ReachInv, ChainInv, Goes PROVE ReachInv'
<1>1. Reached' = Reached
  BY SameProject DEF Goes
<1>2. CASE visited' = visited
  BY <1>1, <1>2 DEF ReachInv
<1>3. ASSUME NEW kind \in FileCalls, NEW f \in Files, FileEffect(kind, f) PROVE ReachInv'
  BY <1>1, <1>3, FileOffered DEF ReachInv, FileEffect
<1>4. QED
  BY <1>2, <1>3 DEF Goes, Effect, DeclareEffect, PassEffect, DirEffect, LeaveEffect

(* Two calls of the chain.                                                      *)
Linked(i, j) ==
  FileCall(i) =>
    IF FileCall(j) THEN Leads(calls[i].at, calls[j].at)
    ELSE \A m \in ToSet(project.dirs[calls[j].at]) : Leads(calls[i].at, m)

LEMMA LinkKept ==
  ASSUME project' = project, NEW i, NEW j,
         i \in DOMAIN calls => i \in DOMAIN calls', j \in DOMAIN calls => j \in DOMAIN calls',
         i \in DOMAIN calls, j \in DOMAIN calls,
         calls'[i].kind = calls[i].kind, calls'[i].at = calls[i].at,
         calls'[j].kind = calls[j].kind, calls'[j].at = calls[j].at,
         Linked(i, j)
  PROVE  Linked(i, j)'
  BY SameProject DEF Linked, FileCall

LEMMA ChainStep == ASSUME TypeInv, CallInv, ReachInv, ChainInv, Goes PROVE ChainInv'
<1>1. project' = project /\ Effect
  BY DEF Goes
<1>2. PICK n : n = Len(calls) /\ n \in Nat /\ DOMAIN calls = 1..n
  BY CallsFacts
<1>3. \A i, j \in 1..n : i < j => Linked(i, j)
  BY <1>2 DEF ChainInv, Linked
<1>4. SUFFICES \A i, j \in DOMAIN calls' : i < j => Linked(i, j)'
  BY DEF ChainInv, Linked
<1>5. ASSUME 1..n \subseteq DOMAIN calls',
             \A i \in 1..n : calls'[i].kind = calls[i].kind /\ calls'[i].at = calls[i].at
      PROVE  \A i, j \in 1..n : i < j => Linked(i, j)'
  BY <1>1, <1>2, <1>3, <1>5, LinkKept
<1>6. CASE DeclareEffect \/ PassEffect
  <2>1. Same(n) /\ DOMAIN calls' = 1..n
    BY <1>2, <1>6, NonePushed DEF DeclareEffect, PassEffect, Same
  <2>2. QED
    BY <1>5, <2>1 DEF Same
<1>7. ASSUME NEW c, One(n, c), \A i \in 1..n : Linked(i, n + 1)'
      PROVE  \A i, j \in DOMAIN calls' : i < j => Linked(i, j)'
  <2>1. /\ DOMAIN calls' = 1..(n + 1) /\ \A i \in 1..(n + 1) : i \in 1..n \/ i = n + 1
        /\ \A i, j \in 1..n : i < j => Linked(i, j)'
    BY <1>5, <1>7 DEF One, Same
  <2>2. \A i \in 1..(n + 1) : ~(n + 1 < i)
    BY <1>2
  <2>3. QED
    BY <1>7, <2>1, <2>2
<1>8. ASSUME NEW kind \in FileCalls, NEW f \in Files, FileEffect(kind, f)
      PROVE  \A i, j \in DOMAIN calls' : i < j => Linked(i, j)'
  <2>0. PICK m, c : One(m, c) /\ c.kind = kind /\ c.at = f
    BY <1>8, FilePushed
  <2>1. One(n, c) /\ c.kind = kind /\ c.at = f
    BY <1>2, <2>0 DEF One, Same
  <2>2. ASSUME NEW i \in 1..n PROVE Linked(i, n + 1)'
    <3>1. FileCall(i)' => FileCall(i) /\ calls'[i].at = calls[i].at
      BY <2>1 DEF One, Same, FileCall
    <3>2. FileCall(n + 1)' /\ calls'[n + 1].at = f
      BY <2>1, <1>8 DEF One, FileCall
    <3>3. FileCall(i) => Leads(calls[i].at, f)
      BY <1>2, <1>8, FileOffered
    <3>4. \A g, h : Leads(g, h)' = Leads(g, h)
      BY <1>1, SameProject
    <3>5. QED
      BY <3>1, <3>2, <3>3, <3>4 DEF Linked
  <2>3. QED
    BY <1>7, <2>1, <2>2
<1>9. ASSUME NEW d \in Dirs, DirEffect(d)
      PROVE  \A i, j \in DOMAIN calls' : i < j => Linked(i, j)'
  <2>0. PICK m, c : One(m, c) /\ c.kind \notin FileCalls /\ c.at = d
    BY <1>9, DirPushed
  <2>1. One(n, c) /\ c.kind \notin FileCalls /\ c.at = d
    BY <1>2, <2>0 DEF One, Same
  <2>2. ASSUME NEW i \in 1..n PROVE Linked(i, n + 1)'
    <3>1. FileCall(i)' => FileCall(i) /\ calls'[i].at = calls[i].at
      BY <2>1 DEF One, Same, FileCall
    <3>2. ~FileCall(n + 1)' /\ calls'[n + 1].at = d
      BY <2>1 DEF One, FileCall
    <3>3. FileCall(i) => \A x \in ToSet(project.dirs[d]) : Leads(calls[i].at, x)
      BY <1>2, <1>9, TopOffers DEF DirEffect, Onward
    <3>4. \A g, h : Leads(g, h)' = Leads(g, h)
      BY <1>1, SameProject
    <3>5. QED
      BY <1>1, <3>1, <3>2, <3>3, <3>4 DEF Linked
  <2>3. QED
    BY <1>7, <2>1, <2>2
<1>10. CASE LeaveEffect
  <2>1. DOMAIN calls' = 1..(n - 1) /\ \A i \in 1..(n - 1) : i \in 1..n /\ calls'[i] = calls[i]
    BY <1>2, <1>10, LeaveFacts
  <2>2. QED
    BY <1>1, <1>2, <1>3, <2>1, LinkKept
<1>11. QED
  BY <1>1, <1>6, <1>8, <1>9, <1>10 DEF Effect

(* A cycle is told of a file that leads to itself.                              *)
LEMMA CycleStep ==
  ASSUME TypeInv, CallInv, StackInv, ReachInv, ChainInv, CyclesTold, Goes
  PROVE  CyclesTold'
<1>1. project' = project /\ Effect /\ Reached' = Reached
  BY SameProject DEF Goes
<1>2. \A f : OnCycle(Uses, f) => OnCycle(Uses, f)'
  BY <1>1, SameProject DEF OnCycle, Closed
<1>3. CASE "E_CIRCULAR_IMPORT" \in diags' => "E_CIRCULAR_IMPORT" \in diags
  BY <1>1, <1>2, <1>3 DEF CyclesTold
<1>4. CASE /\ PassEffect /\ Top.kind \in FileCalls
           /\ \E f \in ToSet(stack) : f \in NamedBy(Item)
  <2>1. PICK f \in ToSet(stack) : f \in NamedBy(Item)
    BY <1>4
  <2>2. PICK i \in DOMAIN calls : Pushed(i) /\ calls[i].at = f
    BY <2>1, StackFiles
  <2>3. FileCall(i)
    BY <2>2 DEF Pushed, FileCall, FileCalls
  <2>4. calls # <<>> /\ Top.rest # <<>>
    BY <1>4 DEF PassEffect, Onward
  <2>5. f \in Reached /\ Leads(f, f)
    BY <1>4, <2>1, <2>2, <2>3, <2>4, TopOffers
  <2>6. OnCycle(Uses, f)
    BY <2>5, LeadsOn
  <2>7. QED
    BY <1>1, <1>2, <2>5, <2>6 DEF CyclesTold
<1>5. QED
  BY <1>1, <1>3, <1>4 DEF Effect, DeclareEffect, PassEffect, FileEffect, DirEffect, LeaveEffect

--------------------------------------------------------------------------------
(* What is merged.                                                              *)

(* Places in a set of numbers that a greater one joins.                         *)
LEMMA PlaceFacts ==
  ASSUME NEW n \in Nat, NEW S, S \subseteq 1..n
  PROVE  /\ Cardinality(S) \in Nat
         /\ Cardinality(S \cup {n + 1}) = Cardinality(S) + 1
         /\ Place(n + 1, S \cup {n + 1}) = Cardinality(S) + 1
         /\ \A i \in S : /\ Place(i, S \cup {n + 1}) = Place(i, S)
                         /\ Place(i, S) \in Nat /\ Place(i, S) <= Cardinality(S)
<1>0. IsFiniteSet(1..n)
  BY FS_Interval
<1>1. IsFiniteSet(S) /\ Cardinality(S) \in Nat
  <2>1. IsFiniteSet(S)
    BY <1>0, FS_Subset
  <2>2. QED
    BY <2>1, FS_CardinalityType
<1>2. Cardinality(S \cup {n + 1}) = Cardinality(S) + 1
  <2>1. n + 1 \notin 1..n
    OBVIOUS
  <2>2. QED
    BY <1>1, <2>1, n + 1 \notin S, FS_AddElement
<1>3. Place(n + 1, S \cup {n + 1}) = Cardinality(S) + 1
  <2>0. \A j \in S : j \in 1..n
    OBVIOUS
  <2>1. \A j \in S \cup {n + 1} : j <= n + 1
    BY <2>0
  <2>2. QED
    BY <1>2, <2>1 DEF Place
<1>4. ASSUME NEW i \in S
      PROVE  /\ Place(i, S \cup {n + 1}) = Place(i, S)
             /\ Place(i, S) \in Nat /\ Place(i, S) <= Cardinality(S)
  <2>1. {j \in S \cup {n + 1} : j <= i} = {j \in S : j <= i}
    BY i \in 1..n
  <2>2. {j \in S : j <= i} \subseteq S
    OBVIOUS
  <2>3. QED
    BY <1>1, <2>1, <2>2, FS_Subset, FS_CardinalityType DEF Place
<1>5. QED
  BY <1>1, <1>2, <1>3, <1>4

LEMMA OwnFacts ==
  ASSUME TypeInv, NEW f \in Sources
  PROVE  /\ OwnUpTo(f, 0) = {} /\ OwnUpTo(f, Len(Contents(f))) = OwnOf(f)
         /\ \A t \in Nat : t + 1 \in DOMAIN Contents(f) =>
              /\ OwnUpTo(f, t) \subseteq 1..t
              /\ OwnUpTo(f, t + 1) = IF IsImport(Contents(f)[t + 1]) THEN OwnUpTo(f, t)
                                     ELSE OwnUpTo(f, t) \cup {t + 1}
<1>1. PICK m : m = Len(Contents(f)) /\ m \in Nat /\ DOMAIN Contents(f) = 1..m
  BY ProjectFacts DEF TypeInv
<1>2. OwnOf(f) \subseteq 1..m /\ \A j \in 1..m : j \in OwnOf(f) <=> ~IsImport(Contents(f)[j])
  BY <1>1 DEF OwnOf
<1>3. OwnUpTo(f, 0) = {} /\ OwnUpTo(f, m) = OwnOf(f)
  BY <1>1, <1>2 DEF OwnUpTo
<1>4. ASSUME NEW t \in Nat, t + 1 \in 1..m
      PROVE  /\ OwnUpTo(f, t) \subseteq 1..t
             /\ OwnUpTo(f, t + 1) = IF IsImport(Contents(f)[t + 1]) THEN OwnUpTo(f, t)
                                    ELSE OwnUpTo(f, t) \cup {t + 1}
  BY <1>1, <1>2, <1>4 DEF OwnUpTo
<1>5. QED
  BY <1>1, <1>3, <1>4

LEMMA FromFileFacts ==
  ASSUME TypeInv
  PROVE  /\ Len(decls) \in Nat /\ DOMAIN decls = 1..Len(decls)
         /\ \A f : FromFile(f) \subseteq 1..Len(decls)
  BY DEF TypeInv, FromFile

(* A declaration joins those of its file and leaves those of the others.        *)
LEMMA DeclsGrow ==
  ASSUME TypeInv, NEW o \in [tree : Trees, file : Files, module : {ModuleOf(f) : f \in Sources}],
         decls' = Append(decls, o), NEW n, n = Len(decls)
  PROVE  /\ FromFile(o.file)' = FromFile(o.file) \cup {n + 1}
         /\ \A f : f # o.file => FromFile(f)' = FromFile(f)
         /\ \A i \in 1..n : decls'[i] = decls[i]
         /\ decls'[n + 1] = o
<1> DEFINE D == [tree : Trees, file : Files, module : {ModuleOf(f) : f \in Sources}]
<1>1. decls \in Seq(D) /\ n \in Nat /\ DOMAIN decls = 1..n
  BY FromFileFacts DEF TypeInv
<1> HIDE DEF D
<1>2. o \in D
  BY DEF D
<1>3. \A s \in Seq(D), e \in D :
        /\ Append(s, e) \in Seq(D) /\ Len(Append(s, e)) = Len(s) + 1
        /\ Append(s, e)[Len(s) + 1] = e
        /\ \A k \in 1..Len(s) : Append(s, e)[k] = s[k]
  BY AppendProperties
<1>4. /\ Len(decls') = n + 1 /\ decls' \in Seq(D) /\ decls'[n + 1] = o
      /\ \A i \in 1..n : decls'[i] = decls[i]
  BY <1>1, <1>2, <1>3
<1>5. DOMAIN decls' = 1..(n + 1)
  BY <1>1, <1>4
<1>6. \A i \in 1..(n + 1) : i \in 1..n \/ i = n + 1
  BY <1>1
<1>7. n + 1 \in 1..(n + 1) /\ 1..n \subseteq 1..(n + 1)
  BY <1>1
<1>8. \A f : FromFile(f)' = {i \in 1..n : decls[i].file = f} \cup IF o.file = f THEN {n + 1} ELSE {}
  BY <1>4, <1>5, <1>6, <1>7 DEF FromFile
<1>9. \A f : FromFile(f) = {i \in 1..n : decls[i].file = f}
  BY <1>1 DEF FromFile
<1>10. QED
  BY <1>4, <1>8, <1>9

LEMMA MergedGrows ==
  ASSUME TypeInv, project' = project, NEW f \in Sources, NEW t \in Nat, NEW own, own \subseteq 1..t,
         t + 1 \in DOMAIN Contents(f), Merged(f, own),
         decls' = Append(decls, Origin(Contents(f)[t + 1], f))
  PROVE  Merged(f, own \cup {t + 1})'
<1>1. PICK n : n = Len(decls) /\ n \in Nat /\ FromFile(f) \subseteq 1..n
  BY FromFileFacts
<1>2. PICK o : /\ o = Origin(Contents(f)[t + 1], f) /\ o.file = f
               /\ o \in [tree : Trees, file : Files, module : {ModuleOf(g) : g \in Sources}]
  <2>1. Contents(f)[t + 1] \in Trees
    BY ProjectFacts DEF TypeInv
  <2>2. QED
    BY <2>1 DEF Origin, Sources
<1>3. PICK F : F = FromFile(f)
  OBVIOUS
<1>4. /\ FromFile(f)' = F \cup {n + 1}
      /\ \A i \in 1..n : decls'[i] = decls[i]
      /\ decls'[n + 1] = o
  BY <1>1, <1>2, <1>3, DeclsGrow
<1>5. /\ Cardinality(F) \in Nat
      /\ Cardinality(F \cup {n + 1}) = Cardinality(F) + 1
      /\ Place(n + 1, F \cup {n + 1}) = Cardinality(F) + 1
      /\ \A i \in F : /\ Place(i, F \cup {n + 1}) = Place(i, F)
                      /\ Place(i, F) \in Nat /\ Place(i, F) <= Cardinality(F)
  BY <1>1, <1>3, PlaceFacts
<1>6. /\ Cardinality(own \cup {t + 1}) = Cardinality(own) + 1
      /\ Place(t + 1, own \cup {t + 1}) = Cardinality(own) + 1
      /\ \A j \in own : /\ Place(j, own \cup {t + 1}) = Place(j, own)
                        /\ Place(j, own) \in Nat /\ Place(j, own) <= Cardinality(own)
  BY PlaceFacts
<1>7. /\ Cardinality(F) = Cardinality(own)
      /\ \A i \in F, j \in own : Place(i, F) = Place(j, own) => decls[i] = Origin(Contents(f)[j], f)
  BY <1>3 DEF Merged
<1>8. ASSUME NEW i \in F \cup {n + 1}, NEW j \in own \cup {t + 1},
             Place(i, F \cup {n + 1}) = Place(j, own \cup {t + 1})
      PROVE  decls'[i] = Origin(Contents(f)[j], f)
  <2>1. CASE i = n + 1 /\ j = t + 1
    BY <1>2, <1>4, <2>1
  <2>2. CASE i = n + 1 /\ j \in own
    BY <1>5, <1>6, <1>7, <1>8, <2>2
  <2>3. CASE i \in F /\ j = t + 1
    BY <1>5, <1>6, <1>7, <1>8, <2>3
  <2>4. CASE i \in F /\ j \in own
    <3>1. Place(i, F) = Place(j, own)
      BY <1>5, <1>6, <1>8, <2>4
    <3>2. i \in 1..n
      BY <1>1, <1>3, <2>4
    <3>3. QED
      BY <1>4, <1>7, <2>4, <3>1, <3>2
  <2>5. QED
    BY <2>1, <2>2, <2>3, <2>4
<1>9. \A d : Origin(d, f)' = Origin(d, f)
  BY SameProject DEF Origin
<1>10. Contents(f)' = Contents(f)
  BY SameProject
<1>11. PICK now : now = own \cup {t + 1}
  OBVIOUS
<1>12. Cardinality(F \cup {n + 1}) = Cardinality(now)
  BY <1>5, <1>6, <1>7, <1>11
<1>13. \A i, j : i \in F \cup {n + 1} /\ j \in now /\ Place(i, F \cup {n + 1}) = Place(j, now)
               => decls'[i] = Origin(Contents(f)[j], f)
  BY <1>8, <1>11
<1>14. Merged(f, now)'
  <2>1. PICK G : G = F \cup {n + 1}
    OBVIOUS
  <2>2. FromFile(f)' = G /\ Cardinality(G) = Cardinality(now)
    BY <1>4, <1>12, <2>1
  <2>3. \A i \in G, j \in now : Place(i, G) = Place(j, now) => decls'[i] = Origin(Contents(f)[j], f)
    BY <1>13, <2>1
  <2>4. QED
    BY <1>9, <1>10, <2>2, <2>3 DEF Merged
<1>15. QED
  BY <1>11, <1>14

LEMMA MergedKept ==
  ASSUME TypeInv, project' = project, NEW f, NEW own, FromFile(f)' = FromFile(f),
         \A i \in FromFile(f) : decls'[i] = decls[i], Merged(f, own)
  PROVE  Merged(f, own)'
<1>1. (\A d : Origin(d, f)' = Origin(d, f)) /\ Contents(f)' = Contents(f)
  BY SameProject DEF Origin
<1>2. QED
  BY <1>1 DEF Merged

(* Which files are finished.                                                    *)
LEMMA FinishedStep ==
  ASSUME TypeInv, CallInv, Goes
  PROVE  Finished' = IF LeaveEffect /\ Top.kind \in FileCalls THEN Finished \cup {Top.at} ELSE Finished
<1>1. PICK n : n = Len(calls) /\ n \in Nat /\ DOMAIN calls = 1..n
  BY CallsFacts
<1>2. ASSUME NEW f PROVE Expanding(f) <=> \E i \in 1..n : calls[i].kind \in FileCalls /\ calls[i].at = f
  BY <1>1 DEF Expanding, FileCall
<1>3. CASE LeaveEffect
  <2>1. /\ n \in 1..n /\ Top = calls[n] /\ DOMAIN calls' = 1..(n - 1)
        /\ \A i \in 1..(n - 1) : i \in 1..n /\ i # n /\ calls'[i] = calls[i]
        /\ \A i \in 1..n : i = n \/ i \in 1..(n - 1)
    BY <1>1, <1>3, LeaveFacts
  <2>2. \A f : Expanding(f)' <=> \E i \in 1..(n - 1) : calls[i].kind \in FileCalls /\ calls[i].at = f
    BY <2>1 DEF Expanding, FileCall
  <2>3. CASE Top.kind \in FileCalls
    <3>0. PICK a : a = Top.at
      OBVIOUS
    <3>1. a \in visited /\ FileCall(n)
      BY <1>1, <2>1, <2>3, <3>0 DEF CallInv, FileCall, WellPlaced
    <3>2. \A i \in 1..(n - 1) : ~(calls[i].kind \in FileCalls /\ calls[i].at = a)
      BY <1>1, <2>1, <3>0, <3>1 DEF CallInv, FileCall
    <3>3. \A f : Expanding(f)' <=> Expanding(f) /\ f # a
      BY <1>2, <2>1, <2>2, <3>0, <3>2
    <3>4. visited' = visited
      BY <1>3 DEF LeaveEffect
    <3>5. Finished' = Finished \cup {a}
      <4>1. Finished' = {f \in visited : ~(Expanding(f) /\ f # a)}
        BY <3>3, <3>4 DEF Finished
      <4>2. QED
        BY <3>1, <4>1 DEF Finished
    <3>6. QED
      BY <1>3, <2>3, <3>0, <3>5
  <2>4. CASE Top.kind \notin FileCalls
    <3>1. \A f : Expanding(f)' <=> Expanding(f)
      BY <1>2, <2>1, <2>2, <2>4
    <3>2. visited' = visited
      BY <1>3 DEF LeaveEffect
    <3>3. QED
      BY <2>4, <3>1, <3>2 DEF Finished
  <2>5. QED
    BY <2>3, <2>4
<1>4. ASSUME NEW m, m \in Nat, DOMAIN calls' = 1..m, 1..n \subseteq 1..m,
             \A i \in 1..n : calls'[i].kind = calls[i].kind /\ calls'[i].at = calls[i].at
      PROVE  \A f : Expanding(f)' <=> \/ Expanding(f)
                                      \/ \E i \in (1..m) \ (1..n) : calls'[i].kind \in FileCalls /\ calls'[i].at = f
  BY <1>1, <1>4 DEF Expanding, FileCall
<1>5. CASE DeclareEffect \/ PassEffect
  <2>1. Same(n) /\ DOMAIN calls' = 1..n
    BY <1>1, <1>5, NonePushed DEF DeclareEffect, PassEffect, Same
  <2>2. \A f : Expanding(f)' <=> Expanding(f)
    BY <1>1, <1>4, <2>1 DEF Same
  <2>3. visited' = visited /\ ~LeaveEffect
    BY <1>5 DEF DeclareEffect, PassEffect, Onward, LeaveEffect
  <2>4. QED
    BY <2>2, <2>3 DEF Finished
<1>6. ASSUME NEW d \in Dirs, DirEffect(d) PROVE Finished' = Finished /\ ~LeaveEffect
  <2>0. PICK m, c : One(m, c) /\ c.kind \notin FileCalls
    BY <1>6, DirPushed
  <2>1. One(n, c) /\ c.kind \notin FileCalls
    BY <1>1, <2>0 DEF One, Same
  <2>2. \A f : Expanding(f)' <=> Expanding(f)
    <3>1. \A i \in (1..(n + 1)) \ (1..n) : calls'[i].kind \notin FileCalls
      BY <2>1 DEF One
    <3>2. QED
      BY <1>1, <1>4, <2>1, <3>1 DEF Same, One
  <2>3. visited' = visited /\ ~LeaveEffect
    BY <1>6 DEF DirEffect, Onward, LeaveEffect
  <2>4. QED
    BY <2>2, <2>3 DEF Finished
<1>7. ASSUME NEW kind \in FileCalls, NEW f \in Files, FileEffect(kind, f) PROVE Finished' = Finished /\ ~LeaveEffect
  <2>0. PICK m, c : One(m, c) /\ c.kind = kind /\ c.at = f
    BY <1>7, FilePushed
  <2>1. One(n, c) /\ c.kind = kind /\ c.at = f
    BY <1>1, <2>0 DEF One, Same
  <2>2. \A g : Expanding(g)' <=> Expanding(g) \/ g = f
    <3>1. \A i \in (1..(n + 1)) \ (1..n) : calls'[i] = c /\ n + 1 \in (1..(n + 1)) \ (1..n) /\ calls'[n + 1] = c
      BY <2>1 DEF One
    <3>2. n + 1 \in (1..(n + 1)) \ (1..n)
      BY <1>1
    <3>3. QED
      BY <1>1, <1>4, <1>7, <2>1, <3>1, <3>2 DEF Same, One
  <2>3. visited' = visited \cup {f} /\ f \notin visited /\ ~LeaveEffect
    BY <1>7 DEF FileEffect, Onward, LeaveEffect
  <2>4. QED
    BY <2>2, <2>3 DEF Finished
<1>8. QED
  BY <1>3, <1>5, <1>6, <1>7 DEF Goes, Effect

(* The declaration that a file's call takes next.                               *)
LEMMA TopFile ==
  ASSUME TypeInv, CallInv, ReachInv, calls # <<>>, Top.rest # <<>>, Top.kind \in FileCalls
  PROVE  \E a, t : /\ a = Top.at /\ t = Taken(Top) /\ t \in Nat
                   /\ a \in Sources /\ a \in visited /\ Expanding(a)
                   /\ t + 1 \in DOMAIN Contents(a) /\ Item = Contents(a)[t + 1]
<1>1. PICK a, t : a = Top.at /\ t = Taken(Top)
  OBVIOUS
<1>2. Len(calls) \in DOMAIN calls /\ Top = calls[Len(calls)] /\ Top \in Frames
  BY CallsFacts
<1>3. /\ a \in visited /\ a \in Sources /\ ListOf(Top) = Contents(a)
      /\ t + 1 \in DOMAIN Contents(a) /\ Item = Contents(a)[t + 1]
  BY <1>1, TopPlace
<1>4. t \in Nat
  <2>1. t \in 0..Len(ListOf(Top)) /\ Len(ListOf(Top)) \in Nat
    BY <1>1, <1>2, ListFacts DEF CallInv, WellPlaced, InOrder
  <2>2. QED
    BY <2>1
<1>5. Expanding(a)
  BY <1>1, <1>2 DEF Expanding, FileCall
<1>6. QED
  BY <1>1, <1>3, <1>4, <1>5

FrameMerged(i) == FileCall(i) => Merged(calls[i].at, OwnUpTo(calls[i].at, Taken(calls[i])))

LEMMA FrameMergedBy ==
  ASSUME project' = project, NEW i, NEW a, NEW t, calls'[i].at = a, Taken(calls'[i]) = t,
         NEW own, own = OwnUpTo(a, t), Merged(a, own)'
  PROVE  FrameMerged(i)'
<1>1. (\A f, k : OwnUpTo(f, k)' = OwnUpTo(f, k)) /\ \A call : Taken(call)' = Taken(call)
  BY SameProject
<1>2. QED
  BY <1>1 DEF FrameMerged

(* Nothing is declared.                                                         *)
LEMMA MergedSame ==
  ASSUME TypeInv, CallInv, ReachInv, MergedInv, Goes, decls' = decls
  PROVE  MergedInv'
<1>1. project' = project /\ Effect
  BY DEF Goes
<1>2. PICK n : n = Len(calls) /\ n \in Nat /\ DOMAIN calls = 1..n
  BY CallsFacts
<1>3. \A f : FromFile(f)' = FromFile(f)
  BY DEF FromFile
<1>4. ASSUME NEW f, NEW own, Merged(f, own) PROVE Merged(f, own)'
  BY <1>1, <1>3, <1>4, MergedKept
<1>5. \A f \in (Files \ visited)' : FromFile(f)' = {}
  <2>1. visited \subseteq visited' /\ Files' = Files
    BY <1>1, SameProject DEF Effect, DeclareEffect, PassEffect, FileEffect, DirEffect, LeaveEffect
  <2>2. QED
    BY <1>3, <2>1 DEF MergedInv
<1>6. \A i \in 1..n : FrameMerged(i)
  BY <1>2 DEF MergedInv, FrameMerged
<1>7. \A f \in Finished' : Merged(f, OwnOf(f))'
  <2>1. ASSUME NEW f, f \in Finished, NEW own, own = OwnOf(f) PROVE Merged(f, own)'
    BY <1>4, <2>1 DEF MergedInv
  <2>2. ASSUME NEW f, f = Top.at, Top.kind \in FileCalls, LeaveEffect, NEW own, own = OwnOf(f) PROVE Merged(f, own)'
    <3>1. n \in 1..n /\ Top = calls[n] /\ Top \in Frames /\ Taken(Top) = Len(ListOf(Top))
      BY <1>2, <2>2, LeaveFacts
    <3>2. ListOf(Top) = Contents(f) /\ f \in Sources
      BY <2>2, <3>1, ListFacts
    <3>3. OwnUpTo(f, Taken(Top)) = own
      BY <2>2, <3>1, <3>2, OwnFacts
    <3>4. Merged(f, own)
      BY <1>2, <1>6, <2>2, <3>1, <3>3 DEF FrameMerged, FileCall
    <3>5. QED
      BY <1>4, <3>4
  <2>3. \A f : OwnOf(f)' = OwnOf(f)
    BY <1>1, SameProject
  <2>4. ASSUME NEW f, f \in Finished' PROVE Merged(f, OwnOf(f))'
    <3>1. f \in Finished \/ (f = Top.at /\ Top.kind \in FileCalls /\ LeaveEffect)
      BY <2>4, FinishedStep
    <3>2. PICK own : own = OwnOf(f)
      OBVIOUS
    <3>3. Merged(f, own)'
      BY <2>1, <2>2, <3>1, <3>2
    <3>4. QED
      BY <2>3, <3>2, <3>3
  <2>5. QED
    BY <2>4
<1>8. ASSUME Same(n), calls # <<>>, Top.rest # <<>>, Top.kind \in FileCalls => IsImport(Item),
             NEW i \in 1..n, FileCall(i)'
      PROVE  FrameMerged(i)'
  <2>1. PICK a, own : a = calls[i].at /\ own = OwnUpTo(a, Taken(calls[i]))
    OBVIOUS
  <2>2. FileCall(i) /\ calls'[i].at = a
    BY <1>2, <1>8, <2>1 DEF Same, FileCall
  <2>3. Merged(a, own)'
    BY <1>4, <1>6, <2>1, <2>2 DEF FrameMerged
  <2>4. PICK t : t = Taken(calls'[i])
    OBVIOUS
  <2>5. own = OwnUpTo(a, t)
    <3>1. CASE i # n
      <4>1. i \in 1..(n - 1)
        BY <1>2, <3>1
      <4>2. QED
        BY <1>8, <2>1, <2>4, <4>1 DEF Same
    <3>2. CASE i = n
      <4>1. Top = calls[n] /\ t = Taken(Top) + 1 /\ Top.kind \in FileCalls
        BY <1>8, <2>2, <2>4, <3>2 DEF Same, FileCall
      <4>2. PICK k : /\ k = Taken(Top) /\ k \in Nat /\ a \in Sources
                     /\ k + 1 \in DOMAIN Contents(a) /\ Item = Contents(a)[k + 1]
        BY <1>8, <2>1, <3>2, <4>1, TopFile
      <4>3. QED
        BY <1>8, <2>1, <3>2, <4>1, <4>2, OwnFacts
    <3>3. QED
      BY <3>1, <3>2
  <2>6. QED
    BY <1>1, <2>2, <2>3, <2>4, <2>5, FrameMergedBy
<1>9. ASSUME NEW i, ~FileCall(i)' PROVE FrameMerged(i)'
  BY <1>9 DEF FrameMerged
<1>10. SUFFICES \A i \in DOMAIN calls' : FrameMerged(i)'
  BY <1>5, <1>7 DEF MergedInv, FrameMerged
<1>11. CASE PassEffect \/ DeclareEffect
  <2>1. Same(n) /\ DOMAIN calls' = 1..n /\ calls # <<>> /\ Top.rest # <<>>
    BY <1>2, <1>11, NonePushed DEF PassEffect, DeclareEffect, Onward, Same
  <2>2. CASE PassEffect
    BY <1>8, <1>9, <2>1, <2>2 DEF PassEffect
  <2>3. CASE DeclareEffect
    <3>1. \A D, s, e : s \in Seq(D) => Append(s, e) # s
      OBVIOUS
    <3>2. FALSE
      BY <2>3, <3>1 DEF DeclareEffect, TypeInv
    <3>3. QED
      BY <3>2
  <2>4. QED
    BY <1>11, <2>2, <2>3
<1>12. ASSUME NEW d \in Dirs, DirEffect(d) PROVE \A i \in DOMAIN calls' : FrameMerged(i)'
  <2>0. PICK m, c : One(m, c) /\ c.kind \notin FileCalls
    BY <1>12, DirPushed
  <2>1. One(n, c) /\ c.kind \notin FileCalls
    BY <1>2, <2>0 DEF One, Same
  <2>2. ~FileCall(n + 1)'
    BY <2>1 DEF One, FileCall
  <2>3. QED
    BY <1>8, <1>9, <1>12, <2>1, <2>2 DEF One, DirEffect, Onward
<1>13. ASSUME NEW kind \in FileCalls, NEW f \in Files, FileEffect(kind, f)
       PROVE  \A i \in DOMAIN calls' : FrameMerged(i)'
  <2>0. PICK m, c : One(m, c) /\ c.kind = kind /\ c.at = f
    BY <1>13, FilePushed
  <2>1. One(n, c) /\ c.kind = kind /\ c.at = f
    BY <1>2, <2>0 DEF One, Same
  <2>2. f \in Sources /\ f \notin visited
    BY <1>13 DEF FileEffect
  <2>3. OwnUpTo(f, 0) = {} /\ FromFile(f) = {}
    BY <2>2, OwnFacts DEF MergedInv
  <2>4. Merged(f, {})'
    <3>1. Merged(f, {})
      BY <2>3 DEF Merged
    <3>2. QED
      BY <1>4, <3>1
  <2>5. calls'[n + 1].at = f /\ Taken(calls'[n + 1]) = 0
    BY <2>1 DEF One
  <2>6. FrameMerged(n + 1)'
    BY <1>1, <2>3, <2>4, <2>5, FrameMergedBy
  <2>7. Top.kind \in FileCalls => IsImport(Item)
    BY <1>13 DEF FileEffect, FileCalls
  <2>8. QED
    BY <1>8, <1>9, <1>13, <2>1, <2>6, <2>7 DEF One, FileEffect, Onward
<1>14. CASE LeaveEffect
  <2>1. DOMAIN calls' = 1..(n - 1) /\ \A i \in 1..(n - 1) : i \in 1..n /\ calls'[i] = calls[i]
    BY <1>2, <1>14, LeaveFacts
  <2>2. ASSUME NEW i \in 1..(n - 1), FileCall(i)' PROVE FrameMerged(i)'
    <3>1. PICK a, t, own : a = calls[i].at /\ t = Taken(calls[i]) /\ own = OwnUpTo(a, t)
      OBVIOUS
    <3>2. Merged(a, own)
      BY <1>2, <1>6, <2>1, <2>2, <3>1 DEF FrameMerged, FileCall
    <3>3. QED
      BY <1>1, <1>4, <2>1, <3>1, <3>2, FrameMergedBy
  <2>3. QED
    BY <1>9, <2>1, <2>2
<1>15. QED
  BY <1>1, <1>11, <1>12, <1>13, <1>14 DEF Effect

LEMMA MergedStep == ASSUME TypeInv, CallInv, ReachInv, MergedInv, Goes PROVE MergedInv'
<1>1. project' = project /\ Effect
  BY DEF Goes
<1>2. CASE decls' = decls
  BY <1>2, MergedSame
<1>3. CASE DeclareEffect
  <2>1. calls # <<>> /\ Top.rest # <<>> /\ Top.kind \in FileCalls /\ ~IsImport(Item)
        /\ decls' = Append(decls, Origin(Item, Top.at)) /\ visited' = visited
    BY <1>3 DEF DeclareEffect, Onward
  <2>2. PICK n : Same(n) /\ DOMAIN calls' = 1..n
    BY <1>3, NonePushed DEF DeclareEffect
  <2>3. PICK a, t : /\ a = Top.at /\ t = Taken(Top) /\ t \in Nat
                    /\ a \in Sources /\ a \in visited /\ Expanding(a)
                    /\ t + 1 \in DOMAIN Contents(a) /\ Item = Contents(a)[t + 1]
    BY <2>1, TopFile
  <2>4. PICK own : own = OwnUpTo(a, t)
    OBVIOUS
  <2>5. own \subseteq 1..t /\ OwnUpTo(a, t + 1) = own \cup {t + 1}
    BY <2>1, <2>3, <2>4, OwnFacts
  <2>6. Merged(a, own)
    BY <2>1, <2>2, <2>3, <2>4 DEF MergedInv, Same, FileCall
  <2>7. decls' = Append(decls, Origin(Contents(a)[t + 1], a))
    BY <2>1, <2>3
  <2>8. Merged(a, own \cup {t + 1})'
    BY <1>1, <2>3, <2>5, <2>6, <2>7, MergedGrows
  <2>9. \A f : f # a => FromFile(f)' = FromFile(f) /\ \A i \in FromFile(f) : decls'[i] = decls[i]
    <3>1. PICK o : o = Origin(Contents(a)[t + 1], a)
      OBVIOUS
    <3>2. o \in [tree : Trees, file : Files, module : {ModuleOf(f) : f \in Sources}] /\ o.file = a
      <4>1. Contents(a)[t + 1] \in Trees
        BY <2>3, ProjectFacts DEF TypeInv
      <4>2. QED
        BY <2>3, <3>1, <4>1 DEF Origin, Sources
    <3>3. QED
      BY <2>7, <3>1, <3>2, DeclsGrow, FromFileFacts
  <2>10. ASSUME NEW f, f # a, NEW o, Merged(f, o) PROVE Merged(f, o)'
    BY <1>1, <2>9, <2>10, MergedKept
  <2>11. \A i \in DOMAIN calls' : FrameMerged(i)'
    <3>1. TAKE i \in DOMAIN calls'
    <3>2. CASE ~FileCall(i)'
      BY <3>2 DEF FrameMerged
    <3>3. CASE i = n
      BY <1>1, <2>2, <2>3, <2>5, <2>8, <3>3, FrameMergedBy DEF Same
    <3>4. CASE FileCall(i)' /\ i # n
      <4>1. i \in 1..(n - 1) /\ i \in 1..n
        BY <2>2, <3>4 DEF Same
      <4>2. PICK b, k, o : b = calls[i].at /\ k = Taken(calls[i]) /\ o = OwnUpTo(b, k)
        OBVIOUS
      <4>3. calls'[i] = calls[i] /\ FileCall(i) /\ FileCall(n)
        BY <2>1, <2>2, <3>4, <4>1 DEF Same, FileCall
      <4>4. b # a
        BY <2>2, <2>3, <3>4, <4>2, <4>3 DEF CallInv, FileCall, Same
      <4>5. Merged(b, o)
        BY <4>2, <4>3 DEF MergedInv, FileCall
      <4>6. QED
        BY <1>1, <2>10, <4>2, <4>3, <4>4, <4>5, FrameMergedBy
    <3>5. QED
      BY <3>2, <3>3, <3>4
  <2>12. \A f \in Finished' : Merged(f, OwnOf(f))'
    <3>1. TAKE f \in Finished'
    <3>2. Finished' = Finished
      <4>1. ~LeaveEffect
        BY <2>1 DEF LeaveEffect
      <4>2. QED
        BY <4>1, FinishedStep
    <3>3. f \in Finished /\ f # a
      BY <2>3, <3>2 DEF Finished
    <3>4. PICK o : o = OwnOf(f)
      OBVIOUS
    <3>5. Merged(f, o)'
      BY <2>10, <3>3, <3>4 DEF MergedInv
    <3>6. \A g : OwnOf(g)' = OwnOf(g)
      BY <1>1, SameProject
    <3>7. QED
      BY <3>4, <3>5, <3>6
  <2>13. \A f \in (Files \ visited)' : FromFile(f)' = {}
    <3>1. Files' = Files
      BY <1>1, SameProject
    <3>2. QED
      BY <2>1, <2>3, <2>9, <3>1 DEF MergedInv
  <2>14. QED
    BY <2>11, <2>12, <2>13 DEF MergedInv, FrameMerged
<1>4. QED
  BY <1>1, <1>2, <1>3 DEF Effect, PassEffect, FileEffect, DirEffect, LeaveEffect

--------------------------------------------------------------------------------
(* What was met is visited or will be, and no cycle is passed over.             *)

(* A call that expands a file is as it was, has gone on by one declaration, or  *)
(* is new.                                                                      *)
LEMMA FrameCases ==
  ASSUME TypeInv, CallInv, ReachInv, Goes, NEW i, FileCall(i)'
  PROVE  \E a, t :
           /\ a = calls'[i].at /\ t = Taken(calls'[i])
           /\ \/ FileCall(i) /\ a = calls[i].at /\ t = Taken(calls[i])
              \/ \E k \in Nat :
                   /\ FileCall(i) /\ i = Len(calls) /\ a = calls[i].at /\ k = Taken(calls[i]) /\ t = k + 1
                   /\ calls # <<>> /\ Top.rest # <<>> /\ Top.kind \in FileCalls /\ ~LeaveEffect
                   /\ a \in Sources /\ k + 1 \in DOMAIN Contents(a) /\ Item = Contents(a)[k + 1]
              \/ t = 0 /\ a \in Sources
<1>1. PICK n : n = Len(calls) /\ n \in Nat /\ DOMAIN calls = 1..n
  BY CallsFacts
<1>2. PICK a, t : a = calls'[i].at /\ t = Taken(calls'[i])
  OBVIOUS
<1>3. ASSUME i \in 1..n, Same(n), calls # <<>>, Top.rest # <<>>, ~LeaveEffect
      PROVE  \/ FileCall(i) /\ a = calls[i].at /\ t = Taken(calls[i])
             \/ \E k \in Nat :
                  /\ FileCall(i) /\ i = Len(calls) /\ a = calls[i].at /\ k = Taken(calls[i]) /\ t = k + 1
                  /\ calls # <<>> /\ Top.rest # <<>> /\ Top.kind \in FileCalls /\ ~LeaveEffect
                  /\ a \in Sources /\ k + 1 \in DOMAIN Contents(a) /\ Item = Contents(a)[k + 1]
  <2>1. FileCall(i) /\ a = calls[i].at
    BY <1>1, <1>2, <1>3 DEF FileCall, Same
  <2>2. CASE i # n
    <3>1. i \in 1..(n - 1)
      BY <1>1, <1>3, <2>2
    <3>2. QED
      BY <1>2, <1>3, <2>1, <3>1 DEF Same
  <2>3. CASE i = n
    <3>1. Top = calls[n] /\ t = Taken(Top) + 1 /\ Top.kind \in FileCalls
      BY <1>2, <1>3, <2>1, <2>3 DEF Same, FileCall
    <3>2. PICK k : /\ k = Taken(Top) /\ k \in Nat /\ a \in Sources
                   /\ k + 1 \in DOMAIN Contents(a) /\ Item = Contents(a)[k + 1]
      BY <1>3, <2>1, <2>3, <3>1, TopFile
    <3>3. QED
      BY <1>1, <1>3, <2>1, <2>3, <3>1, <3>2
  <2>4. QED
    BY <2>2, <2>3
<1>4. CASE DeclareEffect \/ PassEffect
  <2>1. Same(n) /\ DOMAIN calls' = 1..n /\ calls # <<>> /\ Top.rest # <<>> /\ ~LeaveEffect
    BY <1>1, <1>4, NonePushed DEF DeclareEffect, PassEffect, Onward, LeaveEffect, Same
  <2>2. i \in 1..n
    BY <2>1 DEF FileCall
  <2>3. QED
    BY <1>2, <1>3, <2>1, <2>2
<1>5. CASE \E d \in Dirs : DirEffect(d)
  <2>0. PICK m, c : One(m, c) /\ c.kind \notin FileCalls
    BY <1>5, DirPushed
  <2>1. One(n, c) /\ c.kind \notin FileCalls
    BY <1>1, <2>0 DEF One, Same
  <2>2. calls # <<>> /\ Top.rest # <<>> /\ ~LeaveEffect
    BY <1>5 DEF DirEffect, Onward, LeaveEffect
  <2>3. i \in 1..n
    BY <2>1 DEF One, FileCall
  <2>4. QED
    BY <1>2, <1>3, <2>1, <2>2, <2>3 DEF One
<1>6. CASE \E kind \in FileCalls, f \in Files : FileEffect(kind, f)
  <2>0. PICK f, m, c : One(m, c) /\ c.at = f /\ f \in Sources
    BY <1>6, FilePushed DEF FileEffect
  <2>1. One(n, c) /\ c.at = f
    BY <1>1, <2>0 DEF One, Same
  <2>2. calls # <<>> /\ Top.rest # <<>> /\ ~LeaveEffect
    BY <1>6 DEF FileEffect, Onward, LeaveEffect
  <2>3. i \in 1..n \/ i = n + 1
    BY <2>1 DEF One, FileCall
  <2>4. CASE i \in 1..n
    BY <1>2, <1>3, <2>1, <2>2, <2>4 DEF One
  <2>5. CASE i = n + 1
    BY <1>2, <2>0, <2>1, <2>5 DEF One
  <2>6. QED
    BY <2>3, <2>4, <2>5
<1>7. CASE LeaveEffect
  <2>1. DOMAIN calls' = 1..(n - 1) /\ \A j \in 1..(n - 1) : j \in 1..n /\ calls'[j] = calls[j]
    BY <1>1, <1>7, LeaveFacts
  <2>2. QED
    BY <1>1, <1>2, <2>1 DEF FileCall
<1>8. QED
  BY <1>4, <1>5, <1>6, <1>7 DEF Goes, Effect

(* What is visited or will be stays so, and the import that is met joins it.    *)
Met == visited \cup Waiting

LEMMA WaitingIs ==
  \A x : x \in Waiting <=> \E i \in DOMAIN calls : DirCall(i) /\ x \in ToSet(calls[i].rest)
  BY DEF Waiting

LEMMA MetStep ==
  ASSUME TypeInv, CallInv, ReachInv, Goes, diags = {}, diags' = {}
  PROVE  /\ Met \subseteq Met'
         /\ ~LeaveEffect => calls # <<>> /\ (Top.kind \in FileCalls => NamedBy(Item) \subseteq Met')
<1>1. PICK n : n = Len(calls) /\ n \in Nat /\ DOMAIN calls = 1..n
  BY CallsFacts
<1>2. visited \subseteq visited' /\ Effect
  BY DEF Goes, Effect, DeclareEffect, PassEffect, FileEffect, DirEffect, LeaveEffect
<1>3. \A x : x \in Waiting' <=> \E i \in DOMAIN calls' : DirCall(i)' /\ x \in ToSet(calls'[i].rest)
  BY DEF Waiting
<1>4. ASSUME Same(n), Top.kind \in DirCalls => Item \in Met' PROVE Met \subseteq Met'
  <2>1. ASSUME NEW x \in Waiting PROVE x \in Met'
    <3>1. PICK i \in 1..n : DirCall(i) /\ x \in ToSet(calls[i].rest)
      BY <1>1, <2>1, WaitingIs
    <3>2. i \in DOMAIN calls' /\ DirCall(i)'
      BY <1>4, <3>1 DEF Same, DirCall
    <3>3. CASE i # n
      <4>1. i \in 1..(n - 1)
        BY <1>1, <3>3
      <4>2. QED
        BY <1>3, <1>4, <3>1, <3>2, <4>1 DEF Same, Met
    <3>4. CASE i = n
      <4>1. x \in ToSet(calls'[n].rest) \/ x = Item
        BY <1>4, <3>1, <3>4 DEF Same
      <4>2. Top.kind \in DirCalls
        BY <1>4, <3>1, <3>4 DEF Same, DirCall
      <4>3. QED
        BY <1>3, <1>4, <3>2, <3>4, <4>1, <4>2 DEF Met
    <3>5. QED
      BY <3>3, <3>4
  <2>2. QED
    BY <1>2, <2>1 DEF Met
<1>5. \A k \in FileCalls : k \notin DirCalls
  BY DEF FileCalls, DirCalls
<1>6. calls # <<>> => Top.kind \in FileCalls \/ (Top.kind \in DirCalls /\ Top.kind \notin FileCalls)
  BY CallsFacts, ListFacts
<1>7. CASE DeclareEffect
  <2>1. Same(n) /\ calls # <<>>
    BY <1>1, <1>7, NonePushed DEF DeclareEffect, Onward, Same
  <2>2. NamedBy(Item) = {} /\ Top.kind \in FileCalls
    BY <1>7 DEF DeclareEffect, NamedBy
  <2>3. QED
    BY <1>4, <1>5, <2>1, <2>2
<1>8. CASE PassEffect
  <2>1. Same(n) /\ calls # <<>>
    BY <1>1, <1>8, NonePushed DEF PassEffect, Onward, Same
  <2>2. IF Top.kind \in FileCalls THEN NamedBy(Item) \subseteq visited ELSE Item \in visited
    BY <1>8 DEF PassEffect
  <2>3. QED
    BY <1>2, <1>4, <1>5, <2>1, <2>2 DEF Met
<1>9. ASSUME NEW kind \in FileCalls, NEW f \in Files, FileEffect(kind, f)
      PROVE  Met \subseteq Met' /\ calls # <<>> /\ (Top.kind \in FileCalls => NamedBy(Item) \subseteq Met')
  <2>0. PICK m, c : One(m, c)
    BY <1>9, FilePushed
  <2>1. Same(n) /\ calls # <<>>
    BY <1>1, <1>9, <2>0 DEF One, Same, FileEffect, Onward
  <2>2. f \in visited' /\ IF Top.kind \in FileCalls THEN NamedBy(Item) = {f} ELSE Item = f
    BY <1>9 DEF FileEffect, FileCalls
  <2>3. QED
    BY <1>4, <1>5, <2>1, <2>2 DEF Met
<1>10. ASSUME NEW d \in Dirs, DirEffect(d)
       PROVE  Met \subseteq Met' /\ calls # <<>> /\ (Top.kind \in FileCalls => NamedBy(Item) \subseteq Met')
  <2>0. PICK m, c : One(m, c) /\ c.kind \in DirCalls /\ c.rest = project.dirs[d]
    BY <1>10, DirPushed
  <2>1. One(n, c) /\ Same(n) /\ calls # <<>>
    BY <1>1, <1>10, <2>0 DEF One, Same, DirEffect, Onward
  <2>2. n + 1 \in DOMAIN calls' /\ calls'[n + 1] = c
    BY <2>1 DEF One
  <2>3. DirCall(n + 1)'
    BY <2>0, <2>2 DEF DirCall
  <2>4. ToSet(calls'[n + 1].rest) \subseteq Waiting'
    BY <1>3, <2>2, <2>3
  <2>5. Top.kind \in FileCalls /\ NamedBy(Item) = ToSet(calls'[n + 1].rest)
    BY <1>10, <2>0, <2>2 DEF DirEffect
  <2>6. QED
    BY <1>4, <1>5, <2>1, <2>4, <2>5 DEF Met
<1>11. ASSUME LeaveEffect PROVE Met \subseteq Met'
  <2>1. /\ n \in 1..n /\ DOMAIN calls' = 1..(n - 1) /\ Top = calls[n] /\ ToSet(Top.rest) = {}
        /\ \A i \in 1..(n - 1) : i \in 1..n /\ calls'[i] = calls[i]
    BY <1>1, <1>11, LeaveFacts
  <2>2. ASSUME NEW x \in Waiting PROVE x \in Waiting'
    <3>1. PICK i \in 1..n : DirCall(i) /\ x \in ToSet(calls[i].rest)
      BY <1>1, <2>2, WaitingIs
    <3>2. i # n
      BY <2>1, <3>1
    <3>3. i \in 1..(n - 1)
      BY <1>1, <3>2
    <3>4. DirCall(i)'
      BY <2>1, <3>1, <3>3 DEF DirCall
    <3>5. QED
      BY <1>3, <2>1, <3>1, <3>3, <3>4
  <2>3. QED
    BY <1>2, <2>2 DEF Met
<1>12. QED
  BY <1>2, <1>7, <1>8, <1>9, <1>10, <1>11 DEF Effect

(* What the first declarations name.                                            *)
LEMMA NamedFacts ==
  ASSUME TypeInv, NEW f \in Sources
  PROVE  /\ Named(f, 0) = {} /\ FreeNamed(f, 0) = {}
         /\ \A t \in Nat : t + 1 \in DOMAIN Contents(f) =>
              LET d == Contents(f)[t + 1]
              IN  /\ Named(f, t + 1) = Named(f, t) \cup NamedBy(d)
                  /\ \A g \in FreeNamed(f, t + 1) :
                       g \in FreeNamed(f, t) \/ (g \in Free /\ IsImport(d) /\ g \in DirectOf(d))
<1>1. PICK m : m \in Nat /\ DOMAIN Contents(f) = 1..m
  BY ProjectFacts DEF TypeInv
<1>2. Named(f, 0) = {} /\ FreeNamed(f, 0) = {}
  <2>1. \A j \in 1..m : ~(j <= 0)
    BY <1>1
  <2>2. QED
    BY <1>1, <2>1 DEF Named, FreeNamed
<1>3. ASSUME NEW t \in Nat, t + 1 \in 1..m
      PROVE  \A j \in 1..m : j <= t + 1 <=> j <= t \/ j = t + 1
  BY <1>1, <1>3
<1>4. ASSUME NEW t \in Nat, t + 1 \in 1..m
      PROVE  Named(f, t + 1) = Named(f, t) \cup NamedBy(Contents(f)[t + 1])
  BY <1>1, <1>3, <1>4 DEF Named
<1>5. ASSUME NEW t \in Nat, t + 1 \in 1..m, NEW g \in FreeNamed(f, t + 1)
      PROVE  \/ g \in FreeNamed(f, t)
             \/ g \in Free /\ IsImport(Contents(f)[t + 1]) /\ g \in DirectOf(Contents(f)[t + 1])
  BY <1>1, <1>3, <1>5 DEF FreeNamed
<1>6. QED
  BY <1>1, <1>2, <1>4, <1>5

LEMMA ClosureStep ==
  ASSUME TypeInv, CallInv, ReachInv, Goes, diags = {}, diags' = {}, ClosureInv
  PROVE  ClosureInv'
<1>1. project' = project /\ Met \subseteq Met'
  BY MetStep DEF Goes
<1>2. (Given \subseteq Met)'
  BY <1>1, SameProject DEF ClosureInv, Met
<1>3. \A f, k : Named(f, k)' = Named(f, k) /\ Uses(f)' = Uses(f)
  BY <1>1, SameProject
<1>4. ASSUME NEW i, FileCall(i)' PROVE Named(calls'[i].at, Taken(calls'[i])) \subseteq Met'
  <2>1. PICK a, t :
           /\ a = calls'[i].at /\ t = Taken(calls'[i])
           /\ \/ FileCall(i) /\ a = calls[i].at /\ t = Taken(calls[i])
              \/ \E k \in Nat :
                   /\ FileCall(i) /\ i = Len(calls) /\ a = calls[i].at /\ k = Taken(calls[i]) /\ t = k + 1
                   /\ calls # <<>> /\ Top.rest # <<>> /\ Top.kind \in FileCalls /\ ~LeaveEffect
                   /\ a \in Sources /\ k + 1 \in DOMAIN Contents(a) /\ Item = Contents(a)[k + 1]
              \/ t = 0 /\ a \in Sources
    BY <1>4, FrameCases
  <2>2. FileCall(i) /\ a = calls[i].at => Named(a, Taken(calls[i])) \subseteq Met
    BY DEF ClosureInv, Met, FileCall
  <2>3. CASE FileCall(i) /\ a = calls[i].at /\ t = Taken(calls[i])
    BY <1>1, <2>1, <2>2, <2>3
  <2>4. ASSUME NEW k \in Nat,
               FileCall(i), a = calls[i].at, k = Taken(calls[i]), t = k + 1,
               Top.kind \in FileCalls, ~LeaveEffect,
               a \in Sources, k + 1 \in DOMAIN Contents(a), Item = Contents(a)[k + 1]
        PROVE  Named(a, t) \subseteq Met'
    <3>1. Named(a, t) = Named(a, k) \cup NamedBy(Item)
      BY <2>4, NamedFacts
    <3>2. NamedBy(Item) \subseteq Met'
      BY <2>4, MetStep
    <3>3. QED
      BY <1>1, <2>2, <2>4, <3>1, <3>2
  <2>5. CASE t = 0 /\ a \in Sources
    BY <2>1, <2>5, NamedFacts
  <2>6. QED
    BY <2>1, <2>3, <2>4, <2>5
<1>5. ASSUME NEW f, f \in Finished' PROVE Uses(f) \subseteq Met'
  <2>1. f \in Finished \/ (f = Top.at /\ Top.kind \in FileCalls /\ LeaveEffect)
    BY <1>5, FinishedStep
  <2>2. CASE f \in Finished
    BY <1>1, <2>2 DEF ClosureInv, Met
  <2>3. CASE f = Top.at /\ Top.kind \in FileCalls /\ LeaveEffect
    <3>1. /\ Len(calls) \in DOMAIN calls /\ Top = calls[Len(calls)] /\ Top \in Frames
          /\ Taken(Top) = Len(ListOf(Top))
      BY <2>3, LeaveFacts
    <3>2. ListOf(Top) = Contents(f) /\ f \in Sources
      BY <2>3, <3>1, ListFacts
    <3>3. Uses(f) = Named(f, Taken(Top))
      BY <3>1, <3>2, UsesNamed DEF TypeInv
    <3>4. Named(f, Taken(Top)) \subseteq Met
      BY <2>3, <3>1 DEF ClosureInv, Met, FileCall
    <3>5. QED
      BY <1>1, <3>3, <3>4
  <2>4. QED
    BY <2>1, <2>2, <2>3
<1>6. /\ \A i \in DOMAIN calls' : FileCall(i)' => (Named(calls[i].at, Taken(calls[i])) \subseteq visited \cup Waiting)'
      /\ \A f \in Finished' : (Uses(f) \subseteq visited \cup Waiting)'
  <2>1. \A call : Taken(call)' = Taken(call)
    BY <1>1, SameProject
  <2>2. QED
    BY <1>3, <1>4, <1>5, <2>1 DEF Met
<1>7. QED
  BY <1>2, <1>6 DEF ClosureInv, Met

(* A file in no imported directory is expanded only while it is on the stack.   *)
LEMMA FreeOnStack ==
  ASSUME TypeInv, CallInv, StackInv, NEW g \in Free, Expanding(g)
  PROVE  g \in ToSet(stack)
<1>1. PICK i \in DOMAIN calls : calls[i].kind \in FileCalls /\ calls[i].at = g
  BY DEF Expanding, FileCall
<1>2. calls[i].kind # "member file"
  BY <1>1 DEF CallInv, WellPlaced, Free
<1>3. Pushed(i)
  BY <1>1, <1>2 DEF FileCalls, Pushed
<1>4. QED
  BY <1>1, <1>3, StackFiles

LEMMA AcyclicStep ==
  ASSUME TypeInv, CallInv, StackInv, ReachInv, Goes, diags = {}, diags' = {}, AcyclicInv
  PROVE  AcyclicInv'
<1>1. project' = project /\ Effect
  BY DEF Goes
<1>2. PICK n : n = Len(calls) /\ n \in Nat /\ DOMAIN calls = 1..n
  BY CallsFacts
<1>3. Finished \subseteq Finished'
  BY FinishedStep
<1>4. (\A f, k : FreeNamed(f, k)' = FreeNamed(f, k)) /\ Free' = Free /\ Files' = Files
      /\ (\A f : FreeUses(f)' = FreeUses(f)) /\ \A call : Taken(call)' = Taken(call)
  BY <1>1, SameProject
<1>5. \A f : OnCycle(FreeUses, f)' => OnCycle(FreeUses, f)
  BY <1>4 DEF OnCycle, Closed
<1>6. ASSUME NEW f, f \in Finished', f \in Free
      PROVE  FreeUses(f) \subseteq Finished' /\ ~OnCycle(FreeUses, f)
  <2>1. f \in Finished \/ (f = Top.at /\ Top.kind \in FileCalls /\ LeaveEffect)
    BY <1>6, FinishedStep
  <2>2. CASE f \in Finished
    BY <1>3, <1>6, <2>2 DEF AcyclicInv
  <2>3. CASE f = Top.at /\ Top.kind \in FileCalls /\ LeaveEffect
    <3>1. /\ n \in 1..n /\ Top = calls[n] /\ Top \in Frames /\ Taken(Top) = Len(ListOf(Top))
      BY <1>2, <2>3, LeaveFacts
    <3>2. ListOf(Top) = Contents(f) /\ f \in Sources /\ FileCall(n)
      BY <1>2, <2>3, <3>1, ListFacts DEF FileCall
    <3>3. FreeUses(f) = FreeNamed(f, Taken(Top))
      BY <3>1, <3>2, UsesNamed DEF TypeInv
    <3>4. \A j \in 1..n : ~(n < j)
      BY <1>2
    <3>5. FreeUses(f) \subseteq Finished
      BY <1>2, <2>3, <3>1, <3>2, <3>3, <3>4 DEF AcyclicInv
    <3>6. f \notin Finished
      BY <1>2, <2>3, <3>1, <3>2 DEF Finished, Expanding
    <3>7. PICK S : S = Finished \cap Free
      OBVIOUS
    <3>8. S \in SUBSET Files
      BY <3>7 DEF Free, Reached
    <3>9. FreeUses(f) \subseteq S
      BY <3>5, <3>7 DEF FreeUses
    <3>10. Closed(S, FreeUses)
      BY <3>7 DEF Closed, AcyclicInv, FreeUses
    <3>11. ~OnCycle(FreeUses, f)
      BY <3>6, <3>7, <3>8, <3>9, <3>10 DEF OnCycle
    <3>12. QED
      BY <1>3, <3>5, <3>11
  <2>4. QED
    BY <2>1, <2>2, <2>3
<1>7. ASSUME NEW i, FileCall(i)', NEW g, g \in FreeNamed(calls'[i].at, Taken(calls'[i]))
      PROVE  g \in Finished' \/ \E j \in DOMAIN calls' : i < j /\ FileCall(j)' /\ calls'[j].at = g
  <2>1. PICK a, t :
           /\ a = calls'[i].at /\ t = Taken(calls'[i])
           /\ \/ FileCall(i) /\ a = calls[i].at /\ t = Taken(calls[i])
              \/ \E k \in Nat :
                   /\ FileCall(i) /\ i = Len(calls) /\ a = calls[i].at /\ k = Taken(calls[i]) /\ t = k + 1
                   /\ calls # <<>> /\ Top.rest # <<>> /\ Top.kind \in FileCalls /\ ~LeaveEffect
                   /\ a \in Sources /\ k + 1 \in DOMAIN Contents(a) /\ Item = Contents(a)[k + 1]
              \/ t = 0 /\ a \in Sources
    BY <1>7, FrameCases
  <2>2. ASSUME FileCall(i), a = calls[i].at, g \in FreeNamed(a, Taken(calls[i])), g \notin Finished
        PROVE  \E j \in 1..n : i < j /\ FileCall(j) /\ calls[j].at = g
    BY <1>2, <2>2 DEF AcyclicInv, FileCall
  <2>3. CASE FileCall(i) /\ a = calls[i].at /\ t = Taken(calls[i])
    <3>1. CASE g \in Finished
      BY <1>3, <3>1
    <3>2. CASE g \notin Finished
      <4>1. PICK j \in 1..n : i < j /\ FileCall(j) /\ calls[j].at = g
        BY <1>7, <2>1, <2>2, <2>3, <3>2
      <4>2. CASE LeaveEffect
        <5>1. /\ Top = calls[n] /\ DOMAIN calls' = 1..(n - 1)
              /\ \A m \in 1..(n - 1) : calls'[m] = calls[m]
          BY <1>2, <4>2, LeaveFacts
        <5>2. CASE j = n
          BY <4>1, <4>2, <5>1, <5>2, FinishedStep DEF FileCall
        <5>3. CASE j # n
          <6>1. j \in 1..(n - 1)
            BY <1>2, <5>3
          <6>2. QED
            BY <4>1, <5>1, <6>1 DEF FileCall
        <5>4. QED
          BY <5>2, <5>3
      <4>3. CASE Same(n)
        <5>1. FileCall(j)' /\ calls'[j].at = g
          BY <4>1, <4>3 DEF Same, FileCall
        <5>2. QED
          BY <4>1, <5>1 DEF FileCall
      <4>4. LeaveEffect \/ Same(n)
        <5>1. \A m : Same(m) => Same(n)
          BY <1>2 DEF Same
        <5>2. DeclareEffect \/ PassEffect => \E m : Same(m)
          BY NonePushed DEF DeclareEffect, PassEffect
        <5>3. \A kind \in FileCalls, f \in Files : FileEffect(kind, f) => \E m : Same(m)
          BY FilePushed DEF One
        <5>4. \A d \in Dirs : DirEffect(d) => \E m : Same(m)
          BY DirPushed DEF One
        <5>5. QED
          BY <1>1, <5>1, <5>2, <5>3, <5>4 DEF Effect
      <4>5. QED
        BY <4>2, <4>3, <4>4
    <3>3. QED
      BY <3>1, <3>2
  <2>4. ASSUME NEW k \in Nat,
               FileCall(i), i = Len(calls), a = calls[i].at, k = Taken(calls[i]), t = k + 1,
               calls # <<>>, Top.rest # <<>>, Top.kind \in FileCalls, ~LeaveEffect,
               a \in Sources, k + 1 \in DOMAIN Contents(a), Item = Contents(a)[k + 1]
        PROVE  g \in Finished' \/ \E j \in DOMAIN calls' : i < j /\ FileCall(j)' /\ calls'[j].at = g
    <3>1. \/ g \in FreeNamed(a, k)
          \/ g \in Free /\ IsImport(Item) /\ g \in DirectOf(Item)
      BY <1>7, <2>1, <2>4, NamedFacts
    <3>2. CASE g \in FreeNamed(a, k)
      <4>1. \A j \in 1..n : ~(i < j)
        BY <1>2, <2>4
      <4>2. g \in Finished
        BY <2>2, <2>4, <3>2, <4>1
      <4>3. QED
        BY <1>3, <4>2
    <3>3. CASE g \in Free /\ IsImport(Item) /\ g \in DirectOf(Item)
      <4>1. g \in NamedBy(Item)
        BY <3>3, NamedByCases
      <4>2. CASE PassEffect
        <5>1. g \in visited \ ToSet(stack)
          BY <2>4, <4>1, <4>2 DEF PassEffect
        <5>2. g \in Finished
          BY <3>3, <5>1, FreeOnStack DEF Finished
        <5>3. QED
          BY <1>3, <5>2
      <4>3. ASSUME NEW kind \in FileCalls, NEW f \in Files, FileEffect(kind, f)
            PROVE  \E j \in DOMAIN calls' : i < j /\ FileCall(j)' /\ calls'[j].at = g
        <5>1. f = g
          BY <2>4, <4>1, <4>3 DEF FileEffect, FileCalls
        <5>2. PICK m, c : One(m, c) /\ c.kind = kind /\ c.at = f
          BY <4>3, FilePushed
        <5>3. One(n, c)
          BY <1>2, <5>2 DEF One, Same
        <5>4. n + 1 \in DOMAIN calls' /\ calls'[n + 1] = c /\ i < n + 1
          BY <1>2, <2>4, <5>3 DEF One
        <5>5. FileCall(n + 1)'
          BY <4>3, <5>2, <5>4 DEF FileCall
        <5>6. QED
          BY <5>1, <5>2, <5>4, <5>5
      <4>4. ASSUME NEW d \in Dirs, DirEffect(d) PROVE FALSE
        BY <3>3, <4>4, ProjectFacts DEF DirEffect, DirectOf, TypeInv
      <4>5. CASE DeclareEffect
        BY <3>3, <4>5 DEF DeclareEffect
      <4>6. QED
        BY <1>1, <2>4, <4>2, <4>3, <4>4, <4>5 DEF Effect
    <3>4. QED
      BY <3>1, <3>2, <3>3
  <2>5. CASE t = 0 /\ a \in Sources
    BY <1>7, <2>1, <2>5, NamedFacts
  <2>6. QED
    BY <2>1, <2>3, <2>4, <2>5
<1>8. (\A f \in Finished \cap Free : FreeUses(f) \subseteq Finished /\ ~OnCycle(FreeUses, f))'
  BY <1>4, <1>5, <1>6
<1>9. (\A i \in DOMAIN calls : FileCall(i) =>
        \A g \in FreeNamed(calls[i].at, Taken(calls[i])) :
          g \in Finished \/ \E j \in DOMAIN calls : i < j /\ FileCall(j) /\ calls[j].at = g)'
  BY <1>4, <1>7
<1>10. QED
  BY <1>8, <1>9 DEF AcyclicInv

LEMMA LoadStep ==
  ASSUME TypeInv, LoadInv, Goes
  PROVE  TypeInv' /\ LoadInv'
<1>1. CallInv /\ StackInv /\ ChainInv /\ ReachInv /\ MergedInv
  BY DEF LoadInv
<1>2. TypeInv'
  BY <1>1, TypeStep
<1>3. CallInv'
  BY <1>1, CallStep
<1>4. StackInv'
  BY <1>1, StackStep
<1>5. ChainInv'
  BY <1>1, ChainStep
<1>6. ReachInv'
  BY <1>1, ReachStep
<1>7. MergedInv'
  BY <1>1, MergedStep
<1>8. ASSUME diags' = {} PROVE diags = {}
  BY <1>8 DEF Goes, Effect, DeclareEffect, PassEffect, FileEffect, DirEffect, LeaveEffect
<1>9. ASSUME diags' = {} PROVE ClosureInv'
  BY <1>1, <1>8, <1>9, ClosureStep DEF LoadInv
<1>10. ASSUME diags' = {} PROVE AcyclicInv'
  BY <1>1, <1>8, <1>10, AcyclicStep DEF LoadInv
<1>11. QED
  BY <1>2, <1>3, <1>4, <1>5, <1>6, <1>7, <1>9, <1>10 DEF LoadInv

--------------------------------------------------------------------------------
(* Before and after.                                                            *)

(* Load's own call is on.                                                       *)
Begun(c) ==
  /\ c \in Frames /\ c.rest = ListOf(c) /\ c.at = project.root
  /\ phase' = "load" /\ verdict = Nil /\ UNCHANGED <<project, verdict, decls, diags>>
  /\ calls' \in Seq(Frames) /\ Len(calls') = 1 /\ calls'[1] = c
  /\ stack' \in Seq(Files)
  /\ \/ c.kind = "root file" /\ visited' = {c.at} /\ Len(stack') = 1 /\ stack'[1] = c.at
     \/ c.kind = "root directory" /\ ~FileAt(project.root) /\ visited' = {} /\ Len(stack') = 0

LEMMA OneIndex == 1 \in 1..1 /\ (\A i \in 1..1 : i = 1) /\ \A i, j \in 1..1 : ~(i < j)
  OBVIOUS

LEMMA OneLong ==
  ASSUME NEW S, NEW s \in Seq(S)
  PROVE  Len(s) = 1 => DOMAIN s = 1..1
  OBVIOUS

LEMMA NoneLong ==
  ASSUME NEW S, NEW s \in Seq(S)
  PROVE  Len(s) = 0 => DOMAIN s = {}
  OBVIOUS

LEMMA FirstCall ==
  ASSUME TypeInv, Fresh, NEW c, Begun(c)
  PROVE  TypeInv' /\ LoadInv'
<1>0. project' = project /\ c \in Frames /\ c.rest = ListOf(c)
  BY DEF Begun
<1>1. DOMAIN calls' = 1..1 /\ calls'[1] = c /\ calls' \in Seq(Frames) /\ 1 \in 1..1 /\ \A i \in 1..1 : i = 1
  BY OneIndex, OneLong DEF Begun
<1>2. InOrder(c) /\ Taken(c) = 0
  BY <1>0, NewCall
<1>3. PICK r : r = project.root /\ c.at = r
  BY DEF Begun
<1>4. /\ c.kind = "root file" => c.kind \in FileCalls /\ c.kind \notin DirCalls
      /\ c.kind = "root directory" => c.kind \in DirCalls /\ c.kind \notin FileCalls
  BY DEF FileCalls, DirCalls
<1>4a. c.kind \in {"root file", "root directory"}
  BY DEF Begun
<1>5. /\ c.kind = "root file" => r \in Sources /\ r \in Files /\ FileAt(r) /\ ListOf(c) = Contents(r)
      /\ c.kind = "root directory" => r \in Dirs /\ ListOf(c) = project.dirs[r] /\ ListOf(c) \in Seq(Files)
  BY <1>0, <1>3, <1>4, ListFacts DEF Sources, FileAt, Files
<1>6. Given = IF c.kind = "root file" THEN {r} ELSE ToSet(c.rest)
  BY <1>0, <1>3, <1>5, <1>4a DEF Given, Begun
<1>7. Given \subseteq Files
  <2>1. ASSUME NEW s \in Seq(Files) PROVE ToSet(s) \subseteq Files
    BY DEF ToSet
  <2>2. QED
    BY <1>0, <1>5, <1>6, <1>4a, <2>1
<1>8. TypeInv'
  <2>1. visited' \subseteq Sources
    BY <1>3, <1>5 DEF Begun
  <2>2. /\ Files' = Files /\ Sources' = Sources /\ Frames' = Frames /\ Trees' = Trees
        /\ \A f : ModuleOf(f)' = ModuleOf(f)
    BY <1>0, SameProject
  <2>3. QED
    BY <1>0, <1>1, <2>1, <2>2 DEF TypeInv, Begun
<1>9. CallInv'
  <2>1. InOrder(c)'
    BY <1>0, <1>2, SameProject DEF InOrder
  <2>2. c.kind # "imported directory" /\ c.kind # "member file"
    BY <1>4a
  <2>3. FileAt(r)' = FileAt(r) /\ Dirs' = Dirs
    BY <1>0, SameProject
  <2>4. WellPlaced(1, c)'
    BY <1>0, <1>3, <1>4, <1>5, <1>4a, <2>1, <2>2, <2>3 DEF WellPlaced, Begun
  <2>5. QED
    BY <1>1, <2>4 DEF CallInv
<1>10. StackInv'
  <2>1. CASE c.kind = "root file"
    <3>1. PICK p : p = [k \in 1..1 |-> 1]
      OBVIOUS
    <3>2. DOMAIN stack' = 1..1 /\ stack'[1] = r
      BY <1>3, <2>1, OneLong DEF Begun
    <3>3. p \in [DOMAIN stack' -> DOMAIN calls'] /\ p[1] = 1
      BY <1>1, <3>1, <3>2
    <3>4. Pushed(1)'
      BY <1>1, <2>1 DEF Pushed
    <3>5. StackMap(p)'
      BY <1>1, <1>3, <2>1, <3>2, <3>3, <3>4, OneIndex DEF StackMap
    <3>6. QED
      BY <3>5 DEF StackMap, StackInv
  <2>2. CASE c.kind = "root directory"
    <3>1. PICK p : p = [k \in {} |-> 1]
      OBVIOUS
    <3>2. DOMAIN stack' = {}
      BY <2>2, NoneLong DEF Begun
    <3>3. ~Pushed(1)'
      BY <1>1, <2>2 DEF Pushed
    <3>4. StackMap(p)'
      BY <1>1, <3>1, <3>2, <3>3 DEF StackMap
    <3>5. QED
      BY <3>4 DEF StackMap, StackInv
  <2>3. QED
    BY <1>4a, <2>1, <2>2
<1>11. ChainInv'
  BY <1>1, OneIndex DEF ChainInv
<1>12. ReachInv'
  <2>1. Reached' = Reached /\ Given \subseteq Reached
    BY <1>0, <1>7, SameProject, ReachedFacts
  <2>2. QED
    BY <1>3, <1>6, <2>1 DEF ReachInv, Begun
<1>13. Finished' = {}
  <2>1. c.kind = "root file" => Expanding(r)'
    BY <1>1, <1>3, <1>4 DEF Expanding, FileCall
  <2>2. QED
    BY <1>3, <2>1 DEF Finished, Begun
<1>14. \A f : FromFile(f) = {} /\ FromFile(f)' = {}
  <2>1. DOMAIN decls = {}
    BY DEF Fresh
  <2>2. decls' = decls
    BY DEF Begun
  <2>3. QED
    BY <2>1, <2>2 DEF FromFile
<1>15. FileCall(1)' <=> c.kind = "root file"
  BY <1>1, <1>4, <1>4a DEF FileCall
<1>16. MergedInv'
  <2>1. c.kind = "root file" => OwnUpTo(r, 0) = {}
    BY <1>5, OwnFacts
  <2>2. ASSUME NEW f PROVE Merged(f, {})'
    BY <1>14 DEF Merged
  <2>3. c.kind = "root file" => FrameMerged(1)'
    BY <1>0, <1>1, <1>2, <1>3, <2>1, <2>2, FrameMergedBy
  <2>4. \A i \in DOMAIN calls' : FrameMerged(i)'
    BY <1>1, <1>15, <2>3 DEF FrameMerged
  <2>5. QED
    BY <1>13, <1>14, <2>4 DEF MergedInv, FrameMerged
<1>17. ClosureInv'
  <2>1. Given' = Given /\ (\A f, k : Named(f, k)' = Named(f, k)) /\ \A e : Taken(e)' = Taken(e)
    BY <1>0, SameProject
  <2>2. c.kind = "root directory" => ToSet(c.rest) \subseteq Waiting'
    BY <1>1, <1>4 DEF Waiting, DirCall
  <2>3. c.kind = "root file" => Named(r, 0) = {}
    BY <1>5, NamedFacts
  <2>4. Given \subseteq (visited \cup Waiting)'
    BY <1>3, <1>6, <1>4a, <2>2 DEF Begun
  <2>5. \A i \in DOMAIN calls' : FileCall(i)' => Named(calls'[i].at, Taken(calls'[i])) = {}
    BY <1>1, <1>2, <1>3, <1>15, <2>3
  <2>6. QED
    BY <1>13, <2>1, <2>4, <2>5 DEF ClosureInv
<1>18. AcyclicInv'
  <2>1. (\A f, k : FreeNamed(f, k)' = FreeNamed(f, k)) /\ \A e : Taken(e)' = Taken(e)
    BY <1>0, SameProject
  <2>2. c.kind = "root file" => FreeNamed(r, 0) = {}
    BY <1>5, NamedFacts
  <2>3. \A i \in DOMAIN calls' : FileCall(i)' => FreeNamed(calls'[i].at, Taken(calls'[i])) = {}
    BY <1>1, <1>2, <1>3, <1>15, <2>2
  <2>4. QED
    BY <1>13, <2>1, <2>3 DEF AcyclicInv
<1>19. QED
  BY <1>8, <1>9, <1>10, <1>11, <1>12, <1>16, <1>17, <1>18 DEF LoadInv

LEMMA StartStep ==
  ASSUME TypeInv, Fresh, phase = "start", LoaderStep
  PROVE  IInv' /\ ("E_CIRCULAR_IMPORT" \notin diags')
<1>1. verdict' = verdict /\ verdict = Nil /\ (LoadFile \/ LoadDirectory \/ LoadNothing)
  BY DEF LoaderStep, LoaderNext, LoadFile, LoadDirectory, LoadNothing, NextRootFile, Declare, ResolveStd,
         ResolveImport, NextMember, Leave, Finish, OnTop, TypeInv
<1>2. ASSUME NEW codes, Refuse(codes), "E_CIRCULAR_IMPORT" \notin codes
      PROVE  IInv' /\ ("E_CIRCULAR_IMPORT" \notin diags')
  <2>1. TypeInv'
    BY <1>1, <1>2, SameProject DEF Refuse, TypeInv
  <2>2. ~Loaded' /\ phase' = "refused" /\ "E_CIRCULAR_IMPORT" \notin diags'
    BY <1>1, <1>2 DEF Refuse, Loaded, Fresh
  <2>3. QED
    BY <2>1, <2>2 DEF IInv
<1>3. ASSUME phase' = "load", TypeInv', LoadInv', diags' = diags
      PROVE  IInv' /\ ("E_CIRCULAR_IMPORT" \notin diags')
  BY <1>3 DEF IInv, Loaded, Fresh
<1>4. PICK r : r = project.root
  OBVIOUS
<1>5. CASE LoadFile /\ Parses(r)
  <2>1. r \in Sources
    BY <1>4, <1>5 DEF LoadFile, FileAt, Files, Sources
  <2>2. PICK c : c = CallOf("root file", r, Contents(r))
    OBVIOUS
  <2>3. c \in Frames /\ c.rest = ListOf(c) /\ c.kind = "root file" /\ c.at = r
    BY <2>1, <2>2, ProjectFacts DEF CallOf, Frames, FileCalls, ListOf, TypeInv
  <2>4. /\ project' = project /\ phase' = "load" /\ decls' = decls /\ diags' = diags
        /\ calls' = <<c>> /\ visited' = {r} /\ stack' = <<r>>
    BY <1>4, <1>5, <2>2 DEF LoadFile
  <2>5. TypeInv' /\ LoadInv'
    <3>1. r \in Files
      BY <2>1 DEF Sources
    <3>2. /\ calls' \in Seq(Frames) /\ Len(calls') = 1 /\ calls'[1] = c
          /\ stack' \in Seq(Files) /\ Len(stack') = 1 /\ stack'[1] = r
      BY <2>3, <2>4, <3>1, OneCall
    <3>3. QED
      BY <1>1, <1>4, <2>3, <2>4, <3>2, FirstCall DEF Begun
  <2>6. QED
    BY <1>3, <2>4, <2>5
<1>6. CASE LoadFile /\ ~Parses(r)
  BY <1>2, <1>4, <1>6 DEF LoadFile
<1>7. CASE LoadDirectory /\ project.dirs[r] # <<>>
  <2>1. r \in Dirs /\ ~FileAt(r)
    BY <1>4, <1>7, ProjectFacts DEF LoadDirectory, DirAt, Dirs, FileAt, Files, TypeInv
  <2>2. PICK c : c = CallOf("root directory", r, project.dirs[r])
    OBVIOUS
  <2>3. c \in Frames /\ c.rest = ListOf(c) /\ c.kind = "root directory" /\ c.at = r
    <3>1. project.dirs[r] \in Seq(Files)
      BY <2>1, ProjectFacts DEF TypeInv
    <3>2. QED
      BY <2>1, <2>2, <3>1 DEF CallOf, Frames, FileCalls, DirCalls, ListOf
  <2>4. /\ project' = project /\ phase' = "load" /\ decls' = decls /\ diags' = diags
        /\ calls' = <<c>> /\ visited' = {} /\ stack' = <<>>
    BY <1>4, <1>7, <2>2 DEF LoadDirectory, Fresh
  <2>5. TypeInv' /\ LoadInv'
    <3>1. /\ calls' \in Seq(Frames) /\ Len(calls') = 1 /\ calls'[1] = c
          /\ stack' \in Seq(Files) /\ Len(stack') = 0
      BY <2>3, <2>4, OneCall, EmptySeq
    <3>2. QED
      BY <1>1, <1>4, <2>1, <2>3, <2>4, <3>1, FirstCall DEF Begun
  <2>6. QED
    BY <1>3, <2>4, <2>5
<1>8. CASE LoadDirectory /\ project.dirs[r] = <<>>
  BY <1>2, <1>4, <1>8 DEF LoadDirectory
<1>9. CASE LoadNothing
  BY <1>2, <1>9 DEF LoadNothing
<1>10. QED
  BY <1>1, <1>5, <1>6, <1>7, <1>8, <1>9

LEMMA WellMergedKept ==
  ASSUME TypeInv, project' = project, decls' = decls, WellMerged
  PROVE  WellMerged'
<1>1. \A f : FromFile(f)' = FromFile(f)
  BY DEF FromFile
<1>2. \A f, own : Merged(f, own) => Merged(f, own)'
  BY <1>1, MergedKept
<1>3. /\ Files' = Files /\ Reached' = Reached /\ Free' = Free
      /\ \A f : OwnOf(f)' = OwnOf(f) /\ FreeUses(f)' = FreeUses(f)
  BY SameProject
<1>4. \A f \in Files : Merged(f, IF f \in Reached THEN OwnOf(f) ELSE {})'
  <2>1. TAKE f \in Files
  <2>2. PICK own : own = IF f \in Reached THEN OwnOf(f) ELSE {}
    OBVIOUS
  <2>3. Merged(f, own)'
    BY <1>2, <2>2 DEF WellMerged
  <2>4. QED
    BY <1>3, <2>2, <2>3
<1>5. \A f : OnCycle(FreeUses, f)' => OnCycle(FreeUses, f)
  BY <1>3 DEF OnCycle, Closed
<1>6. QED
  BY <1>3, <1>4, <1>5 DEF WellMerged

(* At the end what was visited is what the imports reach.                       *)
LEMMA FinishStep ==
  ASSUME TypeInv, phase = "load", LoadInv, LoaderStep, Finish
  PROVE  IInv' /\ ("E_CIRCULAR_IMPORT" \in diags' => "E_CIRCULAR_IMPORT" \in diags)
<1>1. /\ calls = <<>> /\ verdict' = verdict /\ verdict = Nil
      /\ UNCHANGED <<project, visited, stack, calls, decls>>
  BY DEF Finish, LoaderStep, TypeInv
<1>2. "E_CIRCULAR_IMPORT" \in diags' => "E_CIRCULAR_IMPORT" \in diags
  BY DEF Finish, CheckCollisions
<1>3. TypeInv'
  BY <1>1, SameProject DEF Finish, TypeInv
<1>4. CASE phase' = "refused"
  BY <1>1, <1>2, <1>3, <1>4 DEF IInv, Loaded
<1>5. CASE phase' = "loaded"
  <2>1. diags = {} /\ ClosureInv /\ AcyclicInv /\ MergedInv /\ ReachInv
    BY <1>5 DEF Finish, LoadInv
  <2>2. DOMAIN calls = {} /\ Finished = visited /\ Waiting = {}
    BY <1>1 DEF Finished, Expanding, Waiting
  <2>3. Given \subseteq visited /\ \A f \in visited : Uses(f) \subseteq visited
    BY <2>1, <2>2 DEF ClosureInv
  <2>4. visited = Reached
    <3>1. visited \in SUBSET Files
      BY DEF TypeInv, Sources
    <3>2. Reached \subseteq visited
      BY <2>3, <3>1, ReachedFacts
    <3>3. QED
      BY <2>1, <3>2 DEF ReachInv
  <2>5. \A f \in Files : Merged(f, IF f \in Reached THEN OwnOf(f) ELSE {})
    <3>1. TAKE f \in Files
    <3>2. CASE f \in Reached
      BY <2>1, <2>2, <2>4, <3>2 DEF MergedInv
    <3>3. CASE f \notin Reached
      <4>1. FromFile(f) = {}
        BY <2>1, <2>4, <3>3 DEF MergedInv
      <4>2. QED
        BY <3>3, <4>1 DEF Merged
    <3>4. QED
      BY <3>2, <3>3
  <2>6. \A f \in Free : ~OnCycle(FreeUses, f)
    BY <2>1, <2>2, <2>4 DEF AcyclicInv, Free
  <2>7. WellMerged'
    BY <1>1, <2>5, <2>6, WellMergedKept DEF WellMerged
  <2>8. QED
    BY <1>2, <1>3, <1>5, <2>7 DEF IInv
<1>6. QED
  BY <1>4, <1>5 DEF Finish

--------------------------------------------------------------------------------
(* The invariant.                                                               *)

LEMMA Initially == Init => IInv /\ CyclesTold
  BY EmptySeq DEF Init, LoaderInit, IInv, TypeInv, Fresh, Loaded, CyclesTold

LEMMA Inductive == IInv /\ [Next]_vars => IInv'
<1>1. SUFFICES ASSUME IInv, [Next]_vars PROVE IInv'
  OBVIOUS
<1>2. TypeInv /\ (phase = "start" => Fresh) /\ (phase = "load" => LoadInv) /\ (Loaded => WellMerged)
  BY <1>1 DEF IInv
<1>3. ASSUME UNCHANGED <<project, visited, stack, calls, decls>>, phase' \notin {"start", "load"},
             phase' \in {"loaded", "accepted", "built", "ran", "refused"},
             phase' = "loaded" => verdict' = Nil,
             Loaded' => Loaded
      PROVE  IInv'
  <2>1. TypeInv'
    BY <1>2, <1>3, SameProject DEF TypeInv
  <2>2. Loaded' => WellMerged'
    BY <1>2, <1>3, WellMergedKept
  <2>3. QED
    BY <1>3, <2>1, <2>2 DEF IInv
<1>4. CASE LoaderStep
  <2>1. phase \in {"start", "load"}
    BY <1>4 DEF LoaderStep, LoaderNext, LoadFile, LoadDirectory, LoadNothing, NextRootFile, Declare, ResolveStd,
                ResolveImport, NextMember, Leave, Finish, OnTop
  <2>2. CASE phase = "start"
    BY <1>2, <1>4, <2>2, StartStep
  <2>3. CASE phase = "load"
    <3>1. CASE Goes
      BY <1>2, <2>3, <3>1, LoadStep DEF IInv, Goes, Loaded
    <3>2. CASE Refused
      BY <1>2, <1>3, <2>3, <3>2 DEF Refused, Loaded, TypeInv
    <3>3. CASE Finish
      BY <1>2, <1>4, <2>3, <3>3, FinishStep
    <3>4. QED
      BY <1>2, <1>4, <2>3, <3>1, <3>2, <3>3, StepEffect
  <2>4. QED
    BY <2>1, <2>2, <2>3
<1>5. CASE Check
  BY <1>3, <1>5 DEF Check, Loaded
<1>6. CASE Generate
  BY <1>3, <1>6 DEF Generate, Loaded
<1>7. CASE Run
  BY <1>3, <1>7 DEF Run, Loaded
<1>8. CASE UNCHANGED vars
  <2>1. /\ project' = project /\ decls' = decls /\ phase' = phase /\ verdict' = verdict
        /\ visited' = visited /\ stack' = stack /\ calls' = calls /\ diags' = diags
    BY <1>8 DEF vars, loaderVars
  <2>2. TypeInv'
    BY <1>2, <2>1, SameProject DEF TypeInv
  <2>3. Loaded' => WellMerged'
    BY <1>2, <2>1, WellMergedKept DEF Loaded
  <2>4. (phase = "start" => Fresh)'
    BY <1>2, <2>1 DEF Fresh
  <2>5. (phase = "load" => LoadInv)'
    <3>1. /\ \A i : (FileCall(i)' <=> FileCall(i)) /\ (DirCall(i)' <=> DirCall(i)) /\ (Pushed(i)' <=> Pushed(i))
          /\ \A f : FromFile(f)' = FromFile(f)
      BY <2>1 DEF FileCall, DirCall, Pushed, FromFile
    <3>2. Finished' = Finished /\ Waiting' = Waiting
      BY <2>1, <3>1 DEF Finished, Expanding, Waiting
    <3>3. CallInv => CallInv'
      BY <2>1, <3>1, WellPlacedKept DEF CallInv
    <3>4. StackInv => StackInv'
      BY <2>1, <3>1 DEF StackInv
    <3>5. ChainInv => ChainInv'
      BY <2>1, <3>1, SameProject DEF ChainInv
    <3>6. ReachInv => ReachInv'
      BY <2>1, SameProject DEF ReachInv
    <3>7. MergedInv => MergedInv'
      <4>1. \A f, own : Merged(f, own)' <=> Merged(f, own)
        BY <2>1, <3>1, SameProject DEF Merged, Origin
      <4>2. QED
        BY <2>1, <3>1, <3>2, <4>1, SameProject DEF MergedInv
    <3>8. ClosureInv => ClosureInv'
      BY <2>1, <3>1, <3>2, SameProject DEF ClosureInv
    <3>9. AcyclicInv => AcyclicInv'
      <4>1. \A f : OnCycle(FreeUses, f)' => OnCycle(FreeUses, f)
        BY <2>1, SameProject DEF OnCycle, Closed
      <4>2. /\ \A f, k : FreeNamed(f, k)' = FreeNamed(f, k)
            /\ \A f : FreeUses(f)' = FreeUses(f)
            /\ \A e : Taken(e)' = Taken(e)
            /\ Free' = Free
        BY <2>1, SameProject
      <4>3. SUFFICES ASSUME AcyclicInv PROVE AcyclicInv'
        OBVIOUS
      <4>4. (\A f \in Finished \cap Free : FreeUses(f) \subseteq Finished /\ ~OnCycle(FreeUses, f))'
        BY <3>2, <4>1, <4>2, <4>3 DEF AcyclicInv
      <4>5. ASSUME NEW i \in DOMAIN calls', FileCall(i)', NEW g, g \in FreeNamed(calls'[i].at, Taken(calls'[i]))
            PROVE  g \in Finished' \/ \E j \in DOMAIN calls' : i < j /\ FileCall(j)' /\ calls'[j].at = g
        <5>1. g \in Finished \/ \E j \in DOMAIN calls : i < j /\ FileCall(j) /\ calls[j].at = g
          BY <2>1, <3>1, <4>3, <4>5 DEF AcyclicInv
        <5>2. QED
          BY <2>1, <3>1, <3>2, <5>1
      <4>6. QED
        BY <4>2, <4>4, <4>5 DEF AcyclicInv
    <3>10. QED
      BY <1>2, <2>1, <3>3, <3>4, <3>5, <3>6, <3>7, <3>8, <3>9 DEF LoadInv
  <2>6. QED
    BY <2>2, <2>3, <2>4, <2>5 DEF IInv
<1>9. QED
  BY <1>1, <1>4, <1>5, <1>6, <1>7, <1>8 DEF Next

LEMMA Invariance == Spec => []IInv
<1>1. Init => IInv
  BY Initially
<1>2. IInv /\ [Next]_vars => IInv'
  BY Inductive
<1>3. QED
  BY <1>1, <1>2, PTL DEF Spec

--------------------------------------------------------------------------------
(* The theorems.                                                                *)

(* What the loader keeps has its form for every project: files that parse are   *)
(* visited, and each call has a list of declarations or of files left.          *)
THEOREM TypeCorrect == Spec => []TypeInv
<1>1. IInv => TypeInv
  BY DEF IInv
<1>2. QED
  BY <1>1, Invariance, PTL

(* A merged module has the declarations of each file that the imports reach,    *)
(* once and in their order, whatever the imports are: a diamond, a directory    *)
(* imported from within, a file under two names (loader.go expand, enter,       *)
(* resolveImportDir).                                                           *)
THEOREM MergedOnce == Spec => []OnceEach
<1>1. IInv => OnceEach
  <2>1. SUFFICES ASSUME IInv, Loaded, NEW f \in Files, NEW own, own = IF f \in Reached THEN OwnOf(f) ELSE {}
                 PROVE  /\ Cardinality(FromFile(f)) = Cardinality(own)
                        /\ \A i \in FromFile(f), j \in own :
                             Place(i, FromFile(f)) = Place(j, own) => decls[i] = Origin(Contents(f)[j], f)
    BY DEF OnceEach
  <2>2. Merged(f, own)
    BY <2>1 DEF IInv, WellMerged
  <2>3. QED
    BY <2>2 DEF Merged
<1>2. QED
  BY <1>1, Invariance, PTL

(* The checker reports cycles of imports nowhere: the code is the loader's      *)
(* alone (loader.go:209).                                                       *)
CheckerTellsNoCycle == \A r, ds : "E_CIRCULAR_IMPORT" \notin Checking(r, ds).errs

(* A cycle is told only where a file is reached that leads to itself, and files *)
(* that import each other and are in no imported directory are never merged     *)
(* (loader.go enter: the stack is looked at before the visited files).          *)
THEOREM CyclesFound == ASSUME CheckerTellsNoCycle PROVE Spec => []CycleVerdict
<1>1. IInv /\ CyclesTold /\ [Next]_vars => CyclesTold'
  <2>1. SUFFICES ASSUME IInv, CyclesTold, [Next]_vars PROVE CyclesTold'
    OBVIOUS
  <2>2. project' = project
    BY <2>1 DEF Next, vars, loaderVars, LoaderStep, LoaderNext, LoadFile, LoadDirectory, LoadNothing, NextRootFile,
                Declare, ResolveStd, ResolveImport, NextMember, Leave, Finish, EnterImport, Enter, Skip, Fault,
                Refuse, Check, Generate, Run
  <2>3. Reached' = Reached /\ \A f : OnCycle(Uses, f) => OnCycle(Uses, f)'
    BY <2>2, SameProject DEF OnCycle, Closed
  <2>4. CASE "E_CIRCULAR_IMPORT" \in diags' => "E_CIRCULAR_IMPORT" \in diags
    BY <2>1, <2>3, <2>4 DEF CyclesTold
  <2>5. CASE LoaderStep
    <3>1. CASE phase = "start"
      BY <2>1, <2>4, <2>5, <3>1, StartStep DEF IInv
    <3>2. CASE phase = "load"
      <4>1. CASE Goes
        BY <2>1, <3>2, <4>1, CycleStep DEF IInv, LoadInv
      <4>2. CASE Refused
        BY <2>4, <4>2 DEF Refused
      <4>3. CASE Finish
        BY <2>1, <2>4, <2>5, <3>2, <4>3, FinishStep DEF IInv
      <4>4. QED
        BY <2>1, <2>5, <3>2, <4>1, <4>2, <4>3, StepEffect DEF IInv
    <3>3. phase \in {"start", "load"}
      BY <2>5 DEF LoaderStep, LoaderNext, LoadFile, LoadDirectory, LoadNothing, NextRootFile, Declare, ResolveStd,
                  ResolveImport, NextMember, Leave, Finish, OnTop
    <3>4. QED
      BY <3>1, <3>2, <3>3
  <2>6. CASE Check
    BY <2>4, <2>6, CheckerTellsNoCycle DEF Check, CheckerTellsNoCycle
  <2>7. CASE Generate \/ Run \/ UNCHANGED vars
    BY <2>4, <2>7 DEF Generate, Run, vars, loaderVars
  <2>8. QED
    BY <2>1, <2>5, <2>6, <2>7 DEF Next
<1>2. IInv /\ CyclesTold => CycleVerdict
  BY DEF IInv, CyclesTold, WellMerged, CycleVerdict, Free, Listed, FreeUses, OnCycle, Closed
<1>3. Init => CyclesTold
  BY Initially
<1>4. QED
  BY <1>1, <1>2, <1>3, Invariance, PTL DEF Spec
================================================================================
