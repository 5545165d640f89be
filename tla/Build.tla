---------------------------------- MODULE Build ----------------------------------
(* liafc from the files to the running program: parseAndCheck of                *)
(* cmd/liafc/check.go, and what its Go then does.  The checker, the generator   *)
(* and the meaning of programs are functions: modules Checker, GoCode, Running. *)
EXTENDS Loader

CONSTANTS
  Checking(_, _),       \* the verdict on a merged module of a root
  Generating(_, _, _),  \* the Go of it
  Doing(_, _, _),       \* what the source asks for in a world
  DoingGo(_, _, _),     \* what the Go does in it
  Compiling(_),         \* whether the Go compiles
  Ordering(_, _),       \* whether the source is one whose order Go keeps
  CallsOf(_),           \* the calls in the Go, as units and identifiers
  OwnersOf(_, _),       \* the units a Go identifier is of
  Worlds                \* the calls of the library that fail

VARIABLES
  verdict,   \* what checker.Check found, Nil before
  go,        \* the generated program, Nil before
  ran        \* one run of it, Nil before

vars == <<loaderVars, verdict, go, ran>>

--------------------------------------------------------------------------------

Init == LoaderInit /\ verdict = Nil /\ go = Nil /\ ran = Nil

LoaderStep == LoaderNext /\ UNCHANGED <<verdict, go, ran>>

Check ==
  /\ phase = "loaded"
  /\ verdict' = Checking(RootModule, decls)
  /\ diags' = verdict'.errs
  /\ phase' = IF diags' = {} THEN "accepted" ELSE "refused"
  /\ UNCHANGED <<project, visited, stack, calls, decls, go, ran>>

Generate ==
  /\ phase = "accepted"
  /\ go' = Generating(RootModule, decls, verdict)
  /\ phase' = "built"
  /\ UNCHANGED <<project, visited, stack, calls, decls, diags, verdict, ran>>

Run ==
  /\ phase = "built"
  /\ \E w \in Worlds :
       ran' = [world |-> w, written |-> Doing(decls, verdict, w), built |-> IF Compiling(go) THEN DoingGo(go, decls, w) ELSE <<>>]
  /\ phase' = "ran"
  /\ UNCHANGED <<project, visited, stack, calls, decls, diags, verdict, go>>

Next == LoaderStep \/ Check \/ Generate \/ Run
Spec == Init /\ [][Next]_vars

--------------------------------------------------------------------------------
(* Properties.                                                                  *)

Loaded == phase \in {"loaded", "accepted", "built", "ran"} \/ (phase = "refused" /\ verdict # Nil)

(* The imports of a file, as the files they name: one, or those of a directory. *)
Files == DOMAIN project.files
Imported(f) ==
  IF ~Parses(f) THEN {} ELSE {ImportPath(d) : d \in {x \in ToSet(Contents(f)) : IsImport(x)}}
Key(p) == IF InStd(p) THEN StdKey(p) ELSE Target(p)
DirectFiles(f) == {Key(p) : p \in Imported(f)} \cap Files
DirsOf(f) == {Key(p) : p \in Imported(f)} \cap DOMAIN project.dirs
MembersOf(f) == UNION {ToSet(project.dirs[d]) : d \in DirsOf(f)}
Uses(f) == (DirectFiles(f) \cup MembersOf(f)) \cap Files
Given == IF FileAt(project.root) THEN {project.root} ELSE ToSet(project.dirs[project.root])

(* The least set of files that holds what is given and what its files import.   *)
Closed(S, Succ(_)) == \A f \in S : Succ(f) \subseteq S
Reached == {f \in Files : \A S \in SUBSET Files : Given \subseteq S /\ Closed(S, Uses) => f \in S}
OnCycle(Succ(_), f) == \A S \in SUBSET Files : Succ(f) \subseteq S /\ Closed(S, Succ) => f \in S

(* Whatever the imports are, a diamond, a directory imported from within, a     *)
(* file imported under two names, the merged module holds the declarations of   *)
(* each file that is reached once, in their order, and none of another file:    *)
(* the first of a file's declarations there is the first of its text, and so on *)
(* (loader.go expand, enter, resolveImportDir).                                 *)
Place(i, S) == Cardinality({j \in S : j <= i})
FromFile(f) == {i \in DOMAIN decls : decls[i].file = f}
OwnOf(f) == {j \in DOMAIN Contents(f) : ~IsImport(Contents(f)[j])}
OnceEach ==
  Loaded => \A f \in Files :
    LET own == IF f \in Reached THEN OwnOf(f) ELSE {}
    IN  /\ Cardinality(FromFile(f)) = Cardinality(own)
        /\ \A i \in FromFile(f), j \in own :
             Place(i, FromFile(f)) = Place(j, own) => decls[i] = Origin(Contents(f)[j], f)

(* A cycle is told only where there is one, and files that import each other    *)
(* and are in no imported directory are never merged (loader.go enter).         *)
CycleVerdict ==
  /\ "E_CIRCULAR_IMPORT" \in diags => \E f \in Reached : OnCycle(Uses, f)
  /\ Loaded => LET free == Reached \ UNION {MembersOf(f) : f \in Reached}
                   Direct(f) == DirectFiles(f) \cap free
               IN  \A f \in free : ~OnCycle(Direct, f)

(* The Go function that a call names is one alone, and the one whose parameters *)
(* and effects the checker held the call against, whatever private functions of *)
(* the same name there are (checker.go findFunc; codegen.go New, genFunc;       *)
(* expr.go genCall; routes.go middlewareIdent).                                 *)
BoundAsChecked ==
  go # Nil => \A call \in CallsOf(go) :
    \E b \in verdict.binds :
      /\ b[1] = call[1] /\ b[2] = call[2][2]
      /\ Cardinality(OwnersOf(go, call[2])) = 1 /\ OwnersOf(go, call[2]) \subseteq b[3]

(* In a program that was accepted no run ends a function with a named result    *)
(* that nothing looked at.  A break, a continue, a try that fails and a match   *)
(* with cases excuse the results that are open when they are met (scope.go pop, *)
(* merge; stmt.go statements).                                                  *)
ResultsHandled == ran # Nil => \A i \in DOMAIN ran.written : ran.written[i].lost = {}

(* The Go of a program does what its source says: the same calls in the same    *)
(* order with the same end, if its order is one that Go keeps; and if nothing   *)
(* fails, the same calls and the same end for every program without a match on  *)
(* an enum that others follow (try.go hoistTries; stmt.go genStmt).             *)
Seen(o) == [at |-> o.at, val |-> o.val, log |-> o.log]
Calm(o) == [at |-> o.at, val |-> o.val, log |-> ToSet(o.log)]
RunsAsWritten ==
  ran # Nil => \A i \in DOMAIN ran.built :
    /\ Ordering(decls, verdict) => Seen(ran.built[i]) = Seen(ran.written[i])
    /\ ran.world = {} => ran.built[i].at = "panic" \/ Calm(ran.built[i]) = Calm(ran.written[i])

(* What the generated code says of itself, panic("unreachable") after each      *)
(* switch on an enum (stmt.go:125): no run gets there.  No run of TLC has it: a *)
(* case of a statement that returns nothing breaks it (README).                 *)
Unreachable == ran # Nil => \A i \in DOMAIN ran.built : ran.built[i].at # "panic"
================================================================================
