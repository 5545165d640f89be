--------------------------------- MODULE Loader ---------------------------------
(* pkg/loader: from a file or a directory and its imports to one list of        *)
(* declarations, or to a refusal.  The recursion of the code is a stack of the  *)
(* calls that have not returned; each action is what one of them does next.     *)
EXTENDS Syntax

CONSTANTS
  Projects   \* what may be on disk, with the path Load is given

(* A path is a file's or a directory's; a listing holds files, and what a file  *)
(* parses to has a list of declarations.                                        *)
ASSUME ProjectsAssumption ==
  \A p \in Projects :
    /\ DOMAIN p.files \cap DOMAIN p.dirs = {}
    /\ \A d \in DOMAIN p.dirs : p.dirs[d] \in Seq(DOMAIN p.files)
    /\ \A f \in DOMAIN p.files :
         p.files[f] # Nil => LET c == p.files[f].c[1] IN c \in Seq(ToSet(c))

VARIABLES
  project,   \* files and directories; nothing changes them
  visited,   \* l.visited: the files already parsed
  stack,     \* l.stack: the files whose imports are being expanded
  calls,     \* the calls of loadDirectory, expand and resolveImportDir
  decls,     \* the declarations met so far, in the order of the merged module
  diags,     \* the codes in l.diags
  phase      \* "load", then "loaded" or "refused"

loaderVars == <<project, visited, stack, calls, decls, diags, phase>>

--------------------------------------------------------------------------------
(* The disk.  A path is a name and, for most files, its extension; a file is    *)
(* the tree that it parses to, or Nil.  The files of the library have paths of  *)
(* their own, in std.                                                           *)

LiafExt == ".liaf"
FileAt(p) == p \in DOMAIN project.files
DirAt(p) == p \in DOMAIN project.dirs
Parses(p) == project.files[p] # Nil
Contents(p) == project.files[p].c[1]
ModuleOf(p) == project.files[p].s[1]

ImportPath(d) == d.c[1][1].s
StdPrefix == "std/"
InStd(p) == Head(p) = StdPrefix
IsImport(d) == d.n = "import"
IsStdImport(d) == IsImport(d) /\ InStd(ImportPath(d))

(* A target without an extension is the .liaf file of that name, if there is    *)
(* one; otherwise what the name itself denotes.                                 *)
Target(p) == IF Last(p) # LiafExt /\ FileAt(Append(p, LiafExt)) THEN Append(p, LiafExt) ELSE p
StdKey(p) == IF Last(p) = LiafExt THEN p ELSE Append(p, LiafExt)

(* A declaration with the file it came from (l.origin) and its module.          *)
Origin(d, file) == [tree |-> d, file |-> file, module |-> ModuleOf(file)]

(* The module all others are merged into: the file Load was given, or the first *)
(* of the directory.                                                            *)
RootFile == IF FileAt(project.root) THEN project.root ELSE Head(project.dirs[project.root])
RootModule == ModuleOf(RootFile)

--------------------------------------------------------------------------------
(* Collisions, on the merged list.                                              *)

Symbols == {"fn", "middleware", "struct", "enum"}
IsSymbol(d) == d.tree.n \in Symbols
NameOf(d) == d.tree.s[1]
IsPub(d) == IsSymbol(d) /\ d.tree.s[2] = "pub"

(* Two symbols of one name: those of one file are the checker's, unless the     *)
(* first is public.                                                             *)
SymbolsCollide(d, e) ==
  /\ IsSymbol(d) /\ IsSymbol(e) /\ NameOf(d) = NameOf(e)
  /\ IF d.file = e.file THEN IsPub(d) ELSE IsPub(d) \/ IsPub(e) \/ d.module = e.module

(* A ws-route takes the GET of its path.  Here one file counts as two would.    *)
IsRoute(d) == d.tree.n \in {"route", "ws-route"}
Pattern(d) == <<IF d.tree.n = "route" THEN d.tree.s[1] ELSE "GET", d.tree.c[1][1].s>>
RoutesCollide(d, e) == IsRoute(d) /\ IsRoute(e) /\ Pattern(d) = Pattern(e)

CheckCollisions ==
  LET Found(Collide(_, _)) ==
        \E j \in DOMAIN decls : \E i \in 1..(j - 1) : Collide(decls[i], decls[j])
  IN  (IF Found(SymbolsCollide) THEN {"E_DUPLICATE_DECL"} ELSE {})
      \cup (IF Found(RoutesCollide) THEN {"E_DUPLICATE_ROUTE"} ELSE {})

--------------------------------------------------------------------------------
(* Calls.  A call over a file has its declarations left to expand, one over a   *)
(* directory its files left to load, in the order of their names.               *)

CallOf(kind, at, rest) == [kind |-> kind, at |-> at, rest |-> rest]
Top == calls[Len(calls)]
OnTop(kinds) == phase = "load" /\ calls # <<>> /\ Top.kind \in kinds

(* The top call goes on to the rest of its list.                                *)
Advanced == Append(Front(calls), [Top EXCEPT !.rest = Tail(Top.rest)])

FileCalls == {"root file", "imported file", "member file"}
DirCalls == {"root directory", "imported directory"}

Refuse(codes) ==
  /\ diags' = diags \cup codes
  /\ phase' = "refused"
  /\ UNCHANGED <<project, visited, stack, calls, decls>>

(* An import that fails adds nothing and the others go on.                      *)
Fault(code) ==
  /\ diags' = diags \cup {code}
  /\ calls' = Advanced
  /\ UNCHANGED <<project, visited, stack, decls, phase>>

Skip ==
  /\ calls' = Advanced
  /\ UNCHANGED <<project, visited, stack, decls, diags, phase>>

(* parseFile succeeded: the file is visited and its declarations are next.      *)
Enter(kind, file, below) ==
  /\ visited' = visited \cup {file}
  /\ stack' = IF kind = "member file" THEN stack ELSE Append(stack, file)
  /\ calls' = Append(below, CallOf(kind, file, Contents(file)))
  /\ UNCHANGED <<project, decls, diags, phase>>

--------------------------------------------------------------------------------
(* Load, loadFile and loadDirectory.                                            *)

LoaderInit ==
  /\ project \in Projects
  /\ visited = {} /\ stack = <<>> /\ calls = <<>> /\ decls = <<>>
  /\ diags = {} /\ phase = "start"

LoadFile ==
  /\ phase = "start" /\ FileAt(project.root)
  /\ IF Parses(project.root)
     THEN /\ phase' = "load"
          /\ visited' = {project.root}
          /\ stack' = <<project.root>>
          /\ calls' = <<CallOf("root file", project.root, Contents(project.root))>>
          /\ UNCHANGED <<project, decls, diags>>
     ELSE Refuse({"E_SYNTAX"})

LoadDirectory ==
  /\ phase = "start" /\ DirAt(project.root)
  /\ IF project.dirs[project.root] = <<>> THEN Refuse({"E_NO_LIAF_FILES"})
     ELSE /\ phase' = "load"
          /\ calls' = <<CallOf("root directory", project.root, project.dirs[project.root])>>
          /\ UNCHANGED <<project, visited, stack, decls, diags>>

LoadNothing ==
  /\ phase = "start" /\ ~FileAt(project.root) /\ ~DirAt(project.root)
  /\ Refuse({"E_FILE_NOT_FOUND"})

(* The next file of the directory Load was given; a fault in one refuses the    *)
(* whole, and so does one in an earlier file.                                   *)
NextRootFile ==
  /\ OnTop({"root directory"}) /\ Top.rest # <<>>
  /\ LET f == Head(Top.rest)
     IN  CASE diags # {} -> Refuse({})
           [] diags = {} /\ f \in visited -> Skip
           [] diags = {} /\ f \notin visited /\ ~Parses(f) -> Refuse({"E_SYNTAX"})
           [] OTHER -> Enter("root file", f, Advanced)

--------------------------------------------------------------------------------
(* expand, resolveImport, resolveStd, resolveImportDir.                         *)

Declare ==
  /\ OnTop(FileCalls) /\ Top.rest # <<>>
  /\ ~IsImport(Head(Top.rest))
  /\ decls' = Append(decls, Origin(Head(Top.rest), Top.at))
  /\ calls' = Advanced
  /\ UNCHANGED <<project, visited, stack, diags, phase>>

(* Mutant: a file that was visited is a diamond, even when it is on the stack.  *)
VisitedFirst(file) ==
  CASE file \in visited -> Skip
    [] file \notin visited /\ file \in ToSet(stack) -> Fault("E_CIRCULAR_IMPORT")
    [] OTHER -> IF Parses(file) THEN Enter("imported file", file, Advanced)
                ELSE Fault("E_SYNTAX")

(* Mutant: a file that was visited and is not on the stack is expanded again.   *)
ExpandedAgain(file) ==
  CASE file \in ToSet(stack) -> Fault("E_CIRCULAR_IMPORT")
    [] OTHER -> IF Parses(file) THEN Enter("imported file", file, Advanced)
                ELSE Fault("E_SYNTAX")

(* enter: a file on the stack is a cycle; one visited before is a diamond,      *)
(* whose declarations are in the list already.                                  *)
EnterImport(file) ==
  CASE file \in ToSet(stack) -> Fault("E_CIRCULAR_IMPORT")
    [] file \notin ToSet(stack) /\ file \in visited -> Skip
    [] OTHER -> IF Parses(file) THEN Enter("imported file", file, Advanced)
                ELSE Fault("E_SYNTAX")

ResolveStd ==
  /\ OnTop(FileCalls) /\ Top.rest # <<>> /\ IsStdImport(Head(Top.rest))
  /\ LET key == StdKey(ImportPath(Head(Top.rest)))
     IN  IF FileAt(key) THEN EnterImport(key) ELSE Fault("E_IMPORT_NOT_FOUND")

ResolveImport ==
  /\ OnTop(FileCalls) /\ Top.rest # <<>> /\ IsImport(Head(Top.rest)) /\ ~IsStdImport(Head(Top.rest))
  /\ LET target == Target(ImportPath(Head(Top.rest)))
     IN  CASE InStd(Top.at) -> Fault("E_STD_RELATIVE_IMPORT")
           [] ~InStd(Top.at) /\ DirAt(target) ->
                /\ calls' = Append(Advanced, CallOf("imported directory", target, project.dirs[target]))
                /\ UNCHANGED <<project, visited, stack, decls, diags, phase>>
           [] ~InStd(Top.at) /\ FileAt(target) -> EnterImport(target)
           [] OTHER -> Fault("E_IMPORT_NOT_FOUND")

(* The files of an imported directory are not pushed on the stack: one that was *)
(* visited is skipped, whoever is in the middle of it.                          *)
NextMember ==
  /\ OnTop({"imported directory"}) /\ Top.rest # <<>>
  /\ LET f == Head(Top.rest)
     IN  CASE f \in visited -> Skip
           [] f \notin visited /\ ~Parses(f) -> Fault("E_SYNTAX")
           [] OTHER -> Enter("member file", f, Advanced)

(* A call whose list is used up returns; a file that was pushed leaves.         *)
Leave ==
  /\ OnTop(FileCalls \cup DirCalls) /\ Top.rest = <<>>
  /\ calls' = Front(calls)
  /\ stack' = IF Top.kind \in {"root file", "imported file"} THEN Front(stack) ELSE stack
  /\ UNCHANGED <<project, visited, decls, diags, phase>>

(* Load, at its end.                                                            *)
Finish ==
  /\ phase = "load" /\ calls = <<>>
  /\ diags' = IF diags = {} THEN CheckCollisions ELSE diags
  /\ phase' = IF diags' = {} THEN "loaded" ELSE "refused"
  /\ UNCHANGED <<project, visited, stack, calls, decls>>

LoaderNext ==
  \/ LoadFile \/ LoadDirectory \/ LoadNothing \/ NextRootFile
  \/ Declare \/ ResolveStd \/ ResolveImport \/ NextMember \/ Leave \/ Finish
================================================================================
