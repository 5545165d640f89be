------------------------------- MODULE WebServer -------------------------------
(* The static server of pkg/web (server.go, cache.go, admin.go): requests read  *)
(* one map of routes, held in an atomic pointer; a reload builds a new map file *)
(* by file while people edit the directory, and swaps the pointer; a publication *)
(* replaces one file and reloads under the same mutex, and undoes the file when *)
(* the reload fails.  The process may stop at any point and start again.        *)
EXTENDS WebSite

CONSTANTS Admins,       \* requests to /_liaf/publish and /_liaf/reload
          Boot,         \* the Reload of NewServer
          Reloaders,    \* those of Admins that may ask for a reload
          Targets,      \* names a publication may ask for
          Editable,     \* files somebody may change or delete behind the server
          Urls,         \* pages the browser opens
          WalkOrder,    \* every name, in the lexical order of the walk
          Template,     \* name -> the node of the file but for its version
          Sites,        \* initial directories: functions from names to versions
          TmpOf,        \* Admins -> the hidden name a publication writes first
          MaxFetches, MaxTrouble   \* bounds: references a browser fetches; edits,
                        \* directory swaps, faults and crashes together

Free == "free"

(* The name of a publication's hidden file is random and the file is created    *)
(* exclusively: nobody has it before, edits it or takes the same.  What is in   *)
(* the directory at the start counts as version 1.                              *)
ASSUME ProcessesAssumption ==
  /\ Free \notin Admins \cup {Boot} /\ Boot \notin Admins
  /\ Reloaders \subseteq Admins
ASSUME NamesAssumption ==
  /\ \A p \in Admins : TmpOf[p].base \in HiddenBases /\ TmpOf[p] \notin Editable
  /\ \A p, q \in Admins : TmpOf[p] = TmpOf[q] => p = q
  /\ \A d \in Sites : /\ \A p \in Admins : TmpOf[p] \notin DOMAIN d
                      /\ \A f \in DOMAIN d : d[f] = 1

(* Every file has a node, in which no source carries a fingerprint of its own:  *)
(* a reference's v is the pipeline's.  What is published becomes a regular      *)
(* file, whatever its name was before.                                          *)
ASSUME TemplateAssumption ==
  /\ \A f \in DOMAIN Template : IsNode(Template[f])
  /\ \A p \in Admins : TmpOf[p] \in DOMAIN Template
  /\ Editable \subseteq DOMAIN Template
  /\ \A f \in Targets : ~IsHidden(f) => f \in DOMAIN Template /\ ~Template[f].link
  /\ \A d \in Sites : DOMAIN d \subseteq DOMAIN Template
ASSUME WalkOrderAssumption ==
  IsSeq(WalkOrder) /\ DOMAIN Template \subseteq ToSet(WalkOrder)

VARIABLES disk,      \* name -> version: the directory, as the file system holds it
          away,      \* the directory while it is renamed away, or NoDir
          cache,     \* the map of routes the pointer holds, or NoCache
          lock,      \* the holder of mutationMu
          walk,      \* the load under way: [todo, acc]
          op,        \* Admins and Boot -> the state of the request
          view,      \* the page the browser shows: the references it has to fetch
          kept,      \* immutable answers the browser keeps: reference -> version
          clock,     \* the last version given to a content
          trouble

serverVars == <<disk, away, cache, lock, walk, op>>
browserVars == <<view, kept>>
vars == <<disk, away, cache, lock, walk, op, view, kept, clock, trouble>>

NoCache == [up |-> FALSE, assets |-> <<>>]
NoDir == [gone |-> FALSE, was |-> <<>>]
NoWalk == [todo |-> {}, acc |-> EmptyWalk]

Site(d) == [f \in DOMAIN d |-> [Template[f] EXCEPT !.ver = d[f]]]
Without(d, f) == [g \in DOMAIN d \ {f} |-> d[g]]

(* before, was and touched are auxiliary: the directory and the map when the    *)
(* request took the mutex, and what was edited behind the server since then.    *)
Request(kind, target, pc) ==
  [kind |-> kind, pc |-> pc, target |-> target, data |-> 0, old |-> 0,
   before |-> <<>>, was |-> NoCache, touched |-> {}]
Idle == Request("none", NoName, "idle")

Init == /\ disk \in Sites
        /\ away = NoDir
        /\ cache = NoCache
        /\ lock = Free
        /\ walk = NoWalk
        /\ op = [p \in Admins \cup {Boot} |-> Idle]
        /\ view = {} /\ kept = <<>>
        /\ clock = 1 /\ trouble = 0

Trouble == trouble < MaxTrouble /\ trouble' = trouble + 1
Goto(p, pc) == op' = [op EXCEPT ![p].pc = pc]

(* Mutant: an error path returns without unlocking.                             *)
AnswerHoldsLock(p, pc) ==
  /\ op' = [op EXCEPT ![p] = [Idle EXCEPT !.pc = pc]]
  /\ lock' = IF pc = "ok" THEN Free ELSE lock
  /\ walk' = NoWalk

(* The deferred Remove(tmp), the answer and the release of the mutex.           *)
Answer(p, pc) ==
  /\ op' = [op EXCEPT ![p] = [Idle EXCEPT !.pc = pc]]
  /\ lock' = Free
  /\ walk' = NoWalk

Env == UNCHANGED <<away, clock>>

--------------------------------------------------------------------------------
(* The handlers: serveAdmin, handlePublish, handleReload.                       *)

AskReload(p) ==
  /\ cache.up /\ op[p].pc = "idle"
  /\ op' = [op EXCEPT ![p] = Request("reload", NoName, "wait")]
  /\ UNCHANGED <<disk, cache, lock, walk, trouble>> /\ Env /\ UNCHANGED browserVars

(* A hidden name is refused before the body is read: the answer 400 changes     *)
(* nothing.                                                                     *)
AskPublish(p, f) ==
  /\ cache.up /\ op[p].pc = "idle" /\ ~IsHidden(f)
  /\ op' = [op EXCEPT ![p] = Request("publish", f, "wait")]
  /\ UNCHANGED <<disk, cache, lock, walk, trouble>> /\ Env /\ UNCHANGED browserVars

(* Mutant: the mutex is not waited for.                                         *)
LockUnguarded(p) ==
  /\ op[p].pc = "wait"
  /\ lock' = p
  /\ op' = [op EXCEPT ![p].pc = IF op[p].kind = "publish" THEN "create" ELSE "list",
                      ![p].before = disk, ![p].was = cache, ![p].touched = {}]
  /\ UNCHANGED <<disk, cache, walk, trouble>> /\ Env /\ UNCHANGED browserVars

Lock(p) ==
  /\ op[p].pc = "wait" /\ lock = Free
  /\ lock' = p
  /\ op' = [op EXCEPT ![p].pc = IF op[p].kind = "publish" THEN "create" ELSE "list",
                      ![p].before = disk, ![p].was = cache, ![p].touched = {}]
  /\ UNCHANGED <<disk, cache, walk, trouble>> /\ Env /\ UNCHANGED browserVars

(* MkdirAll, the exclusive creation of the hidden file, its write, sync and     *)
(* close: any of them may fail, and the hidden file is then removed.  Versions  *)
(* number the contents in the order they reach the directory.                   *)
Create(p) ==
  /\ op[p].pc = "create"
  /\ \/ /\ ~away.gone
        /\ disk' = Put(disk, TmpOf[p], clock + 1)
        /\ op' = [op EXCEPT ![p].pc = "readold", ![p].data = clock + 1]
        /\ clock' = clock + 1
        /\ UNCHANGED <<lock, walk, trouble>>
     \/ /\ (away.gone /\ UNCHANGED trouble) \/ Trouble
        /\ Answer(p, "failed") /\ UNCHANGED <<disk, clock>>
  /\ UNCHANGED <<cache, away>> /\ UNCHANGED browserVars

(* The target's former content, 0 when it did not exist.                        *)
ReadOld(p) ==
  /\ op[p].pc = "readold"
  /\ \/ /\ op' = [op EXCEPT ![p].pc = "rename",
                            ![p].old = IF op[p].target \in DOMAIN disk THEN disk[op[p].target] ELSE 0]
        /\ UNCHANGED <<disk, lock, walk, trouble>>
     \/ Trouble /\ Answer(p, "failed") /\ disk' = Without(disk, TmpOf[p])
  /\ UNCHANGED cache /\ Env /\ UNCHANGED browserVars

Rename(p) ==
  /\ op[p].pc = "rename"
  /\ \/ /\ disk' = Put(Without(disk, TmpOf[p]), op[p].target, op[p].data)
        /\ Goto(p, "list")
        /\ UNCHANGED <<lock, walk, trouble>>
     \/ Trouble /\ Answer(p, "failed") /\ disk' = Without(disk, TmpOf[p])
  /\ UNCHANGED cache /\ Env /\ UNCHANGED browserVars

--------------------------------------------------------------------------------
(* reloadLocked: LoadDirectory into a new map, then the pointer.                *)

(* The walk takes the names it has listed in their order.                       *)
NextOf(todo) == WalkOrder[Min({i \in DOMAIN WalkOrder : WalkOrder[i] \in todo})]

(* A directory that cannot be opened is created, or taken for an empty one: the *)
(* load succeeds with no asset at all.                                          *)
List(p) ==
  /\ op[p].pc = "list"
  /\ IF away.gone
     THEN /\ cache' = [up |-> TRUE, assets |-> <<>>]
          /\ Answer(p, "ok")
     ELSE /\ walk' = [todo |-> DOMAIN disk, acc |-> EmptyWalk]
          /\ Goto(p, "load")
          /\ UNCHANGED <<cache, lock>>
  /\ UNCHANGED <<disk, trouble>> /\ Env /\ UNCHANGED browserVars

(* Mutant: the file stays when the load fails.                                  *)
LoadFailsKeepingFile(p) == UNCHANGED cache /\ Answer(p, "failed")

(* Mutant: the map in use is filled in place, so a failed load leaves its part. *)
LoadFailsInPlace(p) ==
  /\ cache' = [up |-> TRUE, assets |-> Finish(walk.acc, Site(disk))]
  /\ IF op[p].kind = "publish"
     THEN /\ Goto(p, IF op[p].old # 0 THEN "restore" ELSE "remove")
          /\ walk' = NoWalk /\ UNCHANGED lock
     ELSE Answer(p, "failed")

(* The failed load of a publication has the file undone; a reload only answers; *)
(* a server that starts does not start.                                         *)
LoadFails(p) ==
  /\ UNCHANGED cache
  /\ IF op[p].kind = "publish"
     THEN /\ Goto(p, IF op[p].old # 0 THEN "restore" ELSE "remove")
          /\ walk' = NoWalk /\ UNCHANGED lock
     ELSE Answer(p, "failed")

VisitFile(p) ==
  /\ op[p].pc = "load" /\ walk.todo # {}
  /\ LET f == NextOf(walk.todo)
     IN  \/ /\ f \in DOMAIN disk \/ IsHidden(f)
            /\ walk' = [todo |-> walk.todo \ {f},
                        acc |-> IF IsHidden(f) THEN walk.acc ELSE Visit(walk.acc, Site(disk), f)]
            /\ UNCHANGED <<cache, lock, op, trouble>>
         \/ /\ (f \notin DOMAIN disk /\ ~IsHidden(f) /\ UNCHANGED trouble) \/ Trouble
            /\ LoadFails(p)
  /\ UNCHANGED disk /\ Env /\ UNCHANGED browserVars

Swap(p) ==
  /\ op[p].pc = "load" /\ walk.todo = {}
  /\ cache' = [up |-> TRUE, assets |-> Finish(walk.acc, Site(disk))]
  /\ Answer(p, "ok")
  /\ UNCHANGED <<disk, trouble>> /\ Env /\ UNCHANGED browserVars

(* The rollback: the former content through the hidden name again, or the       *)
(* removal of a file that was new; "broken" answers both errors.                *)
Restore(p) ==
  /\ op[p].pc = "restore"
  /\ \/ /\ disk' = Put(disk, TmpOf[p], op[p].old)
        /\ Goto(p, "renameback") /\ UNCHANGED <<lock, walk, trouble>>
     \/ Trouble /\ Answer(p, "broken") /\ UNCHANGED disk
  /\ UNCHANGED cache /\ Env /\ UNCHANGED browserVars

RenameBack(p) ==
  /\ op[p].pc = "renameback"
  /\ \/ /\ disk' = Put(Without(disk, TmpOf[p]), op[p].target, op[p].old)
        /\ Answer(p, "failed") /\ UNCHANGED trouble
     \/ Trouble /\ Answer(p, "broken") /\ disk' = Without(disk, TmpOf[p])
  /\ UNCHANGED cache /\ Env /\ UNCHANGED browserVars

RemoveNew(p) ==
  /\ op[p].pc = "remove"
  /\ \/ /\ op[p].target \in DOMAIN disk
        /\ disk' = Without(disk, op[p].target)
        /\ Answer(p, "failed") /\ UNCHANGED trouble
     \/ /\ (op[p].target \notin DOMAIN disk /\ UNCHANGED trouble) \/ Trouble
        /\ Answer(p, "broken") /\ UNCHANGED disk
  /\ UNCHANGED cache /\ Env /\ UNCHANGED browserVars

--------------------------------------------------------------------------------
(* The rest of the world: somebody edits or deletes a file, or replaces the     *)
(* whole directory by renaming; the process stops and is started again.         *)

Touch(f) == op' = IF lock = Free THEN op ELSE [op EXCEPT ![lock].touched = @ \cup {f}]

Edit(f) ==
  /\ Trouble
  /\ \/ disk' = Put(disk, f, clock + 1) /\ clock' = clock + 1
     \/ f \in DOMAIN disk /\ disk' = Without(disk, f) /\ UNCHANGED clock
  /\ ~away.gone
  /\ Touch(f)
  /\ UNCHANGED <<away, cache, lock, walk>> /\ UNCHANGED browserVars

SwapOut ==
  /\ Trouble /\ ~away.gone /\ lock = Free
  /\ away' = [gone |-> TRUE, was |-> disk]
  /\ disk' = <<>>
  /\ UNCHANGED <<cache, lock, walk, op, clock>> /\ UNCHANGED browserVars

SwapIn ==
  /\ away.gone /\ lock = Free
  /\ disk' = away.was /\ away' = NoDir
  /\ UNCHANGED <<cache, lock, walk, op, clock, trouble>> /\ UNCHANGED browserVars

InFlight(p) == op[p].pc \notin {"idle", "ok", "failed", "broken", "lost"}

Crash ==
  /\ Trouble
  /\ cache' = NoCache /\ lock' = Free /\ walk' = NoWalk
  /\ op' = [p \in DOMAIN op |-> IF p = Boot THEN Idle
                                ELSE IF InFlight(p) THEN [Idle EXCEPT !.pc = "lost"] ELSE op[p]]
  /\ UNCHANGED <<disk, away, clock>> /\ UNCHANGED browserVars

Start ==
  /\ ~cache.up /\ op[Boot].pc \in {"idle", "failed"}
  /\ op' = [op EXCEPT ![Boot] = Request("boot", NoName, "wait")]
  /\ UNCHANGED <<disk, cache, lock, walk, trouble>> /\ Env /\ UNCHANGED browserVars

--------------------------------------------------------------------------------
(* A browser: it opens a page, and fetches the references of the page it shows  *)
(* later, from whatever map is current then.  An answer to ?v= is immutable for *)
(* a year, so the same reference is never asked for twice.  A reference is the  *)
(* name asked for, the hash, and the file of its page's map whose hash it is.   *)
(* One page with references is opened, and MaxFetches of them are fetched.      *)

Resolved(url, k) ==
  IF k.t = "absref" THEN k.to ELSE Name(url.dir \o k.to.dir, k.to.base, k.to.ext)

Reference(assets, url, page, k) ==
  LET near == Resolved(page, k)
  IN  [url |-> Resolved(url, k), v |-> k.v, file |-> IF near \in DOMAIN assets THEN near ELSE k.to]

OpenPage(url) ==
  /\ cache.up /\ view = {}
  /\ LET r == FindAsset(cache.assets, url)
         marked == {k \in ToSet(cache.assets[r].body) : k.t \in {"ref", "absref"} /\ k.v # 0}
     IN  /\ r # NoName
         /\ view' = {Reference(cache.assets, url, cache.assets[r].of, k) : k \in marked}
  /\ UNCHANGED <<disk, cache, lock, walk, op, trouble, kept>> /\ Env

(* The file that answers and the version: a RAM asset's own, a disk asset's as  *)
(* the file is when it is opened; version 0 is a 404.                           *)
Served(assets, d, f) ==
  LET r == FindAsset(assets, f)
      of == assets[r].of
  IN  IF r = NoName THEN [of |-> NoName, ver |-> 0]
      ELSE [of |-> of, ver |-> IF ~assets[r].disk THEN assets[r].ver
                               ELSE IF of \in DOMAIN d THEN d[of] ELSE 0]

FetchRef(r) ==
  LET got == Served(cache.assets, disk, r.url)
  IN  /\ cache.up /\ r \notin DOMAIN kept /\ got.ver # 0
      /\ Cardinality(DOMAIN kept) < MaxFetches
      /\ kept' = Put(kept, r, got)
      /\ UNCHANGED <<disk, cache, lock, walk, op, trouble, view>> /\ Env

--------------------------------------------------------------------------------
Step(p) == \/ Lock(p) \/ List(p) \/ VisitFile(p) \/ Swap(p)
           \/ Create(p) \/ ReadOld(p) \/ Rename(p)
           \/ Restore(p) \/ RenameBack(p) \/ RemoveNew(p)

Next ==
  \/ \E p \in Reloaders : AskReload(p)
  \/ \E p \in Admins, f \in Targets : AskPublish(p, f)
  \/ \E p \in Admins \cup {Boot} : Step(p)
  \/ \E f \in Editable : Edit(f)
  \/ SwapOut \/ SwapIn \/ Crash \/ Start
  \/ \E u \in Urls : OpenPage(u)
  \/ \E r \in view : FetchRef(r)

Spec == Init /\ [][Next]_vars

(* A goroutine that can take a step takes it: the mutex is released by every    *)
(* path and each request takes it once, so weak fairness is enough for it.      *)
(* CanStep is ENABLED <<Step(p)>>_vars, spelled out so that TLC need not build  *)
(* a whole map of routes to know it.                                            *)
CanStep(p) == InFlight(p) /\ (op[p].pc = "wait" => lock = Free)
Fair(p) == []<>~CanStep(p) \/ []<><<Step(p)>>_vars
FairSpec == Spec /\ \A p \in Admins \cup {Boot} : Fair(p)

--------------------------------------------------------------------------------
(* Type invariant.                                                              *)
TypeOK ==
  /\ \A f \in DOMAIN disk : f \in DOMAIN Template /\ disk[f] \in 1..clock
  /\ lock \in {Free, Boot} \cup Admins
  /\ \A p \in DOMAIN op : op[p].pc \in {"idle", "wait", "create", "readold", "rename", "list", "load",
       "restore", "renameback", "remove", "ok", "failed", "broken", "lost"}
  /\ \A p \in DOMAIN op : lock = p <=> InFlight(p) /\ op[p].pc # "wait"
  /\ \A r \in view : r.file \in DOMAIN Template /\ r.v \in 1..clock

(* Whatever was edited while the walk went on, the pages of one map fit the     *)
(* files of the same map: the reference a page fingerprints is answered, with   *)
(* the content whose hash it carries.  (References of one segment or from the   *)
(* root: the fallback of the lookup covers no other.)                           *)
RefsMatch ==
  \A r \in DOMAIN cache.assets :
    \A k \in ToSet(cache.assets[r].body) :
      (/\ cache.assets[r].of = r
       /\ k.t = "absref" \/ (k.t = "ref" /\ k.to.dir = <<>>)
       /\ k.v # 0)
      => LET hit == FindAsset(cache.assets, Resolved(r, k))
         IN  hit # NoName /\ cache.assets[hit].ver = k.v

(* A map never offers the hidden file of a publication, not even one a crash    *)
(* left behind, and every route its sitemap lists is answered by a page that    *)
(* claims that route.                                                           *)
CacheSound ==
  LET assets == cache.assets
  IN  /\ \A r \in DOMAIN assets, p \in Admins : assets[r].of # TmpOf[p]
      /\ \A m \in {SitemapName} \cap DOMAIN assets :
           \A k \in ToSet(assets[m].body) :
             LET hit == FindAsset(assets, k.to)
             IN  hit # NoName /\ k.to \in CleanRoutes(assets[hit].of)

(* A request answered with success is served at once: the new map shows the     *)
(* published version, unless another source has its route, and no file older    *)
(* than the directory was when the request took the mutex, whoever else         *)
(* publishes or edits meanwhile.                                                *)
SuccessIsServed ==
  [][\A p \in Admins : (op[p].pc # "ok" /\ op'[p].pc = "ok") =>
       LET want == IF op[p].kind = "publish" THEN Put(op[p].before, op[p].target, op[p].data)
                   ELSE op[p].before
       IN  \A f \in DOMAIN want \ op[p].touched :
             /\ \A v \in Versions(cache'.assets, f) : v >= want[f]
             /\ (/\ op[p].kind = "publish" /\ f = op[p].target
                 /\ ~Shadowed(f, DOMAIN want \cup op[p].touched)) => Versions(cache'.assets, f) # {}]_vars

(* A publication answered with an error leaves no trace: the target is what it  *)
(* was, the map is what it was, and no hidden file stays.  ("broken", an error  *)
(* of the rollback itself, says so in its answer.)                              *)
FailureLeavesNoTrace ==
  [][\A p \in Admins : (op[p].kind = "publish" /\ op[p].pc # "failed" /\ op'[p].pc = "failed") =>
       /\ cache' = op[p].was
       /\ TmpOf[p] \notin DOMAIN disk'
       /\ op[p].target \in op[p].touched
          \/ LET was == op[p].before
                 t == op[p].target
             IN  IF t \in DOMAIN was THEN t \in DOMAIN disk' /\ disk'[t] = was[t]
                 ELSE t \notin DOMAIN disk']_vars

(* What the browser shows for a fingerprinted reference is never older than the *)
(* page that refers to it, although page and reference are fetched from         *)
(* different maps, files are streamed from a directory that changes and is      *)
(* rolled back, and an answer once received is kept for good.  (The answer of   *)
(* another file, which a fallback of the lookup finds when the file itself is   *)
(* gone or the page was opened elsewhere, has no age to compare.)               *)
NeverOlderThanPage == \A r \in DOMAIN kept : kept[r].of = r.file => kept[r].ver >= r.v

(* Every administration request is answered, unless the process stops.          *)
RequestsAnswered == \A p \in Admins : InFlight(p) ~> ~InFlight(p)
================================================================================
