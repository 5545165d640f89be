--------------------------- MODULE WebServerProofs ---------------------------
(* Proofs about the web server, for any directory, any number of requests and   *)
(* any names: a publication that answers an error leaves no trace, one that     *)
(* answers success is served, every map keeps what its pages and its sitemap    *)
(* promise, and no browser is shown a file older than the page that refers to   *)
(* it.                                                                          *)
EXTENDS WebServer, WebSiteProofs, TLAPS

Requests == Admins \cup {Boot}

Holding == {"create", "readold", "rename", "list", "load", "restore", "renameback", "remove"}
Undoing == {"restore", "renameback", "remove"}
Over == {"ok", "failed", "broken", "lost"}
Stages == {"idle", "wait"} \cup Holding \cup Over

(* A record of the shape of a request.                                          *)
Fields(r) == r \in [kind : {"none", "reload", "publish", "boot"}, pc : Stages,
                    target : {r.target}, data : Nat, old : Nat,
                    before : {r.before}, was : {r.was}, touched : {r.touched}]

Versioned(d) == \A f \in DOMAIN d : d[f] \in Nat \ {0}

Same(d, b, t) == /\ t \in DOMAIN d <=> t \in DOMAIN b
                 /\ t \in DOMAIN b => d[t] = b[t]
Was(b, t) == IF t \in DOMAIN b THEN b[t] ELSE 0

-----------------------------------------------------------------------------
(* The inductive invariant.  WellFormed: who holds the mutex, and which         *)
(* requests publish.  Undo: while a publication holds the mutex the map is the  *)
(* one it found, and what it needs to undo the file is right unless somebody    *)
(* touched the file meanwhile.  Hidden: where its hidden file is not.           *)
WellFormed(p) ==
  LET r == op[p]
  IN  /\ Fields(r) /\ Versioned(r.before)
      /\ lock = p <=> r.pc \in Holding
      /\ r.kind = "publish" => p \in Admins /\ ~IsHidden(r.target)
      /\ r.pc \in {"create", "readold", "rename"} \cup Undoing => r.kind = "publish"

Undo(p) ==
  LET r == op[p]
  IN  r.kind = "publish" /\ r.pc \in Holding =>
        /\ cache = r.was
        /\ r.pc \in {"create", "readold", "rename"} =>
             r.target \in r.touched \/ Same(disk, r.before, r.target)
        /\ r.pc \in {"rename", "list", "load"} \cup Undoing =>
             r.target \in r.touched \/ r.old = Was(r.before, r.target)
        /\ r.pc \in {"readold", "rename"} => r.data \in Nat \ {0}
        /\ r.pc \in {"restore", "renameback"} => r.old # 0
        /\ r.pc = "remove" => r.old = 0

Hidden(p) ==
  p \in Admins =>
    /\ op[p].pc \in {"idle", "wait", "create", "list", "load", "restore", "remove"} =>
         TmpOf[p] \notin DOMAIN disk
    /\ op[p].pc \notin Over => TmpOf[p] \notin DOMAIN away.was

Sound(p) == WellFormed(p) /\ Undo(p) /\ Hidden(p)

IInv == /\ clock \in Nat /\ Versioned(disk) /\ Versioned(away.was)
        /\ DOMAIN op = Requests
        /\ \A p \in Requests : Sound(p)

-----------------------------------------------------------------------------
(* Lemmas: the directory with one file more or less.                            *)

LEMMA VersionedPut ==
  ASSUME NEW d, Versioned(d), NEW f, NEW v \in Nat \ {0}
  PROVE  Versioned(Put(d, f, v))
BY DEF Put, Versioned

LEMMA VersionedWithout ==
  ASSUME NEW d, Versioned(d), NEW f
  PROVE  Versioned(Without(d, f))
BY DEF Without, Versioned

(* No file but its own publication's is hidden, and no two share one.           *)
LEMMA TmpIsOwn ==
  ASSUME NEW p \in Admins
  PROVE  /\ \A q \in Admins : q # p => TmpOf[q] # TmpOf[p]
         /\ \A f : ~IsHidden(f) => f # TmpOf[p]
         /\ IsHidden(TmpOf[p])
BY NamesAssumption DEF IsHidden

(* A request that answers: it holds nothing any more.                           *)
LEMMA Answered ==
  ASSUME IInv, NEW p \in Requests, NEW pc \in Over, Answer(p, pc)
  PROVE  /\ Sound(p)' /\ DOMAIN op' = Requests
         /\ \A q \in Requests \ {p} : op'[q] = op[q]
         /\ op'[p].pc = pc /\ lock' = Free
<1>1. /\ DOMAIN op = Requests
      /\ op' = [op EXCEPT ![p] = [Idle EXCEPT !.pc = pc]] /\ lock' = Free
  BY DEF IInv, Answer
<1> DEFINE r == [Idle EXCEPT !.pc = pc]
<1>2. /\ Fields(r) /\ r.pc = pc /\ r.kind = "none" /\ r.before = <<>>
  <2>1. Idle \in [kind : {"none"}, pc : {"idle"}, target : {NoName}, data : {0}, old : {0},
                  before : {<<>>}, was : {NoCache}, touched : {{}}]
    BY DEF Idle, Request
  <2>2. QED
    BY <2>1 DEF Fields, Stages
<1> HIDE DEF r
<1>3. op'[p] = r /\ DOMAIN op' = Requests /\ \A q \in Requests \ {p} : op'[q] = op[q]
  BY <1>1 DEF r
<1>4. Versioned(<<>>) /\ p # Free
  BY ProcessesAssumption DEF Versioned, Requests
<1>5. pc \notin Holding /\ pc \in Stages /\ pc \notin {"idle", "wait"} \cup Undoing
  BY DEF Over, Holding, Stages, Undoing
<1>6. WellFormed(p)'
  BY <1>1, <1>2, <1>3, <1>4, <1>5 DEF WellFormed, Holding, Undoing, Over
<1>7. Undo(p)'
  BY <1>2, <1>3 DEF Undo
<1>8. Hidden(p)'
  BY <1>2, <1>3, <1>5 DEF Hidden, Holding, Over
<1>9. QED
  BY <1>1, <1>2, <1>3, <1>6, <1>7, <1>8 DEF Sound

(* A step of p leaves the others sound when it brings no hidden file of theirs  *)
(* into the directory: they hold no mutex.                                      *)
LEMMA OthersSound ==
  ASSUME IInv, NEW p \in Requests,
         lock \in {p, Free}, lock' \in {p, Free},
         \A q \in Requests \ {p} : op'[q] = op[q],
         DOMAIN op' = Requests, away' = away, clock' \in Nat, Versioned(disk'),
         \A q \in Admins \ {p} : TmpOf[q] \in DOMAIN disk' => TmpOf[q] \in DOMAIN disk,
         Sound(p)'
  PROVE  IInv'
<1>1. ASSUME NEW q \in Requests \ {p} PROVE Sound(q)'
  <2>1. Sound(q) /\ op'[q] = op[q] /\ lock # q /\ lock' # q
    BY ProcessesAssumption DEF IInv, Requests
  <2>2. WellFormed(q)'
    BY <2>1 DEF Sound, WellFormed
  <2>3. Undo(q)'
    BY <2>1 DEF Sound, WellFormed, Undo
  <2>4. Hidden(q)'
    BY <2>1 DEF Sound, Hidden
  <2>5. QED
    BY <2>2, <2>3, <2>4 DEF Sound
<1>2. QED
  BY <1>1 DEF IInv

-----------------------------------------------------------------------------
(* What the property says of a publication that fails in this step.             *)
Traceless(p) ==
  /\ cache' = op[p].was
  /\ TmpOf[p] \notin DOMAIN disk'
  /\ op[p].target \in op[p].touched
     \/ LET was == op[p].before
            t == op[p].target
        IN  IF t \in DOMAIN was THEN t \in DOMAIN disk' /\ disk'[t] = was[t]
            ELSE t \notin DOMAIN disk'

Fails(p) == op[p].kind = "publish" /\ op[p].pc # "failed" /\ op'[p].pc = "failed"
Clean == \A p \in Admins : Fails(p) => Traceless(p)

(* Only the request that takes the step can fail in it.                         *)
LEMMA OnlyOwn ==
  ASSUME NEW p \in Requests, \A q \in Requests \ {p} : op'[q] = op[q],
         p \in Admins /\ Fails(p) => Traceless(p)
  PROVE  Clean
<1>1. ASSUME NEW q \in Admins, Fails(q) PROVE Traceless(q)
  BY <1>1 DEF Requests, Fails
<1>2. QED
  BY <1>1 DEF Clean

(* A request that starts to wait takes nothing.                                 *)
LEMMA Waits ==
  ASSUME IInv, NEW p \in Requests, NEW kind \in {"reload", "publish", "boot"}, NEW f,
         kind = "publish" => p \in Admins /\ ~IsHidden(f),
         op[p].pc \in {"idle", "failed"}, p \in Admins => op[p].pc = "idle",
         op' = [op EXCEPT ![p] = Request(kind, f, "wait")],
         UNCHANGED <<disk, away, cache, lock, clock>>
  PROVE  IInv' /\ Clean
<1> DEFINE r == Request(kind, f, "wait")
<1>1. /\ r \in [kind : {kind}, pc : {"wait"}, target : {f}, data : {0}, old : {0},
                before : {<<>>}, was : {NoCache}, touched : {{}}]
  BY DEF Request
<1> HIDE DEF r
<1>2. DOMAIN op = Requests /\ op' = [op EXCEPT ![p] = r]
  BY DEF IInv, r
<1>3. op'[p] = r /\ DOMAIN op' = Requests /\ \A q \in Requests \ {p} : op'[q] = op[q]
  BY <1>2
<1>4. Fields(r) /\ Versioned(r.before) /\ r.kind = kind /\ r.pc = "wait" /\ r.target = f
  BY <1>1 DEF Fields, Versioned, Stages
<1>5. Sound(p) /\ lock # p
  BY DEF IInv, Sound, WellFormed, Holding
<1>6. WellFormed(p)'
  BY <1>3, <1>4, <1>5 DEF WellFormed, Holding, Undoing
<1>7. Undo(p)'
  BY <1>3, <1>4 DEF Undo, Holding
<1>8. Hidden(p)'
  BY <1>3, <1>5 DEF Sound, Hidden, Over
<1>9. ASSUME NEW q \in Requests \ {p} PROVE Sound(q)'
  <2>1. Sound(q) /\ op'[q] = op[q]
    BY <1>3 DEF IInv
  <2>2. QED
    BY <2>1 DEF Sound, WellFormed, Undo, Hidden
<1>10. IInv'
  BY <1>3, <1>6, <1>7, <1>8, <1>9 DEF IInv, Sound
<1>11. Clean
  BY <1>3, <1>4, OnlyOwn DEF Fails
<1>12. QED
  BY <1>10, <1>11

LEMMA KeepsAskReload ==
  ASSUME IInv, NEW p \in Reloaders, AskReload(p) PROVE IInv' /\ Clean
<1>1. p \in Admins /\ p \in Requests
  BY ProcessesAssumption DEF Requests
<1>2. QED
  BY <1>1, Waits DEF AskReload, Env

LEMMA KeepsAskPublish ==
  ASSUME IInv, NEW p \in Admins, NEW f, AskPublish(p, f) PROVE IInv' /\ Clean
<1>1. p \in Requests
  BY DEF Requests
<1>2. QED
  BY <1>1, Waits DEF AskPublish, Env

LEMMA KeepsStart ==
  ASSUME IInv, Start PROVE IInv' /\ Clean
<1>1. Boot \in Requests /\ Boot \notin Admins
  BY ProcessesAssumption DEF Requests
<1>2. QED
  BY <1>1, Waits DEF Start, Env

LEMMA KeepsLock ==
  ASSUME IInv, NEW p \in Requests, Lock(p) PROVE IInv' /\ Clean
<1>1. /\ DOMAIN op = Requests /\ Sound(p) /\ Fields(op[p]) /\ Versioned(disk)
      /\ op[p].pc = "wait" /\ lock = Free /\ lock' = p
      /\ UNCHANGED <<disk, away, cache, clock>>
  BY DEF IInv, Sound, WellFormed, Lock, Env
<1> DEFINE pc == IF op[p].kind = "publish" THEN "create" ELSE "list"
<1>2. pc \in Stages /\ pc \in Holding /\ pc \in {"create", "list"}
      /\ (pc = "create" => op[p].kind = "publish")
      /\ (op[p].kind = "publish" => pc = "create")
  BY DEF Stages, Holding
<1>3. op' = [op EXCEPT ![p].pc = pc, ![p].before = disk, ![p].was = cache, ![p].touched = {}]
  BY DEF Lock
<1> HIDE DEF pc
<1>4. /\ DOMAIN op' = Requests /\ \A q \in Requests \ {p} : op'[q] = op[q]
      /\ Fields(op'[p]) /\ op'[p].pc = pc /\ op'[p].before = disk /\ op'[p].was = cache
      /\ op'[p].kind = op[p].kind /\ op'[p].target = op[p].target
  BY <1>1, <1>2, <1>3 DEF Fields
<1>5. WellFormed(p)'
  BY <1>1, <1>2, <1>4 DEF Sound, WellFormed, Undoing
<1>6. Undo(p)'
  BY <1>1, <1>2, <1>4 DEF Undo, Undoing, Same
<1>7. Hidden(p)'
  BY <1>1, <1>2, <1>4 DEF Sound, Hidden, Over
<1>8. IInv'
  BY <1>1, <1>4, <1>5, <1>6, <1>7, OthersSound DEF IInv, Sound
<1>9. Clean
  BY <1>2, <1>4, OnlyOwn DEF Fails, Holding
<1>10. QED
  BY <1>8, <1>9

-----------------------------------------------------------------------------
(* The steps under the mutex: what p goes on with, and what it ends with.       *)
NoNewTmp(p) ==
  \A q \in Admins \ {p} : TmpOf[q] \in DOMAIN disk' => TmpOf[q] \in DOMAIN disk

(* The request keeps everything but its stage and what a stage finds out.       *)
GoesOn(p, pc) ==
  /\ DOMAIN op' = Requests /\ \A q \in Requests \ {p} : op'[q] = op[q]
  /\ Fields(op'[p]) /\ op'[p].pc = pc
  /\ op'[p].before = op[p].before /\ op'[p].was = op[p].was
  /\ op'[p].kind = op[p].kind /\ op'[p].target = op[p].target
  /\ op'[p].touched = op[p].touched

LEMMA GotoGoesOn ==
  ASSUME IInv, NEW p \in Requests, NEW pc \in Stages, Goto(p, pc)
  PROVE  GoesOn(p, pc) /\ op'[p].old = op[p].old /\ op'[p].data = op[p].data
<1>1. DOMAIN op = Requests /\ Fields(op[p]) /\ op' = [op EXCEPT ![p].pc = pc]
  BY DEF IInv, Sound, WellFormed, Goto
<1>2. QED
  BY <1>1 DEF GoesOn, Fields

LEMMA Moves ==
  ASSUME IInv, NEW p \in Requests, NEW pc \in Holding, GoesOn(p, pc),
         lock = p, lock' = p, UNCHANGED <<away, cache>>, clock' \in Nat, Versioned(disk'),
         NoNewTmp(p), Undo(p)', Hidden(p)',
         pc \in {"create", "readold", "rename"} \cup Undoing => op[p].kind = "publish"
  PROVE  IInv' /\ Clean
<1>1. WellFormed(p) /\ pc \in Stages
  BY DEF IInv, Sound, Stages
<1>2. WellFormed(p)'
  BY <1>1 DEF WellFormed, GoesOn
<1>3. IInv'
  BY <1>2, OthersSound DEF GoesOn, NoNewTmp, Sound
<1>4. Clean
  BY OnlyOwn DEF GoesOn, Fails, Holding
<1>5. QED
  BY <1>3, <1>4

LEMMA Ends ==
  ASSUME IInv, NEW p \in Requests, NEW pc \in Over, Answer(p, pc),
         lock = p, UNCHANGED away, clock' \in Nat, Versioned(disk'), NoNewTmp(p),
         pc = "failed" /\ p \in Admins /\ op[p].kind = "publish" => Traceless(p)
  PROVE  IInv' /\ Clean
<1>1. /\ Sound(p)' /\ DOMAIN op' = Requests
      /\ \A q \in Requests \ {p} : op'[q] = op[q]
      /\ op'[p].pc = pc /\ lock' = Free
  BY Answered
<1>2. IInv'
  BY <1>1, OthersSound DEF NoNewTmp
<1>3. Clean
  BY <1>1, OnlyOwn DEF Fails
<1>4. QED
  BY <1>2, <1>3

(* What holds of a publication in the middle of its work.                       *)
LEMMA AtWork ==
  ASSUME IInv, NEW p \in Requests, op[p].pc \in Holding
  PROVE  /\ lock = p /\ clock \in Nat /\ Versioned(disk)
         /\ DOMAIN op = Requests /\ Fields(op[p])
         /\ WellFormed(p) /\ Undo(p) /\ Hidden(p)
BY DEF IInv, Sound, WellFormed

LEMMA Publishes ==
  ASSUME IInv, NEW p \in Requests,
         op[p].pc \in {"create", "readold", "rename"} \cup Undoing
  PROVE  /\ op[p].kind = "publish" /\ p \in Admins
         /\ op[p].pc \in Holding /\ lock = p /\ cache = op[p].was
         /\ op[p].target # TmpOf[p]
         /\ \A q \in Admins : op[p].target # TmpOf[q]
         /\ \A q \in Admins \ {p} : TmpOf[p] # TmpOf[q]
<1>1. op[p].pc \in Holding /\ Sound(p)
  BY DEF IInv, Holding, Undoing
<1>2. op[p].kind = "publish" /\ p \in Admins /\ ~IsHidden(op[p].target) /\ lock = p
  BY <1>1 DEF Sound, WellFormed
<1>3. cache = op[p].was
  BY <1>1, <1>2 DEF Sound, Undo
<1>4. QED
  BY <1>1, <1>2, <1>3, TmpIsOwn

LEMMA KeepsCreate ==
  ASSUME IInv, NEW p \in Requests, Create(p) PROVE IInv' /\ Clean
<1>1. op[p].pc = "create" /\ UNCHANGED <<cache, away>>
  BY DEF Create
<1>2. /\ op[p].kind = "publish" /\ p \in Admins /\ lock = p /\ cache = op[p].was
      /\ op[p].target # TmpOf[p]
      /\ \A q \in Admins \ {p} : TmpOf[p] # TmpOf[q]
  BY <1>1, Publishes
<1>3. /\ clock \in Nat /\ Versioned(disk) /\ DOMAIN op = Requests /\ Fields(op[p])
      /\ Undo(p) /\ Hidden(p)
  BY <1>1, AtWork DEF Holding
<1>4. op[p].target \in op[p].touched \/ Same(disk, op[p].before, op[p].target)
  BY <1>1, <1>2, <1>3 DEF Undo, Holding
<1>5. TmpOf[p] \notin DOMAIN disk /\ TmpOf[p] \notin DOMAIN away.was
  BY <1>1, <1>2, <1>3 DEF Hidden, Over
<1>6. CASE /\ disk' = Put(disk, TmpOf[p], clock + 1)
           /\ op' = [op EXCEPT ![p].pc = "readold", ![p].data = clock + 1]
           /\ clock' = clock + 1 /\ UNCHANGED lock
  <2>1. clock' \in Nat \ {0}
    BY <1>3, <1>6
  <2>2. GoesOn(p, "readold") /\ op'[p].data = clock'
    BY <1>3, <1>6, <2>1 DEF GoesOn, Fields, Stages, Holding
  <2>3. /\ Versioned(disk') /\ DOMAIN disk' = DOMAIN disk \cup {TmpOf[p]}
        /\ Same(disk', disk, op[p].target)
    BY <1>2, <1>3, <1>6, <2>1 DEF Put, Versioned, Same
  <2>4. NoNewTmp(p)
    BY <1>2, <2>3 DEF NoNewTmp
  <2>5. Undo(p)'
    BY <1>1, <1>2, <1>4, <2>1, <2>2, <2>3 DEF Undo, GoesOn, Same, Undoing
  <2>6. Hidden(p)'
    BY <1>1, <1>5, <2>2 DEF Hidden, GoesOn
  <2>7. QED
    BY <1>1, <1>2, <1>6, <2>1, <2>2, <2>3, <2>4, <2>5, <2>6, Moves DEF Holding
<1>7. CASE Answer(p, "failed") /\ UNCHANGED <<disk, clock>>
  <2>1. Traceless(p)
    BY <1>1, <1>2, <1>4, <1>5, <1>7 DEF Traceless, Same
  <2>2. NoNewTmp(p)
    BY <1>7 DEF NoNewTmp
  <2>3. QED
    BY <1>1, <1>2, <1>3, <1>7, <2>1, <2>2, Ends DEF Over
<1>8. QED
  BY <1>6, <1>7 DEF Create

LEMMA KeepsReadOld ==
  ASSUME IInv, NEW p \in Requests, ReadOld(p) PROVE IInv' /\ Clean
<1>1. op[p].pc = "readold" /\ UNCHANGED <<cache, away, clock>>
  BY DEF ReadOld, Env
<1>2. /\ op[p].kind = "publish" /\ p \in Admins /\ lock = p /\ cache = op[p].was
      /\ op[p].target # TmpOf[p]
  BY <1>1, Publishes
<1>3. /\ clock \in Nat /\ Versioned(disk) /\ DOMAIN op = Requests /\ Fields(op[p])
      /\ Undo(p) /\ Hidden(p)
  BY <1>1, AtWork DEF Holding
<1>4. /\ op[p].target \in op[p].touched \/ Same(disk, op[p].before, op[p].target)
      /\ op[p].data \in Nat \ {0}
  BY <1>1, <1>2, <1>3 DEF Undo, Holding
<1>5. TmpOf[p] \notin DOMAIN away.was
  BY <1>1, <1>2, <1>3 DEF Hidden, Over
<1> DEFINE old == IF op[p].target \in DOMAIN disk THEN disk[op[p].target] ELSE 0
<1>6. old \in Nat /\ old = Was(disk, op[p].target)
  BY <1>3 DEF Versioned, Was
<1>7. CASE /\ op' = [op EXCEPT ![p].pc = "rename", ![p].old = old]
           /\ UNCHANGED <<disk, lock>>
  <2> HIDE DEF old
  <2>1. GoesOn(p, "rename") /\ op'[p].old = old /\ op'[p].data = op[p].data
    BY <1>3, <1>6, <1>7 DEF GoesOn, Fields, Stages, Holding
  <2>2. op[p].target \in op[p].touched \/ old = Was(op[p].before, op[p].target)
    BY <1>4, <1>6 DEF Same, Was
  <2>3. Undo(p)'
    BY <1>1, <1>2, <1>4, <1>7, <2>1, <2>2 DEF Undo, GoesOn, Undoing
  <2>4. Hidden(p)'
    BY <1>1, <1>5, <2>1 DEF Hidden, GoesOn
  <2>5. NoNewTmp(p) /\ Versioned(disk')
    BY <1>3, <1>7 DEF NoNewTmp, Versioned
  <2>6. QED
    BY <1>1, <1>2, <1>3, <1>7, <2>1, <2>3, <2>4, <2>5, Moves DEF Holding
<1>8. CASE Answer(p, "failed") /\ disk' = Without(disk, TmpOf[p])
  <2>1. /\ Versioned(disk') /\ DOMAIN disk' = DOMAIN disk \ {TmpOf[p]}
        /\ Same(disk', disk, op[p].target)
    BY <1>2, <1>3, <1>8 DEF Without, Versioned, Same
  <2>2. Traceless(p)
    BY <1>1, <1>2, <1>4, <2>1 DEF Traceless, Same
  <2>3. NoNewTmp(p)
    BY <2>1 DEF NoNewTmp
  <2>4. QED
    BY <1>1, <1>2, <1>3, <1>8, <2>1, <2>2, <2>3, Ends DEF Over
<1>9. QED
  BY <1>7, <1>8 DEF ReadOld

LEMMA KeepsRename ==
  ASSUME IInv, NEW p \in Requests, Rename(p) PROVE IInv' /\ Clean
<1>1. op[p].pc = "rename" /\ UNCHANGED <<cache, away, clock>>
  BY DEF Rename, Env
<1>2. /\ op[p].kind = "publish" /\ p \in Admins /\ lock = p /\ cache = op[p].was
      /\ op[p].target # TmpOf[p]
      /\ \A q \in Admins : op[p].target # TmpOf[q]
  BY <1>1, Publishes
<1>3. /\ clock \in Nat /\ Versioned(disk) /\ Undo(p) /\ Hidden(p)
  BY <1>1, AtWork DEF Holding
<1>4. /\ op[p].target \in op[p].touched \/ Same(disk, op[p].before, op[p].target)
      /\ op[p].target \in op[p].touched \/ op[p].old = Was(op[p].before, op[p].target)
      /\ op[p].data \in Nat \ {0}
  BY <1>1, <1>2, <1>3 DEF Undo, Holding
<1>5. TmpOf[p] \notin DOMAIN away.was
  BY <1>1, <1>2, <1>3 DEF Hidden, Over
<1>6. CASE /\ disk' = Put(Without(disk, TmpOf[p]), op[p].target, op[p].data)
           /\ Goto(p, "list") /\ UNCHANGED lock
  <2>1. GoesOn(p, "list") /\ op'[p].old = op[p].old
    BY <1>6, GotoGoesOn DEF Stages, Holding
  <2>2. Versioned(disk')
    BY <1>3, <1>4, <1>6, VersionedPut, VersionedWithout
  <2>3. DOMAIN disk' = (DOMAIN disk \ {TmpOf[p]}) \cup {op[p].target}
    BY <1>6 DEF Put, Without
  <2>4. Undo(p)'
    BY <1>1, <1>2, <1>4, <2>1 DEF Undo, GoesOn, Undoing
  <2>5. Hidden(p)'
    BY <1>1, <1>2, <1>5, <2>1, <2>3 DEF Hidden, GoesOn
  <2>6. NoNewTmp(p)
    BY <1>2, <2>3 DEF NoNewTmp
  <2>7. QED
    BY <1>1, <1>2, <1>3, <1>6, <2>1, <2>2, <2>4, <2>5, <2>6, Moves DEF Holding
<1>7. CASE Answer(p, "failed") /\ disk' = Without(disk, TmpOf[p])
  <2>1. /\ Versioned(disk') /\ DOMAIN disk' = DOMAIN disk \ {TmpOf[p]}
        /\ Same(disk', disk, op[p].target)
    BY <1>2, <1>3, <1>7 DEF Without, Versioned, Same
  <2>2. Traceless(p)
    BY <1>1, <1>2, <1>4, <2>1 DEF Traceless, Same
  <2>3. NoNewTmp(p)
    BY <2>1 DEF NoNewTmp
  <2>4. QED
    BY <1>1, <1>2, <1>3, <1>7, <2>1, <2>2, <2>3, Ends DEF Over
<1>8. QED
  BY <1>6, <1>7 DEF Rename

LEMMA KeepsList ==
  ASSUME IInv, NEW p \in Requests, List(p) PROVE IInv' /\ Clean
<1>1. op[p].pc = "list" /\ UNCHANGED <<disk, away, clock>>
  BY DEF List, Env
<1>2. lock = p /\ clock \in Nat /\ Versioned(disk) /\ Undo(p) /\ Hidden(p)
  BY <1>1, AtWork DEF Holding
<1>3. NoNewTmp(p) /\ Versioned(disk')
  BY <1>1, <1>2 DEF NoNewTmp, Versioned
<1>4. CASE Answer(p, "ok")
  BY <1>1, <1>2, <1>3, <1>4, Ends DEF Over
<1>5. CASE Goto(p, "load") /\ UNCHANGED <<cache, lock>>
  <2>1. GoesOn(p, "load") /\ op'[p].old = op[p].old
    BY <1>5, GotoGoesOn DEF Stages, Holding
  <2>2. Undo(p)'
    BY <1>1, <1>2, <1>5, <2>1 DEF Undo, GoesOn, Undoing, Holding
  <2>3. Hidden(p)'
    BY <1>1, <1>2, <2>1 DEF Hidden, GoesOn, Over
  <2>4. QED
    BY <1>1, <1>2, <1>3, <1>5, <2>1, <2>2, <2>3, Moves DEF Holding, Undoing
<1>6. QED
  BY <1>4, <1>5 DEF List

(* The load that fails: a publication begins to undo its file.                  *)
LEMMA KeepsLoadFails ==
  ASSUME IInv, NEW p \in Requests, op[p].pc = "load", LoadFails(p),
         UNCHANGED <<disk, away, clock>>
  PROVE  IInv' /\ Clean
<1>2. /\ lock = p /\ clock \in Nat /\ Versioned(disk) /\ Undo(p) /\ Hidden(p)
      /\ Fields(op[p])
  BY AtWork DEF Holding
<1>3. NoNewTmp(p) /\ Versioned(disk')
  BY <1>2 DEF NoNewTmp, Versioned
<1>4. CASE op[p].kind = "publish"
  <2> DEFINE pc == IF op[p].old # 0 THEN "restore" ELSE "remove"
  <2>1. /\ pc \in Undoing /\ pc \in Holding /\ pc \in Stages /\ pc \in {"restore", "remove"}
        /\ pc = "restore" => op[p].old # 0
        /\ pc = "remove" => op[p].old = 0
    BY DEF Undoing, Holding, Stages
  <2>2. Goto(p, pc) /\ UNCHANGED <<cache, lock>>
    BY <1>4 DEF LoadFails
  <2> HIDE DEF pc
  <2>3. GoesOn(p, pc) /\ op'[p].old = op[p].old
    BY <2>1, <2>2, GotoGoesOn
  <2>4. Undo(p)'
    BY <1>2, <1>4, <2>1, <2>2, <2>3 DEF Undo, GoesOn, Holding
  <2>5. Hidden(p)'
    BY <1>2, <2>1, <2>3 DEF Hidden, GoesOn, Over
  <2>6. QED
    BY <1>2, <1>3, <1>4, <2>1, <2>2, <2>3, <2>4, <2>5, Moves
<1>5. CASE op[p].kind # "publish"
  <2>1. Answer(p, "failed")
    BY <1>5 DEF LoadFails
  <2>2. QED
    BY <1>2, <1>3, <1>5, <2>1, Ends DEF Over
<1>6. QED
  BY <1>4, <1>5

LEMMA KeepsVisitFile ==
  ASSUME IInv, NEW p \in Requests, VisitFile(p) PROVE IInv' /\ Clean
<1>1. op[p].pc = "load" /\ UNCHANGED <<disk, away, clock>>
  BY DEF VisitFile, Env
<1>2. CASE LoadFails(p)
  BY <1>1, <1>2, KeepsLoadFails
<1>3. CASE UNCHANGED <<cache, lock, op>>
  BY <1>1, <1>3 DEF IInv, Sound, WellFormed, Undo, Hidden, Clean, Fails
<1>4. QED
  BY <1>2, <1>3 DEF VisitFile

LEMMA KeepsSwap ==
  ASSUME IInv, NEW p \in Requests, Swap(p) PROVE IInv' /\ Clean
<1>1. op[p].pc = "load" /\ UNCHANGED <<disk, away, clock>> /\ Answer(p, "ok")
  BY DEF Swap, Env
<1>2. lock = p /\ clock \in Nat /\ Versioned(disk)
  BY <1>1, AtWork DEF Holding
<1>3. NoNewTmp(p) /\ Versioned(disk')
  BY <1>1, <1>2 DEF NoNewTmp, Versioned
<1>4. QED
  BY <1>1, <1>2, <1>3, Ends DEF Over

LEMMA KeepsRestore ==
  ASSUME IInv, NEW p \in Requests, Restore(p) PROVE IInv' /\ Clean
<1>1. op[p].pc = "restore" /\ UNCHANGED <<cache, away, clock>>
  BY DEF Restore, Env
<1>2. /\ op[p].kind = "publish" /\ p \in Admins /\ lock = p /\ cache = op[p].was
      /\ \A q \in Admins \ {p} : TmpOf[p] # TmpOf[q]
  BY <1>1, Publishes DEF Undoing
<1>3. clock \in Nat /\ Versioned(disk) /\ Fields(op[p]) /\ Undo(p) /\ Hidden(p)
  BY <1>1, AtWork DEF Holding
<1>4. /\ op[p].target \in op[p].touched \/ op[p].old = Was(op[p].before, op[p].target)
      /\ op[p].old \in Nat \ {0}
  BY <1>1, <1>2, <1>3 DEF Undo, Holding, Undoing, Fields
<1>5. TmpOf[p] \notin DOMAIN away.was
  BY <1>1, <1>2, <1>3 DEF Hidden, Over
<1>6. CASE disk' = Put(disk, TmpOf[p], op[p].old) /\ Goto(p, "renameback") /\ UNCHANGED lock
  <2>1. GoesOn(p, "renameback") /\ op'[p].old = op[p].old
    BY <1>6, GotoGoesOn DEF Stages, Holding
  <2>2. Versioned(disk')
    BY <1>3, <1>4, <1>6, VersionedPut
  <2>3. DOMAIN disk' = DOMAIN disk \cup {TmpOf[p]}
    BY <1>6 DEF Put
  <2>4. Undo(p)'
    BY <1>1, <1>2, <1>4, <2>1 DEF Undo, GoesOn, Undoing
  <2>5. Hidden(p)'
    BY <1>1, <1>5, <2>1 DEF Hidden, GoesOn
  <2>6. NoNewTmp(p)
    BY <1>2, <2>3 DEF NoNewTmp
  <2>7. QED
    BY <1>1, <1>2, <1>3, <1>6, <2>1, <2>2, <2>4, <2>5, <2>6, Moves DEF Holding
<1>7. CASE Answer(p, "broken") /\ UNCHANGED disk
  <2>1. NoNewTmp(p)
    BY <1>7 DEF NoNewTmp
  <2>2. QED
    BY <1>1, <1>2, <1>3, <1>7, <2>1, Ends DEF Over
<1>8. QED
  BY <1>6, <1>7 DEF Restore

LEMMA KeepsRenameBack ==
  ASSUME IInv, NEW p \in Requests, RenameBack(p) PROVE IInv' /\ Clean
<1>1. op[p].pc = "renameback" /\ UNCHANGED <<cache, away, clock>>
  BY DEF RenameBack, Env
<1>2. /\ op[p].kind = "publish" /\ p \in Admins /\ lock = p /\ cache = op[p].was
      /\ \A q \in Admins : op[p].target # TmpOf[q]
  BY <1>1, Publishes DEF Undoing
<1>3. clock \in Nat /\ Versioned(disk) /\ Fields(op[p]) /\ Undo(p)
  BY <1>1, AtWork DEF Holding
<1>4. /\ op[p].target \in op[p].touched \/ op[p].old = Was(op[p].before, op[p].target)
      /\ op[p].old \in Nat \ {0}
  BY <1>1, <1>2, <1>3 DEF Undo, Holding, Undoing, Fields
<1>5. CASE /\ disk' = Put(Without(disk, TmpOf[p]), op[p].target, op[p].old)
           /\ Answer(p, "failed")
  <2>1. Versioned(disk')
    BY <1>3, <1>4, <1>5, VersionedPut, VersionedWithout
  <2>2. /\ DOMAIN disk' = (DOMAIN disk \ {TmpOf[p]}) \cup {op[p].target}
        /\ disk'[op[p].target] = op[p].old
    BY <1>5 DEF Put, Without
  <2>3. Traceless(p)
    BY <1>1, <1>2, <1>4, <2>2 DEF Traceless, Was
  <2>4. NoNewTmp(p)
    BY <1>2, <2>2 DEF NoNewTmp
  <2>5. QED
    BY <1>1, <1>2, <1>3, <1>5, <2>1, <2>3, <2>4, Ends DEF Over
<1>6. CASE Answer(p, "broken") /\ disk' = Without(disk, TmpOf[p])
  <2>1. Versioned(disk')
    BY <1>3, <1>6, VersionedWithout
  <2>2. NoNewTmp(p)
    BY <1>6 DEF NoNewTmp, Without
  <2>3. QED
    BY <1>1, <1>2, <1>3, <1>6, <2>1, <2>2, Ends DEF Over
<1>7. QED
  BY <1>5, <1>6 DEF RenameBack

LEMMA KeepsRemoveNew ==
  ASSUME IInv, NEW p \in Requests, RemoveNew(p) PROVE IInv' /\ Clean
<1>1. op[p].pc = "remove" /\ UNCHANGED <<cache, away, clock>>
  BY DEF RemoveNew, Env
<1>2. op[p].kind = "publish" /\ p \in Admins /\ lock = p /\ cache = op[p].was
  BY <1>1, Publishes DEF Undoing
<1>3. /\ clock \in Nat /\ Versioned(disk) /\ Undo(p) /\ Hidden(p)
      /\ Versioned(op[p].before)
  BY <1>1, AtWork DEF Holding, WellFormed
<1>4. /\ op[p].target \in op[p].touched \/ op[p].old = Was(op[p].before, op[p].target)
      /\ op[p].old = 0
  BY <1>1, <1>2, <1>3 DEF Undo, Holding, Undoing
<1>5. TmpOf[p] \notin DOMAIN disk
  BY <1>1, <1>2, <1>3 DEF Hidden
<1>6. op[p].target \in op[p].touched \/ op[p].target \notin DOMAIN op[p].before
  BY <1>3, <1>4 DEF Was, Versioned
<1>7. CASE disk' = Without(disk, op[p].target) /\ Answer(p, "failed")
  <2>1. Versioned(disk') /\ DOMAIN disk' = DOMAIN disk \ {op[p].target}
    BY <1>3, <1>7, VersionedWithout DEF Without
  <2>2. Traceless(p)
    BY <1>1, <1>2, <1>5, <1>6, <2>1 DEF Traceless
  <2>3. NoNewTmp(p)
    BY <2>1 DEF NoNewTmp
  <2>4. QED
    BY <1>1, <1>2, <1>3, <1>7, <2>1, <2>2, <2>3, Ends DEF Over
<1>8. CASE Answer(p, "broken") /\ UNCHANGED disk
  <2>1. NoNewTmp(p)
    BY <1>8 DEF NoNewTmp
  <2>2. QED
    BY <1>1, <1>2, <1>3, <1>8, <2>1, Ends DEF Over
<1>9. QED
  BY <1>7, <1>8 DEF RemoveNew

-----------------------------------------------------------------------------
(* The steps of the rest of the world.                                          *)

LEMMA KeepsEdit ==
  ASSUME IInv, NEW f \in Editable, Edit(f) PROVE IInv' /\ Clean
<1>1. /\ DOMAIN op = Requests /\ clock \in Nat /\ Versioned(disk) /\ Versioned(away.was)
      /\ \A p \in Requests : Fields(op[p])
      /\ UNCHANGED <<away, cache, lock>>
  BY DEF IInv, Sound, WellFormed, Edit
<1>2. /\ clock' \in Nat /\ Versioned(disk') /\ DOMAIN disk' \subseteq DOMAIN disk \cup {f}
      /\ \A g : g # f => Same(disk', disk, g)
  BY <1>1 DEF Edit, Put, Without, Versioned, Same
<1>3. /\ DOMAIN op' = Requests
      /\ \A p \in Requests : lock # p => op'[p] = op[p]
      /\ \A p \in Requests : lock = p => op'[p] = [op[p] EXCEPT !.touched = @ \cup {f}]
  BY <1>1, ProcessesAssumption DEF Edit, Touch, Requests
<1>4. ASSUME NEW p \in Requests
      PROVE  /\ Fields(op'[p]) /\ op'[p].pc = op[p].pc /\ op'[p].kind = op[p].kind
             /\ op'[p].target = op[p].target /\ op'[p].before = op[p].before
             /\ op'[p].was = op[p].was /\ op'[p].old = op[p].old /\ op'[p].data = op[p].data
             /\ op[p].touched \subseteq op'[p].touched
             /\ lock = p => f \in op'[p].touched
  BY <1>1, <1>3 DEF Fields
<1>5. ASSUME NEW p \in Requests PROVE Sound(p)'
  <2>1. Sound(p)
    BY DEF IInv
  <2>2. WellFormed(p)'
    BY <1>1, <1>4, <2>1 DEF Sound, WellFormed
  <2>3. Undo(p)'
    <3>1. SUFFICES ASSUME op[p].kind = "publish", op[p].pc \in Holding PROVE Undo(p)'
      BY <1>4 DEF Undo
    <3>2. lock = p /\ f \in op'[p].touched
      BY <1>4, <2>1, <3>1 DEF Sound, WellFormed
    <3>3. op[p].target # f => Same(disk', disk, op[p].target)
      BY <1>2
    <3>4. Undo(p)
      BY <2>1 DEF Sound
    <3>5. /\ cache = op[p].was
          /\ op[p].pc \in {"create", "readold", "rename"} =>
               op[p].target \in op'[p].touched \/ Same(disk', op[p].before, op[p].target)
          /\ op[p].pc \in {"rename", "list", "load"} \cup Undoing =>
               op[p].target \in op'[p].touched \/ op[p].old = Was(op[p].before, op[p].target)
      BY <1>4, <3>1, <3>2, <3>3, <3>4 DEF Undo, Same
    <3>6. QED
      BY <1>1, <1>4, <3>1, <3>4, <3>5 DEF Undo
  <2>4. Hidden(p)'
    <3>1. SUFFICES ASSUME p \in Admins PROVE Hidden(p)'
      BY DEF Hidden
    <3>2. TmpOf[p] # f
      BY <3>1, NamesAssumption
    <3>3. QED
      BY <1>1, <1>2, <1>4, <2>1, <3>1, <3>2 DEF Sound, Hidden
  <2>5. QED
    BY <2>2, <2>3, <2>4 DEF Sound
<1>6. QED
  BY <1>1, <1>2, <1>3, <1>4, <1>5 DEF IInv, Clean, Fails, Requests

(* While nobody holds the mutex.                                                *)
LEMMA NobodyHolds ==
  ASSUME IInv, lock = Free, NEW p \in Requests
  PROVE  Sound(p) /\ op[p].pc \notin Holding /\ op[p].pc \in {"idle", "wait"} \cup Over
<1>1. Sound(p) /\ lock # p
  BY ProcessesAssumption DEF IInv, Requests
<1>2. QED
  BY <1>1 DEF Sound, WellFormed, Fields, Stages

LEMMA KeepsSwapOut ==
  ASSUME IInv, SwapOut PROVE IInv' /\ Clean
<1>1. /\ away'.was = disk /\ disk' = <<>> /\ lock = Free
      /\ UNCHANGED <<cache, lock, op, clock>>
  BY DEF SwapOut
<1>2. ASSUME NEW p \in Requests PROVE Sound(p)'
  <2>1. Sound(p) /\ op[p].pc \notin Holding /\ op[p].pc \in {"idle", "wait"} \cup Over
    BY <1>1, NobodyHolds
  <2>2. p \in Admins /\ op[p].pc \in {"idle", "wait"} => TmpOf[p] \notin DOMAIN disk
    BY <2>1 DEF Sound, Hidden
  <2>3. WellFormed(p)'
    BY <1>1, <2>1 DEF Sound, WellFormed
  <2>4. Undo(p)'
    BY <1>1, <2>1 DEF Undo
  <2>5. Hidden(p)'
    BY <1>1, <2>1, <2>2 DEF Hidden, Over
  <2>6. QED
    BY <2>3, <2>4, <2>5 DEF Sound
<1>3. IInv'
  BY <1>1, <1>2 DEF IInv, Versioned
<1>4. QED
  BY <1>1, <1>3 DEF Clean, Fails

LEMMA KeepsSwapIn ==
  ASSUME IInv, SwapIn PROVE IInv' /\ Clean
<1>1. /\ disk' = away.was /\ away' = NoDir /\ lock = Free
      /\ UNCHANGED <<cache, lock, op, clock>>
  BY DEF SwapIn
<1>2. away'.was = <<>>
  BY <1>1 DEF NoDir
<1>3. ASSUME NEW p \in Requests PROVE Sound(p)'
  <2>1. Sound(p) /\ op[p].pc \notin Holding /\ op[p].pc \in {"idle", "wait"} \cup Over
    BY <1>1, NobodyHolds
  <2>2. p \in Admins /\ op[p].pc \notin Over => TmpOf[p] \notin DOMAIN disk'
    BY <1>1, <2>1 DEF Sound, Hidden
  <2>3. WellFormed(p)'
    BY <1>1, <2>1 DEF Sound, WellFormed
  <2>4. Undo(p)'
    BY <1>1, <2>1 DEF Undo
  <2>5. Hidden(p)'
    BY <1>1, <1>2, <2>1, <2>2 DEF Hidden, Over
  <2>6. QED
    BY <2>3, <2>4, <2>5 DEF Sound
<1>4. IInv'
  BY <1>1, <1>2, <1>3 DEF IInv, Versioned
<1>5. QED
  BY <1>1, <1>4 DEF Clean, Fails

(* A request nobody answers any more, and the one that has not begun.           *)
LEMMA Rests ==
  ASSUME NEW pc \in {"idle", "lost"}
  PROVE  LET r == [Idle EXCEPT !.pc = pc]
         IN  Fields(r) /\ r.pc = pc /\ r.kind = "none" /\ r.before = <<>>
<1>1. Idle \in [kind : {"none"}, pc : {"idle"}, target : {NoName}, data : {0}, old : {0},
                before : {<<>>}, was : {NoCache}, touched : {{}}]
  BY DEF Idle, Request
<1>2. QED
  BY <1>1 DEF Fields, Stages, Over

LEMMA KeepsCrash ==
  ASSUME IInv, Crash PROVE IInv' /\ Clean
<1> DEFINE lost == [Idle EXCEPT !.pc = "lost"]
<1>1. /\ DOMAIN op = Requests /\ lock' = Free
      /\ UNCHANGED <<disk, away, clock>>
  BY DEF IInv, Crash
<1>2. op' = [p \in DOMAIN op |-> IF p = Boot THEN Idle ELSE IF InFlight(p) THEN lost ELSE op[p]]
  BY DEF Crash
<1>3. /\ Fields(lost) /\ lost.pc = "lost" /\ lost.kind = "none" /\ lost.before = <<>>
  BY Rests
<1>4. /\ Fields(Idle) /\ Idle.pc = "idle" /\ Idle.kind = "none" /\ Idle.before = <<>>
  <2>1. Idle \in [kind : {"none"}, pc : {"idle"}, target : {NoName}, data : {0}, old : {0},
                  before : {<<>>}, was : {NoCache}, touched : {{}}]
    BY DEF Idle, Request
  <2>2. QED
    BY <2>1 DEF Fields, Stages
<1> HIDE DEF lost
<1>5. ASSUME NEW p \in Requests
      PROVE  /\ Sound(p)'
             /\ op'[p].pc = "failed" => op[p].pc = "failed"
  <2>1. Sound(p) /\ p # Free
    BY ProcessesAssumption DEF IInv, Requests
  <2>2. \/ p = Boot /\ op'[p] = Idle
        \/ p # Boot /\ op'[p] = lost
        \/ p # Boot /\ ~InFlight(p) /\ op'[p] = op[p]
    BY <1>1, <1>2
  <2>3. CASE p = Boot /\ op'[p] = Idle
    <3>1. p \notin Admins
      BY <2>3, ProcessesAssumption
    <3>2. QED
      BY <1>1, <1>4, <2>1, <2>3, <3>1
         DEF Sound, WellFormed, Undo, Hidden, Holding, Undoing, Versioned
  <2>4. CASE p # Boot /\ op'[p] = lost
    BY <1>1, <1>3, <2>1, <2>4
       DEF Sound, WellFormed, Undo, Hidden, Holding, Undoing, Versioned, Over
  <2>5. CASE p # Boot /\ ~InFlight(p) /\ op'[p] = op[p]
    <3>1. op[p].pc \notin Holding
      BY <2>5 DEF InFlight, Holding
    <3>2. QED
      BY <1>1, <2>1, <2>5, <3>1 DEF Sound, WellFormed, Undo, Hidden
  <2>6. QED
    BY <2>2, <2>3, <2>4, <2>5
<1>6. DOMAIN op' = Requests
  BY <1>1, <1>2
<1>7. IInv'
  BY <1>1, <1>5, <1>6 DEF IInv
<1>8. Clean
  BY <1>5 DEF Clean, Fails, Requests
<1>9. QED
  BY <1>7, <1>8

LEMMA Stutters ==
  ASSUME IInv, UNCHANGED <<disk, away, cache, lock, op, clock>> PROVE IInv' /\ Clean
BY DEF IInv, Sound, WellFormed, Undo, Hidden, Clean, Fails

-----------------------------------------------------------------------------
LEMMA InitSound == Init => IInv
<1> SUFFICES ASSUME Init PROVE IInv
  OBVIOUS
<1>1. /\ Fields(Idle) /\ Idle.pc = "idle" /\ Idle.kind = "none" /\ Idle.before = <<>>
  <2>1. Idle \in [kind : {"none"}, pc : {"idle"}, target : {NoName}, data : {0}, old : {0},
                  before : {<<>>}, was : {NoCache}, touched : {{}}]
    BY DEF Idle, Request
  <2>2. QED
    BY <2>1 DEF Fields, Stages
<1>2. /\ disk \in Sites /\ away.was = <<>> /\ clock = 1 /\ lock = Free
      /\ op = [p \in Requests |-> Idle]
  BY DEF Init, NoDir, Requests
<1>3. Versioned(disk) /\ \A p \in Admins : TmpOf[p] \notin DOMAIN disk
  BY <1>2, NamesAssumption DEF Versioned
<1>4. ASSUME NEW p \in Requests PROVE Sound(p)
  <2>1. op[p] = Idle /\ p # lock
    BY <1>2, ProcessesAssumption DEF Requests
  <2>2. QED
    BY <1>1, <1>2, <1>3, <2>1 DEF Sound, WellFormed, Undo, Hidden, Holding, Undoing, Versioned
<1>5. QED
  BY <1>2, <1>3, <1>4 DEF IInv, Versioned

LEMMA NextKeeps == IInv /\ [Next]_vars => IInv' /\ Clean
<1> SUFFICES ASSUME IInv, [Next]_vars PROVE IInv' /\ Clean
  OBVIOUS
<1>1. ASSUME NEW p \in Reloaders, AskReload(p) PROVE IInv' /\ Clean
  BY <1>1, KeepsAskReload
<1>2. ASSUME NEW p \in Admins, NEW f \in Targets, AskPublish(p, f) PROVE IInv' /\ Clean
  BY <1>2, KeepsAskPublish
<1>3. ASSUME NEW p \in Requests, Step(p) PROVE IInv' /\ Clean
  BY <1>3, KeepsLock, KeepsList, KeepsVisitFile, KeepsSwap, KeepsCreate, KeepsReadOld,
     KeepsRename, KeepsRestore, KeepsRenameBack, KeepsRemoveNew DEF Step
<1>4. ASSUME NEW f \in Editable, Edit(f) PROVE IInv' /\ Clean
  BY <1>4, KeepsEdit
<1>5. CASE SwapOut \/ SwapIn \/ Crash \/ Start
  BY <1>5, KeepsSwapOut, KeepsSwapIn, KeepsCrash, KeepsStart
<1>6. ASSUME NEW u \in Urls, OpenPage(u) PROVE IInv' /\ Clean
  BY <1>6, Stutters DEF OpenPage, Env
<1>7. ASSUME NEW r \in view, FetchRef(r) PROVE IInv' /\ Clean
  BY <1>7, Stutters DEF FetchRef, Env
<1>8. CASE UNCHANGED vars
  BY <1>8, Stutters DEF vars
<1>9. QED
  BY <1>1, <1>2, <1>3, <1>4, <1>5, <1>6, <1>7, <1>8 DEF Next, Requests

(* The invariant holds, and no step breaks the promise of a failed publication. *)
LEMMA Inductive == Spec => []IInv
BY InitSound, NextKeeps, PTL DEF Spec

(* A publication answered with an error leaves no trace, whatever its names and *)
(* however many requests, edits, directory swaps and crashes there are: the     *)
(* target and the map are what they were and the hidden file is gone.           *)
THEOREM NoTraceOfFailure == Spec => FailureLeavesNoTrace
<1> DEFINE A == \A p \in Admins :
      (op[p].kind = "publish" /\ op[p].pc # "failed" /\ op'[p].pc = "failed") =>
       /\ cache' = op[p].was
       /\ TmpOf[p] \notin DOMAIN disk'
       /\ op[p].target \in op[p].touched
          \/ LET was == op[p].before
                 t == op[p].target
             IN  IF t \in DOMAIN was THEN t \in DOMAIN disk' /\ disk'[t] = was[t]
                 ELSE t \notin DOMAIN disk'
<1>1. Clean => A
  BY DEF Clean, Fails, Traceless
<1>2. IInv /\ [Next]_vars => [A]_vars
  BY <1>1, NextKeeps
<1>3. QED
  BY Inductive, <1>2, PTL DEF Spec, FailureLeavesNoTrace

-----------------------------------------------------------------------------
(* The maps.  Every file of the directory, present, renamed away or asked for,  *)
(* has a node; the walk has gathered what the pipeline may gather; the map in   *)
(* use keeps the pipeline's promises.                                           *)
Known(d) == DOMAIN d \subseteq DOMAIN Template
Aimed(p) == op[p].kind = "publish" => op[p].target \in DOMAIN Template

MapInv == /\ Known(disk) /\ Known(away.was)
          /\ \A p \in Requests : Aimed(p)
          /\ WalkOK(walk.acc)
          /\ MapOK(cache.assets)

LEMMA SiteIsSite ==
  ASSUME NEW d, Versioned(d), Known(d)
  PROVE  IsSite(Site(d)) /\ DOMAIN Site(d) = DOMAIN d
<1>1. DOMAIN Site(d) = DOMAIN d
  BY DEF Site
<1>2. ASSUME NEW f \in DOMAIN d PROVE IsNode(Site(d)[f]) /\ Site(d)[f].ver \in Nat \ {0}
  <2>1. PICK n, v : n = Template[f] /\ v = d[f]
    OBVIOUS
  <2>2. IsNode(n) /\ v \in Nat \ {0}
    BY <2>1, TemplateAssumption DEF Known, Versioned
  <2>3. Site(d)[f] = [n EXCEPT !.ver = v]
    BY <2>1 DEF Site
  <2>4. PICK m : m = [n EXCEPT !.ver = v]
    OBVIOUS
  <2>5. m \in [ver : {v}, text : {n.text}, front : {n.front}, items : {n.items},
               date : {n.date}, big : {n.big}, link : {n.link}]
    BY <2>2, <2>4 DEF IsNode
  <2>6. /\ m.ver = v /\ m.text = n.text /\ m.items = n.items
        /\ m \in [ver : {m.ver}, text : {m.text}, front : {m.front}, items : {m.items},
                  date : {m.date}, big : {m.big}, link : {m.link}]
    BY <2>5
  <2>7. IsNode(m)
    BY <2>2, <2>6 DEF IsNode
  <2>8. QED
    BY <2>2, <2>3, <2>4, <2>6, <2>7
<1>3. QED
  BY <1>1, <1>2 DEF IsSite

LEMMA KnownPut ==
  ASSUME NEW d, Known(d), NEW f \in DOMAIN Template, NEW v
  PROVE  Known(Put(d, f, v))
BY DEF Known, Put

LEMMA KnownWithout ==
  ASSUME NEW d, Known(d), NEW f
  PROVE  Known(Without(d, f))
BY DEF Known, Without

(* A step that gives no request a new target.                                   *)
Aims == \A q \in Requests : op'[q].kind = "publish" =>
          op[q].kind = "publish" /\ op'[q].target = op[q].target

LEMMA AnswerAims ==
  ASSUME IInv, NEW p \in Requests, NEW pc \in Over, Answer(p, pc)
  PROVE  Aims /\ walk' = NoWalk
<1>1. DOMAIN op = Requests /\ op' = [op EXCEPT ![p] = [Idle EXCEPT !.pc = pc]] /\ walk' = NoWalk
  BY DEF IInv, Answer
<1> DEFINE r == [Idle EXCEPT !.pc = pc]
<1>2. r.kind = "none"
  BY DEF Idle, Request
<1> HIDE DEF r
<1>3. \A q \in Requests : op'[q] = IF q = p THEN r ELSE op[q]
  BY <1>1 DEF r
<1>4. QED
  BY <1>1, <1>2, <1>3 DEF Aims

LEMMA GotoAims ==
  ASSUME IInv, NEW p \in Requests, NEW pc \in Stages, Goto(p, pc)
  PROVE  Aims
BY GotoGoesOn DEF Aims, GoesOn

LEMMA SameAims ==
  ASSUME op' = op PROVE Aims
BY DEF Aims

LEMMA NoWalkOK == WalkOK(NoWalk.acc)
<1>1. NoWalk.acc = EmptyWalk
  BY DEF NoWalk
<1>2. QED
  BY <1>1, EmptyWalkOK

(* What a step has to show.                                                     *)
LEMMA MapKept ==
  ASSUME MapInv, Aims, Known(disk'), away' = away, walk' \in {walk, NoWalk}, cache' = cache
  PROVE  MapInv'
<1>1. WalkOK(walk'.acc)
  BY NoWalkOK DEF MapInv
<1>2. \A p \in Requests : Aimed(p)'
  BY DEF MapInv, Aims, Aimed
<1>3. QED
  BY <1>1, <1>2 DEF MapInv, Known

-----------------------------------------------------------------------------
(* The steps.                                                                   *)
LEMMA MapAsk ==
  ASSUME IInv, MapInv, NEW p \in Requests, NEW kind \in {"reload", "publish", "boot"}, NEW f,
         kind = "publish" => f \in DOMAIN Template,
         op' = [op EXCEPT ![p] = Request(kind, f, "wait")],
         UNCHANGED <<disk, away, cache, walk>>
  PROVE  MapInv'
<1> DEFINE r == Request(kind, f, "wait")
<1>1. r.kind = kind /\ r.target = f
  BY DEF Request
<1> HIDE DEF r
<1>2. \A q \in Requests : op'[q] = IF q = p THEN r ELSE op[q]
  BY DEF IInv, r
<1>3. \A q \in Requests : Aimed(q)'
  BY <1>1, <1>2 DEF MapInv, Aimed
<1>4. QED
  BY <1>3 DEF MapInv, Known

LEMMA MapLock ==
  ASSUME IInv, MapInv, NEW p \in Requests, Lock(p) PROVE MapInv'
<1>1. DOMAIN op = Requests /\ Fields(op[p])
  BY DEF IInv, Sound, WellFormed
<1>2. op' = [op EXCEPT ![p].pc = IF op[p].kind = "publish" THEN "create" ELSE "list",
                       ![p].before = disk, ![p].was = cache, ![p].touched = {}]
  BY DEF Lock
<1>3. \A q \in Requests : op'[q].kind = op[q].kind /\ op'[q].target = op[q].target
  BY <1>1, <1>2 DEF Fields
<1>4. Aims
  BY <1>3 DEF Aims
<1>5. UNCHANGED <<disk, away, cache, walk>>
  BY DEF Lock, Env
<1>6. QED
  BY <1>4, <1>5, MapKept DEF MapInv

LEMMA MapCreate ==
  ASSUME IInv, MapInv, NEW p \in Requests, Create(p) PROVE MapInv'
<1>1. op[p].pc = "create" /\ UNCHANGED <<cache, away>>
  BY DEF Create
<1>2. p \in Admins /\ DOMAIN op = Requests /\ Fields(op[p])
  BY <1>1, Publishes, AtWork DEF Holding
<1>3. TmpOf[p] \in DOMAIN Template /\ Known(disk)
  BY <1>2, TemplateAssumption DEF MapInv
<1>4. CASE /\ disk' = Put(disk, TmpOf[p], clock + 1) /\ walk' = walk
           /\ op' = [op EXCEPT ![p].pc = "readold", ![p].data = clock + 1]
  <2>1. Known(disk')
    BY <1>3, <1>4, KnownPut
  <2>2. \A q \in Requests : op'[q].kind = op[q].kind /\ op'[q].target = op[q].target
    BY <1>2, <1>4 DEF Fields
  <2>3. QED
    BY <1>1, <1>4, <2>1, <2>2, MapKept DEF Aims
<1>5. CASE Answer(p, "failed") /\ disk' = disk
  BY <1>1, <1>3, <1>5, AnswerAims, MapKept DEF Over
<1>6. QED
  BY <1>4, <1>5 DEF Create

LEMMA MapReadOld ==
  ASSUME IInv, MapInv, NEW p \in Requests, ReadOld(p) PROVE MapInv'
<1>1. op[p].pc = "readold" /\ UNCHANGED <<cache, away>>
  BY DEF ReadOld, Env
<1>2. DOMAIN op = Requests /\ Fields(op[p]) /\ Known(disk)
  BY <1>1, AtWork DEF Holding, MapInv
<1> DEFINE old == IF op[p].target \in DOMAIN disk THEN disk[op[p].target] ELSE 0
<1>3. CASE /\ op' = [op EXCEPT ![p].pc = "rename", ![p].old = old]
           /\ UNCHANGED <<disk, walk>>
  <2> HIDE DEF old
  <2>1. \A q \in Requests : op'[q].kind = op[q].kind /\ op'[q].target = op[q].target
    BY <1>2, <1>3 DEF Fields
  <2>2. QED
    BY <1>1, <1>2, <1>3, <2>1, MapKept DEF Aims
<1>4. CASE Answer(p, "failed") /\ disk' = Without(disk, TmpOf[p])
  BY <1>1, <1>2, <1>4, KnownWithout, AnswerAims, MapKept DEF Over
<1>5. QED
  BY <1>3, <1>4 DEF ReadOld

LEMMA MapRename ==
  ASSUME IInv, MapInv, NEW p \in Requests, Rename(p) PROVE MapInv'
<1>1. op[p].pc = "rename" /\ UNCHANGED <<cache, away>>
  BY DEF Rename, Env
<1>2. op[p].target \in DOMAIN Template /\ Known(Without(disk, TmpOf[p]))
  BY <1>1, Publishes, KnownWithout DEF MapInv, Aimed
<1>3. CASE /\ disk' = Put(Without(disk, TmpOf[p]), op[p].target, op[p].data)
           /\ Goto(p, "list") /\ walk' = walk
  BY <1>1, <1>2, <1>3, KnownPut, GotoAims, MapKept DEF Stages, Holding
<1>4. CASE Answer(p, "failed") /\ disk' = Without(disk, TmpOf[p])
  BY <1>1, <1>2, <1>4, AnswerAims, MapKept DEF Over
<1>5. QED
  BY <1>3, <1>4 DEF Rename

LEMMA MapList ==
  ASSUME IInv, MapInv, NEW p \in Requests, List(p) PROVE MapInv'
<1>1. UNCHANGED <<disk, away>>
  BY DEF List, Env
<1>2. CASE cache' = [up |-> TRUE, assets |-> <<>>] /\ Answer(p, "ok")
  <2>1. Aims /\ walk' = NoWalk
    BY <1>2, AnswerAims DEF Over
  <2>2. cache'.assets = <<>>
    BY <1>2
  <2>3. MapOK(cache'.assets) /\ WalkOK(walk'.acc)
    BY <2>1, <2>2, EmptyMapOK, NoWalkOK
  <2>4. QED
    BY <1>1, <2>1, <2>3 DEF MapInv, Known, Aims, Aimed
<1>3. CASE /\ walk' = [todo |-> DOMAIN disk, acc |-> EmptyWalk]
           /\ Goto(p, "load") /\ UNCHANGED cache
  <2>1. Aims
    BY <1>3, GotoAims DEF Stages, Holding
  <2>2. walk'.acc = EmptyWalk
    BY <1>3
  <2>3. WalkOK(walk'.acc)
    BY <2>2, EmptyWalkOK
  <2>4. QED
    BY <1>1, <1>3, <2>1, <2>3 DEF MapInv, Known, Aims, Aimed
<1>4. QED
  BY <1>2, <1>3 DEF List

LEMMA MapVisitFile ==
  ASSUME IInv, MapInv, NEW p \in Requests, VisitFile(p) PROVE MapInv'
<1>1. UNCHANGED <<disk, away>>
  BY DEF VisitFile, Env
<1> DEFINE f == NextOf(walk.todo)
<1>2. CASE /\ f \in DOMAIN disk \/ IsHidden(f)
           /\ walk' = [todo |-> walk.todo \ {f},
                       acc |-> IF IsHidden(f) THEN walk.acc ELSE Visit(walk.acc, Site(disk), f)]
           /\ UNCHANGED <<cache, op>>
  <2> HIDE DEF f
  <2>1. IsSite(Site(disk)) /\ DOMAIN Site(disk) = DOMAIN disk
    BY SiteIsSite DEF IInv, MapInv
  <2>2. walk'.acc = IF IsHidden(f) THEN walk.acc ELSE Visit(walk.acc, Site(disk), f)
    BY <1>2
  <2>3. ~IsHidden(f) => WalkOK(Visit(walk.acc, Site(disk), f))
    BY <1>2, <2>1, VisitOK DEF MapInv
  <2>4. WalkOK(walk'.acc)
    BY <2>2, <2>3 DEF MapInv
  <2>5. QED
    BY <1>1, <1>2, <2>4 DEF MapInv, Known, Aimed
<1>3. CASE LoadFails(p)
  <2>1. cache' = cache
    BY <1>3 DEF LoadFails
  <2>2. CASE Answer(p, "failed")
    BY <1>1, <2>1, <2>2, AnswerAims, MapKept DEF Over, MapInv
  <2>3. CASE Goto(p, IF op[p].old # 0 THEN "restore" ELSE "remove") /\ walk' = NoWalk
    <3>1. Aims
      BY <2>3, GotoAims DEF Stages, Holding
    <3>2. QED
      BY <1>1, <2>1, <2>3, <3>1, MapKept DEF MapInv
  <2>4. QED
    BY <1>3, <2>2, <2>3 DEF LoadFails
<1>4. QED
  BY <1>2, <1>3 DEF VisitFile

LEMMA MapSwap ==
  ASSUME IInv, MapInv, NEW p \in Requests, Swap(p) PROVE MapInv'
<1>1. UNCHANGED <<disk, away>> /\ Answer(p, "ok")
      /\ cache' = [up |-> TRUE, assets |-> Finish(walk.acc, Site(disk))]
  BY DEF Swap, Env
<1>2. IsSite(Site(disk))
  BY SiteIsSite DEF IInv, MapInv
<1>3. MapOK(Finish(walk.acc, Site(disk)))
  BY <1>2, FinishOK DEF MapInv
<1>4. cache'.assets = Finish(walk.acc, Site(disk))
  BY <1>1
<1>5. MapOK(cache'.assets)
  BY <1>3, <1>4
<1>6. Aims /\ walk' = NoWalk
  BY <1>1, AnswerAims DEF Over
<1>7. WalkOK(walk'.acc)
  BY <1>6, NoWalkOK
<1>8. QED
  BY <1>1, <1>5, <1>6, <1>7 DEF MapInv, Known, Aims, Aimed

LEMMA MapRestore ==
  ASSUME IInv, MapInv, NEW p \in Requests, Restore(p) PROVE MapInv'
<1>1. op[p].pc = "restore" /\ UNCHANGED <<cache, away>>
  BY DEF Restore, Env
<1>2. TmpOf[p] \in DOMAIN Template /\ Known(disk)
  BY <1>1, Publishes, TemplateAssumption DEF Undoing, MapInv
<1>3. CASE disk' = Put(disk, TmpOf[p], op[p].old) /\ Goto(p, "renameback") /\ walk' = walk
  BY <1>1, <1>2, <1>3, KnownPut, GotoAims, MapKept DEF Stages, Holding
<1>4. CASE Answer(p, "broken") /\ disk' = disk
  BY <1>1, <1>2, <1>4, AnswerAims, MapKept DEF Over
<1>5. QED
  BY <1>3, <1>4 DEF Restore

LEMMA MapRenameBack ==
  ASSUME IInv, MapInv, NEW p \in Requests, RenameBack(p) PROVE MapInv'
<1>1. op[p].pc = "renameback" /\ UNCHANGED <<cache, away>>
  BY DEF RenameBack, Env
<1>2. op[p].target \in DOMAIN Template /\ Known(Without(disk, TmpOf[p]))
  BY <1>1, Publishes, KnownWithout DEF MapInv, Aimed, Undoing
<1>3. CASE /\ disk' = Put(Without(disk, TmpOf[p]), op[p].target, op[p].old)
           /\ Answer(p, "failed")
  BY <1>1, <1>2, <1>3, KnownPut, AnswerAims, MapKept DEF Over
<1>4. CASE Answer(p, "broken") /\ disk' = Without(disk, TmpOf[p])
  BY <1>1, <1>2, <1>4, AnswerAims, MapKept DEF Over
<1>5. QED
  BY <1>3, <1>4 DEF RenameBack

LEMMA MapRemoveNew ==
  ASSUME IInv, MapInv, NEW p \in Requests, RemoveNew(p) PROVE MapInv'
<1>1. UNCHANGED <<cache, away>> /\ Known(disk)
  BY DEF RemoveNew, Env, MapInv
<1>2. PICK pc \in {"failed", "broken"} : Answer(p, pc)
  BY DEF RemoveNew
<1>3. disk' = disk \/ disk' = Without(disk, op[p].target)
  BY DEF RemoveNew
<1>4. Known(disk')
  BY <1>1, <1>3, KnownWithout
<1>5. QED
  BY <1>1, <1>2, <1>4, AnswerAims, MapKept DEF Over

LEMMA MapEdit ==
  ASSUME IInv, MapInv, NEW f \in Editable, Edit(f) PROVE MapInv'
<1>1. DOMAIN op = Requests /\ \A q \in Requests : Fields(op[q])
  BY DEF IInv, Sound, WellFormed
<1>2. \A q \in Requests : op'[q].kind = op[q].kind /\ op'[q].target = op[q].target
  <2>1. CASE op' = op
    BY <2>1
  <2>2. CASE lock # Free /\ op' = [op EXCEPT ![lock].touched = @ \cup {f}]
    BY <1>1, <2>2 DEF Fields
  <2>3. QED
    BY <2>1, <2>2 DEF Edit, Touch
<1>3. f \in DOMAIN Template /\ Known(disk)
  BY TemplateAssumption DEF MapInv
<1>4. disk' = Put(disk, f, clock + 1) \/ disk' = Without(disk, f)
  BY DEF Edit
<1>5. Known(disk')
  BY <1>3, <1>4, KnownPut, KnownWithout
<1>6. UNCHANGED <<away, cache, walk>>
  BY DEF Edit
<1>7. QED
  BY <1>2, <1>5, <1>6, MapKept DEF Aims

LEMMA MapWorld ==
  ASSUME IInv, MapInv, SwapOut \/ SwapIn \/ Crash PROVE MapInv'
<1>1. CASE SwapOut
  <2>1. /\ disk' = <<>> /\ away'.was = disk
        /\ UNCHANGED <<cache, walk, op>>
    BY <1>1 DEF SwapOut
  <2>2. QED
    BY <2>1 DEF MapInv, Known, Aimed
<1>2. CASE SwapIn
  <2>1. /\ disk' = away.was /\ away'.was = <<>>
        /\ UNCHANGED <<cache, walk, op>>
    BY <1>2 DEF SwapIn, NoDir
  <2>2. QED
    BY <2>1 DEF MapInv, Known, Aimed
<1>3. CASE Crash
  <2> DEFINE lost == [Idle EXCEPT !.pc = "lost"]
  <2>1. /\ cache' = NoCache /\ walk' = NoWalk /\ UNCHANGED <<disk, away>>
        /\ DOMAIN op = Requests
        /\ op' = [p \in DOMAIN op |-> IF p = Boot THEN Idle ELSE IF InFlight(p) THEN lost ELSE op[p]]
    BY <1>3 DEF Crash, IInv
  <2>2. lost.kind = "none" /\ Idle.kind = "none"
    BY DEF Idle, Request
  <2> HIDE DEF lost
  <2>3. \A q \in Requests : op'[q] \in {Idle, lost, op[q]}
    BY <2>1
  <2>4. \A q \in Requests : Aimed(q)'
    BY <2>2, <2>3 DEF MapInv, Aimed
  <2>5. cache'.assets = <<>>
    BY <2>1 DEF NoCache
  <2>6. MapOK(cache'.assets) /\ WalkOK(walk'.acc)
    BY <2>1, <2>5, EmptyMapOK, NoWalkOK
  <2>7. QED
    BY <2>1, <2>4, <2>6 DEF MapInv, Known
<1>4. QED
  BY <1>1, <1>2, <1>3

LEMMA MapInit == Init => MapInv
<1> SUFFICES ASSUME Init PROVE MapInv
  OBVIOUS
<1>1. /\ disk \in Sites /\ away.was = <<>> /\ cache.assets = <<>> /\ walk = NoWalk
      /\ op = [p \in Requests |-> Idle]
  BY DEF Init, NoDir, NoCache, Requests
<1>2. Idle.kind = "none"
  BY DEF Idle, Request
<1>3. Known(disk) /\ Known(away.was)
  BY <1>1, TemplateAssumption DEF Known
<1>4. \A p \in Requests : Aimed(p)
  BY <1>1, <1>2 DEF Aimed
<1>5. QED
  BY <1>1, <1>3, <1>4, EmptyMapOK, NoWalkOK DEF MapInv

LEMMA NextMaps == IInv /\ MapInv /\ [Next]_vars => MapInv'
<1> SUFFICES ASSUME IInv, MapInv, [Next]_vars PROVE MapInv'
  OBVIOUS
<1>1. ASSUME NEW p \in Reloaders, AskReload(p) PROVE MapInv'
  <2>1. p \in Requests
    BY ProcessesAssumption DEF Requests
  <2>2. QED
    BY <1>1, <2>1, MapAsk DEF AskReload, Env
<1>2. ASSUME NEW p \in Admins, NEW f \in Targets, AskPublish(p, f) PROVE MapInv'
  <2>1. p \in Requests /\ f \in DOMAIN Template
    BY <1>2, TemplateAssumption DEF Requests, AskPublish
  <2>2. QED
    BY <1>2, <2>1, MapAsk DEF AskPublish, Env
<1>3. ASSUME NEW p \in Requests, Step(p) PROVE MapInv'
  BY <1>3, MapLock, MapList, MapVisitFile, MapSwap, MapCreate, MapReadOld,
     MapRename, MapRestore, MapRenameBack, MapRemoveNew DEF Step
<1>4. ASSUME NEW f \in Editable, Edit(f) PROVE MapInv'
  BY <1>4, MapEdit
<1>5. CASE SwapOut \/ SwapIn \/ Crash
  BY <1>5, MapWorld
<1>6. CASE Start
  <2>1. Boot \in Requests
    BY DEF Requests
  <2>2. QED
    BY <1>6, <2>1, MapAsk DEF Start, Env
<1>7. CASE UNCHANGED <<disk, away, cache, walk, op>>
  BY <1>7 DEF MapInv, Known, Aimed
<1>8. ASSUME NEW u \in Urls, OpenPage(u) PROVE MapInv'
  BY <1>7, <1>8 DEF OpenPage, Env
<1>9. ASSUME NEW r \in view, FetchRef(r) PROVE MapInv'
  BY <1>7, <1>9 DEF FetchRef, Env
<1>10. QED
  BY <1>1, <1>2, <1>3, <1>4, <1>5, <1>6, <1>7, <1>8, <1>9 DEF Next, Requests, vars

LEMMA MapsInductive == Spec => [](IInv /\ MapInv)
<1>1. Init => IInv /\ MapInv
  BY InitSound, MapInit
<1>2. IInv /\ MapInv /\ [Next]_vars => (IInv /\ MapInv)'
  BY NextKeeps, NextMaps
<1>3. QED
  BY <1>1, <1>2, PTL DEF Spec

(* Whatever the directory holds and whatever is edited while it is read, every  *)
(* reference a page fingerprints is answered by its own map with that content.  *)
THEOREM MarkedRefsServed == Spec => []RefsMatch
<1>1. MapInv => RefsMatch
  <2> SUFFICES ASSUME MapInv, NEW r \in DOMAIN cache.assets, NEW k \in ToSet(cache.assets[r].body),
                      cache.assets[r].of = r, k.t = "absref" \/ (k.t = "ref" /\ k.to.dir = <<>>),
                      k.v # 0
               PROVE  LET hit == FindAsset(cache.assets, Resolved(r, k))
                      IN  hit # NoName /\ cache.assets[hit].ver = k.v
    BY DEF RefsMatch
  <2>1. Resolved(r, k) = BesideOf(r.dir, k)
    BY DEF Resolved, BesideOf
  <2>2. QED
    BY <2>1 DEF MapInv, MapOK, MarksMatch
<1>2. QED
  BY <1>1, MapsInductive, PTL

(* No map offers a hidden file, and every route of its sitemap is answered by a *)
(* page that claims it.                                                         *)
THEOREM MapsAreSound == Spec => []CacheSound
<1>1. MapInv => CacheSound
  <2> SUFFICES ASSUME MapInv PROVE CacheSound
    OBVIOUS
  <2>1. MapOK(cache.assets)
    BY DEF MapInv
  <2>2. \A r \in DOMAIN cache.assets, p \in Admins : cache.assets[r].of # TmpOf[p]
    BY <2>1, TmpIsOwn DEF MapOK, NothingHidden
  <2>3. QED
    BY <2>1, <2>2 DEF CacheSound, MapOK, ListedAnswered
<1>2. QED
  BY <1>1, MapsInductive, PTL
-----------------------------------------------------------------------------
(* Ages: what protects a browser from an answer older than its page.  F is a    *)
(* map, V the references of the page it shows, n the clock, d the directory.    *)
(* A content x of the file f is fresh when neither the map nor the page has     *)
(* seen a younger one.  (A file the map never shows cannot grow old.)           *)
Below(F, V, f, x) ==
  /\ f \in DOMAIN F /\ F[f].of = f => F[f].ver <= x
  /\ \A r \in V : r.file = f => r.v <= x
Fresh(F, V, n, f, x) == x <= n /\ (~IsHidden(f) => Below(F, V, f, x))

DirAges(d, F, V, n) == \A f \in DOMAIN d : Fresh(F, V, n, f, d[f])
MapAges(F, n) == \A r \in DOMAIN F : F[r].ver \in Nat /\ F[r].ver <= n
ViewAges(F, V, n) ==
  \A r \in V : /\ r.v \in Nat /\ r.v <= n
               /\ r.file \in DOMAIN F /\ F[r.file].ver # 0 => r.v <= F[r.file].ver
WalkAges(H, d, F, V, n) ==
  \A g \in DOMAIN H : /\ H[g] \in Nat /\ Fresh(F, V, n, g, H[g])
                      /\ g \in DOMAIN d => H[g] <= d[g]

(* What a publication brings, and what it may bring back.                       *)
RequestAges(r, F, V, n) ==
  r.kind = "publish" =>
    /\ r.pc \in {"readold", "rename"} => Fresh(F, V, n, r.target, r.data)
    /\ r.pc \in {"rename", "list", "load"} \cup Undoing /\ r.old # 0 =>
         Fresh(F, V, n, r.target, r.old)

(* The walk's record is empty unless somebody loads; the directory that is away *)
(* is the only one then, and no publication is in the middle of it.             *)
Deep == {"readold", "rename", "load"} \cup Undoing
Loading ==
  /\ (\A p \in Requests : op[p].pc # "load") => walk = NoWalk
  /\ ~away.gone => away.was = <<>>
  /\ away.gone => \A p \in Requests : op[p].pc \notin Deep

AgeInv == /\ DirAges(disk, cache.assets, view, clock)
          /\ DirAges(away.was, cache.assets, view, clock)
          /\ MapAges(cache.assets, clock)
          /\ ViewAges(cache.assets, view, clock)
          /\ WalkAges(walk.acc.hashes, disk, cache.assets, view, clock)
          /\ Loading
          /\ \A p \in Requests : RequestAges(op[p], cache.assets, view, clock)

-----------------------------------------------------------------------------
(* Time passes; a new content is the youngest.                                  *)
LEMMA FreshLater ==
  ASSUME NEW F, NEW V, NEW n \in Nat, NEW m \in Nat, n <= m, NEW f, NEW x \in Nat,
         Fresh(F, V, n, f, x)
  PROVE  Fresh(F, V, m, f, x)
BY DEF Fresh

LEMMA FreshNew ==
  ASSUME NEW F, NEW V, NEW n \in Nat, MapAges(F, n), ViewAges(F, V, n), NEW f
  PROVE  Fresh(F, V, n + 1, f, n + 1)
BY DEF Fresh, Below, MapAges, ViewAges

LEMMA LaterAges ==
  ASSUME NEW F, NEW V, NEW n \in Nat, NEW m \in Nat, n <= m
  PROVE  /\ MapAges(F, n) => MapAges(F, m)
         /\ ViewAges(F, V, n) => ViewAges(F, V, m)
         /\ \A d : Versioned(d) /\ DirAges(d, F, V, n) => DirAges(d, F, V, m)
         /\ \A H, d : WalkAges(H, d, F, V, n) => WalkAges(H, d, F, V, m)
         /\ \A r : Fields(r) /\ RequestAges(r, F, V, n) => RequestAges(r, F, V, m)
<1>1. MapAges(F, n) => MapAges(F, m)
  BY DEF MapAges
<1>2. ViewAges(F, V, n) => ViewAges(F, V, m)
  BY DEF ViewAges
<1>3. ASSUME NEW d, Versioned(d), DirAges(d, F, V, n) PROVE DirAges(d, F, V, m)
  BY <1>3, FreshLater DEF DirAges, Versioned
<1>4. ASSUME NEW H, NEW d, WalkAges(H, d, F, V, n) PROVE WalkAges(H, d, F, V, m)
  BY <1>4, FreshLater DEF WalkAges
<1>5. ASSUME NEW r, Fields(r), RequestAges(r, F, V, n) PROVE RequestAges(r, F, V, m)
  <2>1. r.data \in Nat /\ r.old \in Nat
    BY <1>5 DEF Fields
  <2>2. QED
    BY <1>5, <2>1, FreshLater DEF RequestAges
<1>6. QED
  BY <1>1, <1>2, <1>3, <1>4, <1>5

(* Nothing gathered, nothing old; a request that does not publish neither.      *)
LEMMA NoAges ==
  ASSUME NEW F, NEW V, NEW n, NEW d
  PROVE  /\ WalkAges(NoWalk.acc.hashes, d, F, V, n) /\ WalkAges(EmptyWalk.hashes, d, F, V, n)
         /\ DirAges(<<>>, F, V, n) /\ DirAges(NoDir.was, F, V, n)
         /\ MapAges(<<>>, n)
<1>1. /\ NoWalk.acc.hashes = <<>> /\ EmptyWalk.hashes = <<>> /\ NoDir.was = <<>>
      /\ DOMAIN <<>> = {}
  BY DEF NoWalk, EmptyWalk, NoDir
<1>2. QED
  BY <1>1 DEF WalkAges, DirAges, MapAges
-----------------------------------------------------------------------------
(* The directory with one file more or less, and who is at work.                *)
LEMMA DirAgesPut ==
  ASSUME NEW d, NEW F, NEW V, NEW n, DirAges(d, F, V, n), NEW f, NEW x, Fresh(F, V, n, f, x)
  PROVE  DirAges(Put(d, f, x), F, V, n)
<1>1. PICK e : e = Put(d, f, x)
  OBVIOUS
<1>2. DOMAIN e = DOMAIN d \cup {f} /\ \A g \in DOMAIN e : e[g] = IF g = f THEN x ELSE d[g]
  BY <1>1 DEF Put
<1>3. DirAges(e, F, V, n)
  BY <1>2 DEF DirAges
<1>4. QED
  BY <1>1, <1>3

LEMMA DirAgesWithout ==
  ASSUME NEW d, NEW F, NEW V, NEW n, DirAges(d, F, V, n), NEW f
  PROVE  DirAges(Without(d, f), F, V, n)
<1>1. PICK e : e = Without(d, f)
  OBVIOUS
<1>2. DOMAIN e = DOMAIN d \ {f} /\ \A g \in DOMAIN e : e[g] = d[g]
  BY <1>1 DEF Without
<1>3. DirAges(e, F, V, n)
  BY <1>2 DEF DirAges
<1>4. QED
  BY <1>1, <1>3

LEMMA RestingAges ==
  ASSUME NEW r, r.pc \notin Holding \/ r.kind # "publish", NEW F, NEW V, NEW n
  PROVE  RequestAges(r, F, V, n)
BY DEF RequestAges, Holding, Undoing

LEMMA NotLoading ==
  ASSUME IInv, AgeInv,
         lock = Free \/ \E p \in Requests : op[p].pc \in Holding \ {"load"}
  PROVE  walk = NoWalk
<1>1. ASSUME NEW q \in Requests, op[q].pc = "load" PROVE FALSE
  <2>1. lock = q /\ q # Free
    BY <1>1, AtWork, ProcessesAssumption DEF Holding, Requests
  <2>2. \A p \in Requests : op[p].pc \in Holding => p = q
    BY <2>1, AtWork
  <2>3. QED
    BY <1>1, <2>1, <2>2
<1>2. QED
  BY <1>1 DEF AgeInv, Loading

LEMMA LoadingKept ==
  ASSUME AgeInv, away' = away,
         \/ walk' = NoWalk
         \/ walk' = walk /\ \A q \in Requests : op[q].pc = "load" => op'[q].pc = "load"
         \/ \E q \in Requests : op'[q].pc = "load",
         \A q \in Requests : op'[q].pc \in Deep => op[q].pc \in Deep \/ ~away.gone
  PROVE  Loading'
BY DEF AgeInv, Loading

(* A step that leaves the map and the page alone.                               *)
LEMMA AgesKept ==
  ASSUME IInv, AgeInv, clock' \in {clock, clock + 1}, UNCHANGED <<cache, view, away>>,
         DirAges(disk', cache.assets, view, clock'),
         WalkAges(walk'.acc.hashes, disk', cache.assets, view, clock'),
         Loading',
         \A q \in Requests : RequestAges(op'[q], cache.assets, view, clock')
  PROVE  AgeInv'
<1>1. clock \in Nat /\ clock' \in Nat /\ clock <= clock' /\ Versioned(away.was)
  BY DEF IInv
<1>2. PICK F, V, n, m, d : F = cache.assets /\ V = view /\ n = clock /\ m = clock' /\ d = away.was
  OBVIOUS
<1>3. MapAges(F, m) /\ ViewAges(F, V, m) /\ DirAges(d, F, V, m)
  BY <1>1, <1>2, LaterAges DEF AgeInv
<1>4. QED
  BY <1>2, <1>3 DEF AgeInv

(* The others' requests grow no older.                                          *)
LEMMA OthersAges ==
  ASSUME IInv, AgeInv, clock' \in {clock, clock + 1}, NEW q \in Requests, op'[q] = op[q]
  PROVE  RequestAges(op'[q], cache.assets, view, clock')
<1>1. clock \in Nat /\ clock' \in Nat /\ clock <= clock' /\ Fields(op[q])
  BY DEF IInv, Sound, WellFormed
<1>2. PICK F, V, n, m, r : F = cache.assets /\ V = view /\ n = clock /\ m = clock' /\ r = op[q]
  OBVIOUS
<1>3. RequestAges(r, F, V, m)
  BY <1>1, <1>2, LaterAges DEF AgeInv
<1>4. QED
  BY <1>2, <1>3

LEMMA AgesMoved ==
  ASSUME IInv, AgeInv, NEW p \in Requests, NEW pc, op'[p].pc = pc,
         \A q \in Requests \ {p} : op'[q] = op[q],
         clock' \in {clock, clock + 1}, UNCHANGED <<cache, view, away>>,
         DirAges(disk', cache.assets, view, clock'),
         WalkAges(walk'.acc.hashes, disk', cache.assets, view, clock'),
         walk' = NoWalk \/ pc = "load" \/ (walk' = walk /\ op[p].pc # "load"),
         pc \in Deep => op[p].pc \in Deep \/ ~away.gone,
         RequestAges(op'[p], cache.assets, view, clock')
  PROVE  AgeInv'
<1>1. Loading'
  BY LoadingKept
<1>2. \A q \in Requests : RequestAges(op'[q], cache.assets, view, clock')
  BY OthersAges
<1>3. QED
  BY <1>1, <1>2, AgesKept

LEMMA AnswerParts ==
  ASSUME IInv, NEW p \in Requests, NEW pc \in Over, Answer(p, pc)
  PROVE  /\ \A q \in Requests \ {p} : op'[q] = op[q]
         /\ op'[p].pc = pc /\ op'[p].kind = "none" /\ walk' = NoWalk
<1>1. DOMAIN op = Requests /\ op' = [op EXCEPT ![p] = [Idle EXCEPT !.pc = pc]] /\ walk' = NoWalk
  BY DEF IInv, Answer
<1> DEFINE r == [Idle EXCEPT !.pc = pc]
<1>2. r.kind = "none" /\ r.pc = pc
  BY DEF Idle, Request
<1> HIDE DEF r
<1>3. op'[p] = r /\ \A q \in Requests \ {p} : op'[q] = op[q]
  BY <1>1 DEF r
<1>4. QED
  BY <1>1, <1>2, <1>3

LEMMA AgesAnswered ==
  ASSUME IInv, AgeInv, NEW p \in Requests, NEW pc \in Over, Answer(p, pc),
         clock' \in {clock, clock + 1}, UNCHANGED <<cache, view, away>>,
         DirAges(disk', cache.assets, view, clock')
  PROVE  AgeInv'
<1>1. /\ \A q \in Requests \ {p} : op'[q] = op[q]
      /\ op'[p].pc = pc /\ op'[p].kind = "none" /\ walk' = NoWalk
  BY AnswerParts
<1>2. pc \notin Deep
  BY DEF Deep, Over, Undoing
<1>3. RequestAges(op'[p], cache.assets, view, clock')
  BY <1>1 DEF RequestAges
<1>4. WalkAges(walk'.acc.hashes, disk', cache.assets, view, clock')
  BY <1>1, NoAges
<1>5. QED
  BY <1>1, <1>2, <1>3, <1>4, AgesMoved
-----------------------------------------------------------------------------
(* The steps.  What p knows while it holds the mutex.                           *)
LEMMA AgesAtWork ==
  ASSUME IInv, AgeInv, NEW p \in Requests, op[p].pc \in Holding
  PROVE  /\ clock \in Nat /\ DOMAIN op = Requests /\ Fields(op[p])
         /\ DirAges(disk, cache.assets, view, clock)
         /\ RequestAges(op[p], cache.assets, view, clock)
         /\ op[p].pc # "load" => walk = NoWalk
         /\ op[p].pc \in Deep => ~away.gone
<1>1. op[p].pc # "load" => walk = NoWalk
  BY NotLoading
<1>2. QED
  BY <1>1, AtWork DEF AgeInv, Loading

LEMMA WaitingRequest ==
  ASSUME NEW kind, NEW f
  PROVE  \E r : r = Request(kind, f, "wait") /\ r.pc = "wait"
<1>1. Request(kind, f, "wait").pc = "wait"
  BY DEF Request
<1>2. QED
  BY <1>1

LEMMA AgeAsk ==
  ASSUME IInv, AgeInv, NEW p \in Requests, op[p].pc \in {"idle", "failed"},
         NEW r, r.pc = "wait", op' = [op EXCEPT ![p] = r],
         UNCHANGED <<disk, away, cache, walk, view, clock>>
  PROVE  AgeInv'
<1>1. op'[p] = r /\ \A q \in Requests \ {p} : op'[q] = op[q]
  BY DEF IInv
<1>2. RequestAges(op'[p], cache.assets, view, clock')
  BY <1>1, RestingAges DEF Holding
<1>3. /\ DirAges(disk', cache.assets, view, clock')
      /\ WalkAges(walk'.acc.hashes, disk', cache.assets, view, clock')
  BY DEF AgeInv
<1>4. "wait" \notin Deep /\ op'[p].pc = "wait" /\ op[p].pc # "load"
  BY <1>1 DEF Deep, Undoing
<1>5. QED
  BY <1>1, <1>2, <1>3, <1>4, AgesMoved

LEMMA AgeLock ==
  ASSUME IInv, AgeInv, NEW p \in Requests, Lock(p) PROVE AgeInv'
<1>1. DOMAIN op = Requests /\ Fields(op[p])
  BY DEF IInv, Sound, WellFormed
<1>2. op' = [op EXCEPT ![p].pc = IF op[p].kind = "publish" THEN "create" ELSE "list",
                       ![p].before = disk, ![p].was = cache, ![p].touched = {}]
  BY DEF Lock
<1>3. /\ \A q \in Requests \ {p} : op'[q] = op[q]
      /\ op'[p].kind = op[p].kind
      /\ op'[p].pc = IF op[p].kind = "publish" THEN "create" ELSE "list"
  BY <1>1, <1>2 DEF Fields
<1>4. RequestAges(op'[p], cache.assets, view, clock')
  BY <1>3 DEF RequestAges, Undoing
<1>5. op[p].pc = "wait" /\ UNCHANGED <<disk, away, cache, walk, view, clock>>
  BY DEF Lock, Env, browserVars
<1>6. /\ DirAges(disk', cache.assets, view, clock')
      /\ WalkAges(walk'.acc.hashes, disk', cache.assets, view, clock')
  BY <1>5 DEF AgeInv
<1>7. op'[p].pc \notin Deep
  BY <1>3 DEF Deep, Undoing
<1>8. QED
  BY <1>3, <1>4, <1>5, <1>6, <1>7, AgesMoved

LEMMA AgeCreate ==
  ASSUME IInv, AgeInv, NEW p \in Requests, Create(p) PROVE AgeInv'
<1>1. op[p].pc = "create" /\ UNCHANGED <<cache, away, view>>
  BY DEF Create, browserVars
<1>2. /\ clock \in Nat /\ DOMAIN op = Requests /\ Fields(op[p]) /\ walk = NoWalk
      /\ DirAges(disk, cache.assets, view, clock)
  BY <1>1, AgesAtWork DEF Holding
<1>3. CASE /\ ~away.gone /\ disk' = Put(disk, TmpOf[p], clock + 1)
           /\ op' = [op EXCEPT ![p].pc = "readold", ![p].data = clock + 1]
           /\ clock' = clock + 1 /\ walk' = walk
  <2>1. PICK F, V, n, d : F = cache.assets /\ V = view /\ n = clock /\ d = disk
    OBVIOUS
  <2>2. \A f : Fresh(F, V, n + 1, f, n + 1)
    BY <1>2, <2>1, FreshNew DEF AgeInv
  <2>3. DirAges(d, F, V, n + 1)
    BY <1>2, <2>1, LaterAges DEF IInv
  <2>4. DirAges(Put(d, TmpOf[p], n + 1), F, V, n + 1)
    BY <2>2, <2>3, DirAgesPut
  <2>5. DirAges(disk', cache.assets, view, clock')
    BY <1>3, <2>1, <2>4
  <2>6. op'[p].data = n + 1 /\ op'[p].pc = "readold" /\ \A q \in Requests \ {p} : op'[q] = op[q]
    BY <1>2, <1>3, <2>1 DEF Fields
  <2>7. RequestAges(op'[p], cache.assets, view, clock')
    BY <1>3, <2>1, <2>2, <2>6 DEF RequestAges, Undoing
  <2>8. WalkAges(walk'.acc.hashes, disk', cache.assets, view, clock') /\ walk' = NoWalk
    BY <1>2, <1>3, NoAges
  <2>9. QED
    BY <1>1, <1>3, <2>5, <2>6, <2>7, <2>8, AgesMoved
<1>4. CASE Answer(p, "failed") /\ UNCHANGED <<disk, clock>>
  BY <1>1, <1>2, <1>4, AgesAnswered DEF Over
<1>5. QED
  BY <1>3, <1>4 DEF Create

LEMMA AgeReadOld ==
  ASSUME IInv, AgeInv, NEW p \in Requests, ReadOld(p) PROVE AgeInv'
<1>1. op[p].pc = "readold" /\ UNCHANGED <<cache, away, view, clock>>
  BY DEF ReadOld, browserVars, Env
<1>2. /\ clock \in Nat /\ DOMAIN op = Requests /\ Fields(op[p]) /\ walk = NoWalk
      /\ DirAges(disk, cache.assets, view, clock)
      /\ RequestAges(op[p], cache.assets, view, clock)
      /\ op[p].kind = "publish"
  BY <1>1, AgesAtWork, Publishes DEF Holding
<1> DEFINE old == IF op[p].target \in DOMAIN disk THEN disk[op[p].target] ELSE 0
<1>3. CASE /\ op' = [op EXCEPT ![p].pc = "rename", ![p].old = old]
           /\ UNCHANGED <<disk, walk>>
  <2>1. old # 0 => Fresh(cache.assets, view, clock, op[p].target, old)
    BY <1>2 DEF DirAges
  <2> HIDE DEF old
  <2>2. /\ \A q \in Requests \ {p} : op'[q] = op[q]
        /\ op'[p].pc = "rename" /\ op'[p].old = old /\ op'[p].target = op[p].target
        /\ op'[p].data = op[p].data
    BY <1>2, <1>3 DEF Fields
  <2>3. Fresh(cache.assets, view, clock, op[p].target, op[p].data)
    BY <1>1, <1>2 DEF RequestAges
  <2>4. RequestAges(op'[p], cache.assets, view, clock)
    BY <2>1, <2>2, <2>3 DEF RequestAges
  <2>5. WalkAges(walk'.acc.hashes, disk', cache.assets, view, clock') /\ walk' = NoWalk
    BY <1>2, <1>3, NoAges
  <2>6. "readold" \in Deep
    BY DEF Deep
  <2>7. QED
    BY <1>1, <1>2, <1>3, <2>2, <2>4, <2>5, <2>6, AgesMoved
<1>4. CASE Answer(p, "failed") /\ disk' = Without(disk, TmpOf[p])
  BY <1>1, <1>2, <1>4, DirAgesWithout, AgesAnswered DEF Over
<1>5. QED
  BY <1>3, <1>4 DEF ReadOld

LEMMA AgeRename ==
  ASSUME IInv, AgeInv, NEW p \in Requests, Rename(p) PROVE AgeInv'
<1>1. op[p].pc = "rename" /\ UNCHANGED <<cache, away, view, clock>>
  BY DEF Rename, browserVars, Env
<1>2. /\ clock \in Nat /\ DOMAIN op = Requests /\ Fields(op[p]) /\ walk = NoWalk
      /\ DirAges(Without(disk, TmpOf[p]), cache.assets, view, clock)
      /\ RequestAges(op[p], cache.assets, view, clock)
      /\ op[p].kind = "publish"
  BY <1>1, AgesAtWork, Publishes, DirAgesWithout DEF Holding
<1>3. CASE /\ disk' = Put(Without(disk, TmpOf[p]), op[p].target, op[p].data)
           /\ Goto(p, "list") /\ walk' = walk
  <2>1. Fresh(cache.assets, view, clock, op[p].target, op[p].data)
    BY <1>1, <1>2 DEF RequestAges
  <2>2. DirAges(disk', cache.assets, view, clock')
    BY <1>1, <1>2, <1>3, <2>1, DirAgesPut
  <2>3. /\ \A q \in Requests \ {p} : op'[q] = op[q]
        /\ op'[p].pc = "list" /\ op'[p].old = op[p].old /\ op'[p].target = op[p].target
        /\ op'[p].kind = op[p].kind
    BY <1>3, GotoGoesOn DEF GoesOn, Stages, Holding
  <2>4. RequestAges(op'[p], cache.assets, view, clock)
    BY <1>1, <1>2, <2>3 DEF RequestAges
  <2>5. WalkAges(walk'.acc.hashes, disk', cache.assets, view, clock') /\ walk' = NoWalk
    BY <1>2, <1>3, NoAges
  <2>6. "list" \notin Deep
    BY DEF Deep, Undoing
  <2>7. QED
    BY <1>1, <2>2, <2>3, <2>4, <2>5, <2>6, AgesMoved
<1>4. CASE Answer(p, "failed") /\ disk' = Without(disk, TmpOf[p])
  BY <1>1, <1>2, <1>4, AgesAnswered DEF Over
<1>5. QED
  BY <1>3, <1>4 DEF Rename
-----------------------------------------------------------------------------
(* A map with nothing in it ages nothing.                                       *)
LEMMA FreshEmptied ==
  ASSUME NEW F, NEW V, NEW n, NEW f, NEW x, Fresh(F, V, n, f, x)
  PROVE  Fresh(<<>>, V, n, f, x)
<1>1. DOMAIN <<>> = {}
  OBVIOUS
<1>2. QED
  BY <1>1 DEF Fresh, Below

LEMMA AgesEmptied ==
  ASSUME NEW F, NEW V, NEW n, NEW d, DirAges(d, F, V, n), ViewAges(F, V, n)
  PROVE  DirAges(d, <<>>, V, n) /\ ViewAges(<<>>, V, n)
<1>1. DirAges(d, <<>>, V, n)
  BY FreshEmptied DEF DirAges
<1>2. DOMAIN <<>> = {}
  OBVIOUS
<1>3. QED
  BY <1>1, <1>2 DEF ViewAges

LEMMA AgeList ==
  ASSUME IInv, AgeInv, NEW p \in Requests, List(p) PROVE AgeInv'
<1>1. op[p].pc = "list" /\ UNCHANGED <<disk, away, view, clock>>
  BY DEF List, browserVars, Env
<1>2. /\ clock \in Nat /\ DOMAIN op = Requests /\ Fields(op[p]) /\ lock = p
      /\ DirAges(disk, cache.assets, view, clock)
      /\ RequestAges(op[p], cache.assets, view, clock)
  BY <1>1, AgesAtWork, AtWork DEF Holding
<1>3. CASE cache' = [up |-> TRUE, assets |-> <<>>] /\ Answer(p, "ok")
  <2>1. cache'.assets = <<>>
    BY <1>3
  <2>2. PICK d, e, F, V, n : d = disk /\ e = away.was /\ F = cache.assets /\ V = view /\ n = clock
    OBVIOUS
  <2>3. DirAges(d, <<>>, V, n) /\ DirAges(e, <<>>, V, n) /\ ViewAges(<<>>, V, n) /\ MapAges(<<>>, n)
    BY <2>2, AgesEmptied, NoAges DEF AgeInv
  <2>4. /\ \A q \in Requests \ {p} : op'[q] = op[q]
        /\ op'[p].pc = "ok" /\ op'[p].kind = "none" /\ walk' = NoWalk
    BY <1>3, AnswerParts DEF Over
  <2>5. Loading'
    BY <1>1, <2>4, LoadingKept DEF Deep, Undoing
  <2>6. WalkAges(walk'.acc.hashes, d, <<>>, V, n)
    BY <2>4, NoAges
  <2>7. \A q \in Requests \ {p} : op[q].pc \notin Holding
    BY <1>2, AtWork
  <2>8. \A q \in Requests : RequestAges(op'[q], <<>>, V, n)
    BY <2>4, <2>7, RestingAges
  <2>9. QED
    BY <1>1, <2>1, <2>2, <2>3, <2>5, <2>6, <2>8 DEF AgeInv
<1>4. CASE /\ ~away.gone
           /\ walk' = [todo |-> DOMAIN disk, acc |-> EmptyWalk]
           /\ Goto(p, "load") /\ UNCHANGED cache
  <2>1. walk'.acc = EmptyWalk
    BY <1>4
  <2>2. WalkAges(walk'.acc.hashes, disk', cache.assets, view, clock')
    BY <2>1, NoAges
  <2>3. /\ \A q \in Requests \ {p} : op'[q] = op[q]
        /\ op'[p].pc = "load" /\ op'[p].old = op[p].old /\ op'[p].target = op[p].target
        /\ op'[p].kind = op[p].kind
    BY <1>4, GotoGoesOn DEF GoesOn, Stages, Holding
  <2>4. RequestAges(op'[p], cache.assets, view, clock)
    BY <1>1, <1>2, <2>3 DEF RequestAges
  <2>5. QED
    BY <1>1, <1>2, <1>4, <2>2, <2>3, <2>4, AgesMoved
<1>5. QED
  BY <1>3, <1>4 DEF List

(* What the walk takes from the directory is as fresh as the directory.         *)
LEMMA AgeVisitFile ==
  ASSUME IInv, MapInv, AgeInv, NEW p \in Requests, VisitFile(p) PROVE AgeInv'
<1>1. op[p].pc = "load" /\ UNCHANGED <<disk, away, view, clock>>
  BY DEF VisitFile, browserVars, Env
<1>2. /\ clock \in Nat /\ DOMAIN op = Requests /\ Fields(op[p]) /\ ~away.gone
      /\ DirAges(disk, cache.assets, view, clock)
      /\ RequestAges(op[p], cache.assets, view, clock)
  BY <1>1, AgesAtWork DEF Holding, Deep
<1> DEFINE f == NextOf(walk.todo)
<1>3. CASE /\ f \in DOMAIN disk \/ IsHidden(f)
           /\ walk' = [todo |-> walk.todo \ {f},
                       acc |-> IF IsHidden(f) THEN walk.acc ELSE Visit(walk.acc, Site(disk), f)]
           /\ UNCHANGED <<cache, op>>
  <2> HIDE DEF f
  <2>1. IsSite(Site(disk)) /\ DOMAIN Site(disk) = DOMAIN disk
    BY SiteIsSite DEF IInv, MapInv
  <2>2. walk'.acc = IF IsHidden(f) THEN walk.acc ELSE Visit(walk.acc, Site(disk), f)
    BY <1>3
  <2>3. PICK H, K, d, F, V, n : /\ H = walk.acc.hashes /\ K = walk'.acc.hashes /\ d = disk
                                /\ F = cache.assets /\ V = view /\ n = clock
    OBVIOUS
  <2>4. K = H \/ (f \in DOMAIN d /\ K = Put(H, f, d[f]))
    <3>1. CASE IsHidden(f)
      BY <2>2, <2>3, <3>1
    <3>2. CASE ~IsHidden(f)
      <4>1. f \in DOMAIN disk
        BY <1>3, <3>2
      <4>2. Visit(walk.acc, Site(disk), f).hashes \in
              {walk.acc.hashes, Put(walk.acc.hashes, f, Site(disk)[f].ver)}
        BY <2>1, <3>2, <4>1, VisitOK DEF MapInv
      <4>3. Site(disk)[f].ver = disk[f]
        <5>1. Site(disk)[f] = [Template[f] EXCEPT !.ver = disk[f]]
          BY <4>1 DEF Site
        <5>2. IsNode(Template[f])
          BY <4>1, TemplateAssumption DEF MapInv, Known
        <5>3. QED
          BY <5>1, <5>2 DEF IsNode
      <4>4. QED
        BY <2>2, <2>3, <3>2, <4>1, <4>2, <4>3
    <3>3. QED
      BY <3>1, <3>2
  <2>5. WalkAges(H, d, F, V, n) /\ DirAges(d, F, V, n) /\ Versioned(d)
    BY <2>3 DEF AgeInv, IInv
  <2>6. WalkAges(K, d, F, V, n)
    <3>1. CASE f \in DOMAIN d /\ K = Put(H, f, d[f])
      <4>1. DOMAIN K = DOMAIN H \cup {f} /\ \A g \in DOMAIN K : K[g] = IF g = f THEN d[f] ELSE H[g]
        BY <3>1 DEF Put
      <4>2. QED
        BY <2>5, <3>1, <4>1 DEF WalkAges, DirAges, Versioned
    <3>2. QED
      BY <2>4, <2>5, <3>1
  <2>7. Loading'
    BY <1>1, <1>3, LoadingKept
  <2>8. \A q \in Requests : RequestAges(op'[q], cache.assets, view, clock')
    BY <1>1, <1>3 DEF AgeInv
  <2>9. WalkAges(walk'.acc.hashes, disk', cache.assets, view, clock')
    BY <1>1, <2>3, <2>6
  <2>10. DirAges(disk', cache.assets, view, clock')
    BY <1>1, <1>2
  <2>11. QED
    BY <1>1, <1>3, <2>7, <2>8, <2>9, <2>10, AgesKept
<1>4. CASE LoadFails(p)
  <2>1. cache' = cache
    BY <1>4 DEF LoadFails
  <2>2. CASE Answer(p, "failed")
    BY <1>1, <1>2, <2>1, <2>2, AgesAnswered DEF Over
  <2>3. CASE Goto(p, IF op[p].old # 0 THEN "restore" ELSE "remove") /\ walk' = NoWalk
    <3>1. PICK pc \in Undoing : Goto(p, pc)
      BY <2>3 DEF Undoing
    <3>2. pc \in Stages /\ pc \notin {"readold"} /\ pc # "rename"
      BY <3>1 DEF Stages, Holding, Undoing
    <3>3. /\ \A q \in Requests \ {p} : op'[q] = op[q]
          /\ op'[p].pc = pc /\ op'[p].old = op[p].old /\ op'[p].target = op[p].target
          /\ op'[p].kind = op[p].kind
      BY <3>1, <3>2, GotoGoesOn DEF GoesOn
    <3>4. RequestAges(op'[p], cache.assets, view, clock)
      BY <1>1, <1>2, <3>2, <3>3 DEF RequestAges
    <3>5. WalkAges(walk'.acc.hashes, disk', cache.assets, view, clock')
      BY <2>3, NoAges
    <3>6. QED
      BY <1>1, <1>2, <2>1, <2>3, <3>3, <3>4, <3>5, AgesMoved
  <2>4. QED
    BY <1>4, <2>2, <2>3 DEF LoadFails
<1>5. QED
  BY <1>3, <1>4 DEF VisitFile
-----------------------------------------------------------------------------
(* A new map shows what the walk gathered: no older than the map and the page   *)
(* before it, no younger than the directory.                                    *)
LEMMA MadeAges ==
  ASSUME NEW w, WalkOK(w), NEW site, IsSite(site), NEW d, Versioned(d),
         NEW F, NEW V, NEW n \in Nat, NEW G, G = Finish(w, site),
         WalkAges(w.hashes, d, F, V, n), DirAges(d, F, V, n), ViewAges(F, V, n)
  PROVE  MapAges(G, n) /\ ViewAges(G, V, n) /\ DirAges(d, G, V, n)
<1>1. /\ NothingHidden(G) /\ OwnFiles(G)
      /\ \A r \in DOMAIN G : ~Built(G[r]) => r \in DOMAIN w.hashes /\ G[r].ver = w.hashes[r]
  BY FinishOK DEF MapOK
<1>2. ASSUME NEW r \in DOMAIN G
      PROVE  \/ G[r].ver = 0
             \/ /\ G[r].ver \in Nat /\ G[r].ver <= n
                /\ Below(F, V, r, G[r].ver)
                /\ r \in DOMAIN d => G[r].ver <= d[r]
  <2>1. CASE Built(G[r])
    BY <2>1 DEF Built
  <2>2. CASE ~Built(G[r])
    <3>1. r \in DOMAIN w.hashes /\ G[r].ver = w.hashes[r]
      BY <1>1, <2>2
    <3>2. ~IsHidden(r)
      BY <1>1, <2>2 DEF NothingHidden, OwnFiles
    <3>3. QED
      BY <3>1, <3>2 DEF WalkAges, Fresh
  <2>3. QED
    BY <2>1, <2>2
<1>3. MapAges(G, n)
  BY <1>2 DEF MapAges
<1>4. ViewAges(G, V, n)
  BY <1>2 DEF ViewAges, Below
<1>5. ASSUME NEW f \in DOMAIN d PROVE Fresh(G, V, n, f, d[f])
  <2>1. Fresh(F, V, n, f, d[f]) /\ d[f] \in Nat
    BY DEF DirAges, Versioned
  <2>2. f \in DOMAIN G => G[f].ver <= d[f]
    BY <1>2, <2>1
  <2>3. QED
    BY <2>1, <2>2 DEF Fresh, Below
<1>6. QED
  BY <1>3, <1>4, <1>5 DEF DirAges

LEMMA AgeSwap ==
  ASSUME IInv, MapInv, AgeInv, NEW p \in Requests, Swap(p) PROVE AgeInv'
<1>1. /\ op[p].pc = "load" /\ UNCHANGED <<disk, away, view, clock>> /\ Answer(p, "ok")
      /\ cache' = [up |-> TRUE, assets |-> Finish(walk.acc, Site(disk))]
  BY DEF Swap, browserVars, Env
<1>2. lock = p /\ ~away.gone /\ away.was = <<>>
  <2>1. lock = p /\ ~away.gone
    BY <1>1, AgesAtWork, AtWork DEF Holding, Deep
  <2>2. QED
    BY <2>1 DEF AgeInv, Loading
<1>3. PICK w, site, d, F, V, n, G : /\ w = walk.acc /\ site = Site(disk) /\ d = disk
                                    /\ F = cache.assets /\ V = view /\ n = clock
                                    /\ G = Finish(w, site)
  OBVIOUS
<1>4. cache'.assets = G
  BY <1>1, <1>3
<1>5. /\ WalkOK(w) /\ Versioned(d) /\ n \in Nat
      /\ WalkAges(w.hashes, d, F, V, n) /\ DirAges(d, F, V, n) /\ ViewAges(F, V, n)
  BY <1>3 DEF IInv, MapInv, AgeInv
<1>6. IsSite(site)
  BY <1>3, SiteIsSite DEF IInv, MapInv
<1>7. MapAges(G, n) /\ ViewAges(G, V, n) /\ DirAges(d, G, V, n)
  BY <1>3, <1>5, <1>6, MadeAges
<1>8. /\ \A q \in Requests \ {p} : op'[q] = op[q]
      /\ op'[p].pc = "ok" /\ op'[p].kind = "none" /\ walk' = NoWalk
  BY <1>1, AnswerParts DEF Over
<1>9. Loading'
  BY <1>1, <1>8, LoadingKept DEF Deep, Undoing
<1>10. WalkAges(walk'.acc.hashes, d, G, V, n)
  BY <1>8, NoAges
<1>11. \A q \in Requests \ {p} : op[q].pc \notin Holding
  BY <1>2, AtWork
<1>12. \A q \in Requests : RequestAges(op'[q], G, V, n)
  BY <1>8, <1>11, RestingAges
<1>13. away'.was = <<>>
  BY <1>1, <1>2
<1>14. DirAges(away'.was, G, V, n)
  BY <1>13, NoAges
<1>15. QED
  BY <1>1, <1>3, <1>4, <1>7, <1>9, <1>10, <1>12, <1>14 DEF AgeInv

LEMMA AgeRestore ==
  ASSUME IInv, AgeInv, NEW p \in Requests, Restore(p) PROVE AgeInv'
<1>1. op[p].pc = "restore" /\ UNCHANGED <<cache, away, view, clock>>
  BY DEF Restore, browserVars, Env
<1>2. /\ clock \in Nat /\ DOMAIN op = Requests /\ Fields(op[p]) /\ walk = NoWalk
      /\ DirAges(disk, cache.assets, view, clock)
      /\ RequestAges(op[p], cache.assets, view, clock)
      /\ op[p].kind = "publish" /\ p \in Admins
  BY <1>1, AgesAtWork, Publishes DEF Holding, Undoing
<1>3. CASE disk' = Put(disk, TmpOf[p], op[p].old) /\ Goto(p, "renameback") /\ walk' = walk
  <2>1. op[p].old # 0
    BY <1>1, <1>2 DEF IInv, Sound, Undo, Holding
  <2>2. Fresh(cache.assets, view, clock, op[p].target, op[p].old)
    BY <1>1, <1>2, <2>1 DEF RequestAges, Undoing
  <2>3. Fresh(cache.assets, view, clock, TmpOf[p], op[p].old)
    BY <1>2, <2>2, TmpIsOwn DEF Fresh
  <2>4. DirAges(disk', cache.assets, view, clock')
    BY <1>1, <1>2, <1>3, <2>3, DirAgesPut
  <2>5. /\ \A q \in Requests \ {p} : op'[q] = op[q]
        /\ op'[p].pc = "renameback" /\ op'[p].old = op[p].old /\ op'[p].target = op[p].target
        /\ op'[p].kind = op[p].kind
    BY <1>3, GotoGoesOn DEF GoesOn, Stages, Holding
  <2>6. RequestAges(op'[p], cache.assets, view, clock)
    BY <2>2, <2>5 DEF RequestAges
  <2>7. WalkAges(walk'.acc.hashes, disk', cache.assets, view, clock') /\ walk' = NoWalk
    BY <1>2, <1>3, NoAges
  <2>8. "restore" \in Deep
    BY DEF Deep, Undoing
  <2>9. QED
    BY <1>1, <2>4, <2>5, <2>6, <2>7, <2>8, AgesMoved
<1>4. CASE Answer(p, "broken") /\ UNCHANGED disk
  BY <1>1, <1>2, <1>4, AgesAnswered DEF Over
<1>5. QED
  BY <1>3, <1>4 DEF Restore

LEMMA AgeRenameBack ==
  ASSUME IInv, AgeInv, NEW p \in Requests, RenameBack(p) PROVE AgeInv'
<1>1. op[p].pc = "renameback" /\ UNCHANGED <<cache, away, view, clock>>
  BY DEF RenameBack, browserVars, Env
<1>2. /\ DirAges(Without(disk, TmpOf[p]), cache.assets, view, clock)
      /\ RequestAges(op[p], cache.assets, view, clock)
      /\ op[p].kind = "publish" /\ op[p].old # 0
  <2>1. /\ DirAges(disk, cache.assets, view, clock) /\ RequestAges(op[p], cache.assets, view, clock)
        /\ op[p].kind = "publish"
    BY <1>1, AgesAtWork, Publishes DEF Holding, Undoing
  <2>2. op[p].old # 0
    BY <1>1, <2>1 DEF IInv, Sound, Undo, Holding
  <2>3. QED
    BY <2>1, <2>2, DirAgesWithout
<1>3. CASE /\ disk' = Put(Without(disk, TmpOf[p]), op[p].target, op[p].old)
           /\ Answer(p, "failed")
  <2>1. Fresh(cache.assets, view, clock, op[p].target, op[p].old)
    BY <1>1, <1>2 DEF RequestAges, Undoing
  <2>2. DirAges(disk', cache.assets, view, clock')
    BY <1>1, <1>2, <1>3, <2>1, DirAgesPut
  <2>3. QED
    BY <1>1, <1>3, <2>2, AgesAnswered DEF Over
<1>4. CASE Answer(p, "broken") /\ disk' = Without(disk, TmpOf[p])
  BY <1>1, <1>2, <1>4, AgesAnswered DEF Over
<1>5. QED
  BY <1>3, <1>4 DEF RenameBack

LEMMA AgeRemoveNew ==
  ASSUME IInv, AgeInv, NEW p \in Requests, RemoveNew(p) PROVE AgeInv'
<1>1. UNCHANGED <<cache, away, view, clock>> /\ DirAges(disk, cache.assets, view, clock)
  BY DEF RemoveNew, browserVars, Env, AgeInv
<1>2. PICK pc \in {"failed", "broken"} : Answer(p, pc)
  BY DEF RemoveNew
<1>3. disk' = disk \/ disk' = Without(disk, op[p].target)
  BY DEF RemoveNew
<1>4. DirAges(disk', cache.assets, view, clock')
  BY <1>1, <1>3, DirAgesWithout
<1>5. QED
  BY <1>1, <1>2, <1>4, AgesAnswered DEF Over
LEMMA AgeEdit ==
  ASSUME IInv, AgeInv, NEW f \in Editable, Edit(f) PROVE AgeInv'
<1>1. UNCHANGED <<cache, away, view, walk>> /\ ~away.gone
  BY DEF Edit, browserVars
<1>2. /\ clock \in Nat /\ DOMAIN op = Requests /\ \A q \in Requests : Fields(op[q])
      /\ Versioned(disk) /\ DirAges(disk, cache.assets, view, clock)
      /\ WalkAges(walk.acc.hashes, disk, cache.assets, view, clock)
  BY DEF IInv, Sound, WellFormed, AgeInv
<1>3. \A q \in Requests :
        /\ op'[q].kind = op[q].kind /\ op'[q].pc = op[q].pc /\ op'[q].target = op[q].target
        /\ op'[q].data = op[q].data /\ op'[q].old = op[q].old
  <2>1. CASE op' = op
    BY <2>1
  <2>2. CASE lock # Free /\ op' = [op EXCEPT ![lock].touched = @ \cup {f}]
    BY <1>2, <2>2 DEF Fields
  <2>3. QED
    BY <2>1, <2>2 DEF Edit, Touch
<1>4. clock' \in {clock, clock + 1}
  BY DEF Edit
<1>5. \A q \in Requests : RequestAges(op'[q], cache.assets, view, clock')
  <2>1. PICK F, V, n, m : F = cache.assets /\ V = view /\ n = clock /\ m = clock'
    OBVIOUS
  <2>2. n \in Nat /\ m \in Nat /\ n <= m
    BY <1>2, <1>4, <2>1
  <2>3. \A q \in Requests : RequestAges(op[q], F, V, m)
    BY <1>2, <2>1, <2>2, LaterAges DEF AgeInv
  <2>4. QED
    BY <1>3, <2>1, <2>3 DEF RequestAges
<1>6. Loading'
  BY <1>1, <1>3, LoadingKept
<1>7. PICK H, d, e, F, V, n : /\ H = walk.acc.hashes /\ d = disk /\ e = disk'
                              /\ F = cache.assets /\ V = view /\ n = clock
  OBVIOUS
<1>8. /\ DirAges(d, F, V, n) /\ WalkAges(H, d, F, V, n) /\ n \in Nat /\ Versioned(d)
      /\ MapAges(F, n) /\ ViewAges(F, V, n)
  BY <1>2, <1>7 DEF AgeInv
<1>9. CASE disk' = Put(disk, f, clock + 1) /\ clock' = clock + 1
  <2>1. e = Put(d, f, n + 1) /\ clock' = n + 1
    BY <1>7, <1>9
  <2>2. DirAges(d, F, V, n + 1) /\ WalkAges(H, d, F, V, n + 1)
    BY <1>8, LaterAges
  <2>3. Fresh(F, V, n + 1, f, n + 1)
    BY <1>8, FreshNew
  <2>4. DirAges(e, F, V, n + 1)
    BY <2>1, <2>2, <2>3, DirAgesPut
  <2>5. WalkAges(H, e, F, V, n + 1)
    <3>1. DOMAIN e = DOMAIN d \cup {f} /\ \A g \in DOMAIN e : e[g] = IF g = f THEN n + 1 ELSE d[g]
      BY <2>1 DEF Put
    <3>2. \A g \in DOMAIN H : H[g] \in Nat /\ H[g] <= n
      BY <1>8 DEF WalkAges, Fresh
    <3>3. QED
      BY <1>8, <2>2, <3>1, <3>2 DEF WalkAges
  <2>6. QED
    BY <1>1, <1>4, <1>5, <1>6, <1>7, <2>1, <2>4, <2>5, AgesKept
<1>10. CASE disk' = Without(disk, f) /\ clock' = clock
  <2>1. e = Without(d, f) /\ clock' = n
    BY <1>7, <1>10
  <2>2. DirAges(e, F, V, n)
    BY <1>8, <2>1, DirAgesWithout
  <2>3. WalkAges(H, e, F, V, n)
    BY <1>8, <2>1 DEF WalkAges, Without
  <2>4. QED
    BY <1>1, <1>4, <1>5, <1>6, <1>7, <2>1, <2>2, <2>3, AgesKept
<1>11. QED
  BY <1>9, <1>10 DEF Edit

LEMMA AgeSwapDirectory ==
  ASSUME IInv, AgeInv, SwapOut \/ SwapIn PROVE AgeInv'
<1>1. UNCHANGED <<cache, walk, op, clock, view>> /\ lock = Free
  BY DEF SwapOut, SwapIn, browserVars
<1>2. walk = NoWalk /\ \A q \in Requests : op[q].pc \notin Holding
  BY <1>1, NotLoading, AtWork, ProcessesAssumption DEF Requests
<1>3. \A q \in Requests : op[q].pc \notin Deep
  BY <1>2 DEF Holding, Deep, Undoing
<1>4. WalkAges(walk'.acc.hashes, disk', cache.assets, view, clock')
  BY <1>1, <1>2, NoAges
<1>5. \/ disk' = <<>> /\ away'.was = disk /\ away'.gone
      \/ disk' = away.was /\ away'.was = <<>> /\ ~away'.gone
  BY DEF SwapOut, SwapIn, NoDir
<1>6. Loading'
  BY <1>1, <1>2, <1>3, <1>5 DEF Loading
<1>7. DirAges(disk', cache.assets, view, clock) /\ DirAges(away'.was, cache.assets, view, clock)
  BY <1>5, NoAges DEF AgeInv
<1>8. QED
  BY <1>1, <1>4, <1>6, <1>7 DEF AgeInv

LEMMA AgeCrash ==
  ASSUME IInv, AgeInv, Crash PROVE AgeInv'
<1> DEFINE lost == [Idle EXCEPT !.pc = "lost"]
<1>1. /\ cache' = NoCache /\ walk' = NoWalk /\ UNCHANGED <<disk, away, clock, view>>
      /\ DOMAIN op = Requests
      /\ op' = [p \in DOMAIN op |-> IF p = Boot THEN Idle ELSE IF InFlight(p) THEN lost ELSE op[p]]
  BY DEF Crash, IInv, browserVars
<1>2. lost.kind = "none" /\ Idle.kind = "none" /\ lost.pc = "lost" /\ Idle.pc = "idle"
  BY DEF Idle, Request
<1> HIDE DEF lost
<1>3. \A q \in Requests : op'[q] \in {Idle, lost} \/ (op'[q] = op[q] /\ ~InFlight(q))
  BY <1>1
<1>4. \A q \in Requests : op'[q].pc \notin Holding
  BY <1>2, <1>3 DEF InFlight, Holding
<1>5. cache'.assets = <<>>
  BY <1>1 DEF NoCache
<1>6. PICK d, e, F, V, n : d = disk /\ e = away.was /\ F = cache.assets /\ V = view /\ n = clock
  OBVIOUS
<1>7. DirAges(d, <<>>, V, n) /\ DirAges(e, <<>>, V, n) /\ ViewAges(<<>>, V, n) /\ MapAges(<<>>, n)
  BY <1>6, AgesEmptied, NoAges DEF AgeInv
<1>8. \A q \in Requests : op'[q].pc \notin Deep
  BY <1>4 DEF Holding, Deep, Undoing
<1>9. Loading'
  BY <1>1, <1>8, LoadingKept
<1>10. WalkAges(walk'.acc.hashes, d, <<>>, V, n)
  BY <1>1, NoAges
<1>11. \A q \in Requests : RequestAges(op'[q], <<>>, V, n)
  BY <1>4, RestingAges
<1>12. QED
  BY <1>1, <1>5, <1>6, <1>7, <1>9, <1>10, <1>11 DEF AgeInv

(* A page that opens knows the files of the map it came from, no younger.       *)
LEMMA OpenedAges ==
  ASSUME NEW F, NEW n, MapAges(F, n), NEW V,
         \A r \in V : r.file \in DOMAIN F /\ F[r.file].of = r.file /\ r.v = F[r.file].ver
  PROVE  /\ ViewAges(F, V, n)
         /\ \A f, x : Fresh(F, {}, n, f, x) => Fresh(F, V, n, f, x)
         /\ \A d : DirAges(d, F, {}, n) => DirAges(d, F, V, n)
         /\ \A H, d : WalkAges(H, d, F, {}, n) => WalkAges(H, d, F, V, n)
         /\ \A r : RequestAges(r, F, {}, n) => RequestAges(r, F, V, n)
<1>1. ViewAges(F, V, n)
  BY DEF ViewAges, MapAges
<1>2. ASSUME NEW f, NEW x, Fresh(F, {}, n, f, x) PROVE Fresh(F, V, n, f, x)
  BY <1>2 DEF Fresh, Below
<1>3. QED
  BY <1>1, <1>2 DEF DirAges, WalkAges, RequestAges

LEMMA AgeOpenPage ==
  ASSUME IInv, MapInv, AgeInv, NEW u, OpenPage(u) PROVE AgeInv'
<1>1. UNCHANGED <<disk, away, cache, walk, op, clock>> /\ view = {}
  BY DEF OpenPage, Env
<1>2. PICK F, n, hit : F = cache.assets /\ n = clock /\ hit = FindAsset(F, u)
  OBVIOUS
<1>3. /\ hit # NoName
      /\ view' = {Reference(F, u, F[hit].of, k) :
                    k \in {x \in ToSet(F[hit].body) : x.t \in {"ref", "absref"} /\ x.v # 0}}
  BY <1>2 DEF OpenPage
<1>4. hit \in DOMAIN F
  BY <1>2, <1>3, FindHeld
<1>5. MarksAre(F) /\ MapAges(F, n)
  BY <1>2 DEF MapInv, MapOK, AgeInv
<1>6. ASSUME NEW k \in ToSet(F[hit].body), k.t \in {"ref", "absref"}, k.v # 0,
             NEW r, r = Reference(F, u, F[hit].of, k)
      PROVE  r.file \in DOMAIN F /\ F[r.file].of = r.file /\ r.v = F[r.file].ver
  <2>1. PICK near, file : /\ near = BesideOf(F[hit].of.dir, k)
                          /\ file = IF near \in DOMAIN F THEN near ELSE k.to
    OBVIOUS
  <2>2. file \in DOMAIN F /\ F[file].of = file /\ F[file].ver = k.v
    BY <1>4, <1>5, <1>6, <2>1 DEF MarksAre
  <2>3. Resolved(F[hit].of, k) = near
    BY <2>1 DEF Resolved, BesideOf
  <2>4. r.file = file /\ r.v = k.v
    BY <1>6, <2>1, <2>3 DEF Reference
  <2>5. QED
    BY <2>2, <2>4
<1>7. PICK V : V = view'
  OBVIOUS
<1>8. \A r \in V : r.file \in DOMAIN F /\ F[r.file].of = r.file /\ r.v = F[r.file].ver
  BY <1>3, <1>6, <1>7
<1>9. /\ ViewAges(F, V, n)
      /\ \A d : DirAges(d, F, {}, n) => DirAges(d, F, V, n)
      /\ \A H, d : WalkAges(H, d, F, {}, n) => WalkAges(H, d, F, V, n)
      /\ \A r : RequestAges(r, F, {}, n) => RequestAges(r, F, V, n)
  BY <1>5, <1>8, OpenedAges
<1>10. /\ DirAges(disk, F, V, n) /\ DirAges(away.was, F, V, n) /\ Loading
       /\ WalkAges(walk.acc.hashes, disk, F, V, n)
       /\ \A q \in Requests : RequestAges(op[q], F, V, n)
  BY <1>1, <1>2, <1>9 DEF AgeInv
<1>11. Loading'
  BY <1>1, <1>10 DEF Loading
<1>12. QED
  BY <1>1, <1>2, <1>5, <1>7, <1>9, <1>10, <1>11 DEF AgeInv
LEMMA AgeInit == Init => AgeInv /\ NeverOlderThanPage
<1> SUFFICES ASSUME Init PROVE AgeInv /\ NeverOlderThanPage
  OBVIOUS
<1>1. /\ disk \in Sites /\ away = NoDir /\ cache.assets = <<>> /\ walk = NoWalk
      /\ op = [p \in Requests |-> Idle] /\ view = {} /\ kept = <<>> /\ clock = 1
  BY DEF Init, NoCache, Requests
<1>2. Idle.kind = "none" /\ Idle.pc = "idle"
  BY DEF Idle, Request
<1>3. DOMAIN <<>> = {} /\ away.was = <<>> /\ ~away.gone
  BY <1>1 DEF NoDir
<1>4. ViewAges(cache.assets, view, clock)
  BY <1>1 DEF ViewAges
<1>5. DirAges(disk, cache.assets, view, clock)
  <2>1. \A f \in DOMAIN disk : disk[f] <= 1
    BY <1>1, NamesAssumption
  <2>2. QED
    BY <1>1, <1>3, <2>1 DEF DirAges, Fresh, Below
<1>6. /\ DirAges(away.was, cache.assets, view, clock) /\ MapAges(cache.assets, clock)
      /\ WalkAges(walk.acc.hashes, disk, cache.assets, view, clock)
  BY <1>1, <1>3, NoAges
<1>7. Loading
  BY <1>1, <1>3 DEF Loading
<1>8. \A p \in Requests : RequestAges(op[p], cache.assets, view, clock)
  BY <1>1, <1>2 DEF RequestAges
<1>9. NeverOlderThanPage
  BY <1>1, <1>3 DEF NeverOlderThanPage
<1>10. QED
  BY <1>4, <1>5, <1>6, <1>7, <1>8, <1>9 DEF AgeInv

LEMMA NextAges == IInv /\ MapInv /\ AgeInv /\ [Next]_vars => AgeInv'
<1> SUFFICES ASSUME IInv, MapInv, AgeInv, [Next]_vars PROVE AgeInv'
  OBVIOUS
<1>1. ASSUME NEW p \in Reloaders, AskReload(p) PROVE AgeInv'
  <2>1. p \in Requests
    BY ProcessesAssumption DEF Requests
  <2>2. PICK r : r = Request("reload", NoName, "wait") /\ r.pc = "wait"
    BY WaitingRequest
  <2>3. /\ op[p].pc = "idle" /\ op' = [op EXCEPT ![p] = r]
        /\ UNCHANGED <<disk, away, cache, walk, view, clock>>
    BY <1>1, <2>2 DEF AskReload, Env, browserVars
  <2>4. QED
    BY <2>1, <2>2, <2>3, AgeAsk
<1>2. ASSUME NEW p \in Admins, NEW f \in Targets, AskPublish(p, f) PROVE AgeInv'
  <2>1. p \in Requests
    BY DEF Requests
  <2>2. PICK r : r = Request("publish", f, "wait") /\ r.pc = "wait"
    BY WaitingRequest
  <2>3. /\ op[p].pc = "idle" /\ op' = [op EXCEPT ![p] = r]
        /\ UNCHANGED <<disk, away, cache, walk, view, clock>>
    BY <1>2, <2>2 DEF AskPublish, Env, browserVars
  <2>4. QED
    BY <2>1, <2>2, <2>3, AgeAsk
<1>3. ASSUME NEW p \in Requests, Step(p) PROVE AgeInv'
  BY <1>3, AgeLock, AgeList, AgeVisitFile, AgeSwap, AgeCreate, AgeReadOld,
     AgeRename, AgeRestore, AgeRenameBack, AgeRemoveNew DEF Step
<1>4. ASSUME NEW f \in Editable, Edit(f) PROVE AgeInv'
  BY <1>4, AgeEdit
<1>5. CASE SwapOut \/ SwapIn \/ Crash
  BY <1>5, AgeSwapDirectory, AgeCrash
<1>6. CASE Start
  <2>1. Boot \in Requests
    BY DEF Requests
  <2>2. PICK r : r = Request("boot", NoName, "wait") /\ r.pc = "wait"
    BY WaitingRequest
  <2>3. /\ op[Boot].pc \in {"idle", "failed"}
        /\ op' = [op EXCEPT ![Boot] = r]
        /\ UNCHANGED <<disk, away, cache, walk, view, clock>>
    BY <1>6, <2>2 DEF Start, Env, browserVars
  <2>4. QED
    BY <2>1, <2>2, <2>3, AgeAsk
<1>7. CASE UNCHANGED <<disk, away, cache, walk, op, view, clock>>
  BY <1>7 DEF AgeInv, Loading
<1>8. ASSUME NEW u \in Urls, OpenPage(u) PROVE AgeInv'
  BY <1>8, AgeOpenPage
<1>9. ASSUME NEW r \in view, FetchRef(r) PROVE AgeInv'
  BY <1>7, <1>9 DEF FetchRef, Env
<1>10. QED
  BY <1>1, <1>2, <1>3, <1>4, <1>5, <1>6, <1>7, <1>8, <1>9 DEF Next, Requests, vars

(* An answer the browser keeps is the file's own, from the map or the directory. *)
LEMMA FetchedAge ==
  ASSUME IInv, MapInv, AgeInv, NeverOlderThanPage, NEW r \in view, FetchRef(r)
  PROVE  NeverOlderThanPage'
<1>1. PICK F, V, n, d, got, hit : /\ F = cache.assets /\ V = view /\ n = clock /\ d = disk
                                  /\ got = Served(F, d, r.url) /\ hit = FindAsset(F, r.url)
  OBVIOUS
<1>2. got.ver # 0 /\ r \notin DOMAIN kept /\ kept' = Put(kept, r, got)
  BY <1>1 DEF FetchRef
<1>3. /\ MapOK(F) /\ MapAges(F, n) /\ ViewAges(F, V, n) /\ DirAges(d, F, V, n) /\ r \in V
      /\ Versioned(d)
  BY <1>1 DEF IInv, MapInv, AgeInv
<1>4. hit # NoName
  BY <1>1, <1>2 DEF Served
<1>5. /\ hit \in DOMAIN F /\ got.of = F[hit].of
      /\ got.ver = IF ~F[hit].disk THEN F[hit].ver
                   ELSE IF F[hit].of \in DOMAIN d THEN d[F[hit].of] ELSE 0
  BY <1>1, <1>4, FindHeld DEF Served
<1>6. ASSUME got.of = r.file PROVE got.ver >= r.v
  <2>1. ~Built(F[hit]) /\ F[hit].of = hit /\ F[hit].ver # 0 /\ ~IsHidden(hit)
    BY <1>2, <1>3, <1>5 DEF MapOK, OwnFiles, NothingHidden, Built
  <2>2. r.v \in Nat /\ r.v <= F[hit].ver
    BY <1>3, <1>5, <1>6, <2>1 DEF ViewAges
  <2>3. CASE ~F[hit].disk
    BY <1>3, <1>5, <2>2, <2>3 DEF MapAges
  <2>4. CASE F[hit].disk
    <3>1. hit \in DOMAIN d /\ got.ver = d[hit] /\ d[hit] \in Nat
      BY <1>2, <1>3, <1>5, <2>1, <2>4 DEF Versioned
    <3>2. Fresh(F, V, n, hit, d[hit])
      BY <1>3, <3>1 DEF DirAges
    <3>3. r.v <= d[hit]
      BY <1>3, <1>5, <1>6, <2>1, <3>2 DEF Fresh, Below
    <3>4. QED
      BY <2>2, <3>1, <3>3
  <2>5. QED
    BY <2>3, <2>4
<1>7. \A x \in DOMAIN kept' : IF x = r THEN kept'[x] = got ELSE x \in DOMAIN kept /\ kept'[x] = kept[x]
  BY <1>2 DEF Put
<1>8. QED
  BY <1>6, <1>7 DEF NeverOlderThanPage

LEMMA NextNeverOlder ==
  IInv /\ MapInv /\ AgeInv /\ NeverOlderThanPage /\ [Next]_vars => NeverOlderThanPage'
<1> SUFFICES ASSUME IInv, MapInv, AgeInv, NeverOlderThanPage, [Next]_vars
             PROVE  NeverOlderThanPage'
  OBVIOUS
<1>1. CASE kept' = kept
  BY <1>1 DEF NeverOlderThanPage
<1>2. ASSUME NEW r \in view, FetchRef(r) PROVE NeverOlderThanPage'
  BY <1>2, FetchedAge
<1>3. kept' = kept \/ \E r \in view : FetchRef(r)
  <2>1. ASSUME NEW p, Step(p) PROVE kept' = kept
    BY <2>1 DEF Step, Lock, List, VisitFile, Swap, Create, ReadOld, Rename, Restore, RenameBack,
                RemoveNew, browserVars
  <2>2. QED
    BY <2>1 DEF Next, vars, browserVars, AskReload, AskPublish, Edit, SwapOut, SwapIn, Crash,
                Start, OpenPage
<1>4. QED
  BY <1>1, <1>2, <1>3

(* A fingerprinted reference never shows a browser an older content of its file *)
(* than the page it opened, over any number of reloads, publications, undone    *)
(* publications, edits and restarts, whichever map and directory answers.       *)
THEOREM PagesNeverOutrunRefs == Spec => []NeverOlderThanPage
<1>1. Init => IInv /\ MapInv /\ AgeInv /\ NeverOlderThanPage
  BY InitSound, MapInit, AgeInit
<1>2. IInv /\ MapInv /\ AgeInv /\ NeverOlderThanPage /\ [Next]_vars
        => (IInv /\ MapInv /\ AgeInv /\ NeverOlderThanPage)'
  BY NextKeeps, NextMaps, NextAges, NextNeverOlder
<1>3. QED
  BY <1>1, <1>2, PTL DEF Spec
-----------------------------------------------------------------------------
(* What the types need besides: who may hold the mutex, and that only files of  *)
(* the directory are hashed, shown and referred to.                             *)
TypeInv ==
  /\ lock \in Requests \cup {Free}
  /\ Known(walk.acc.hashes)
  /\ \A r \in DOMAIN cache.assets : ~Built(cache.assets[r]) => r \in DOMAIN Template
  /\ \A r \in view : r.file \in DOMAIN Template /\ r.v # 0

LEMMA TypeStep ==
  ASSUME IInv, MapInv, AgeInv, TypeInv, NEW p \in Requests, Step(p) PROVE TypeInv'
<1>1. UNCHANGED view
  BY DEF Step, Lock, List, VisitFile, Swap, Create, ReadOld, Rename, Restore, RenameBack,
         RemoveNew, browserVars
<1>2. lock' \in {lock, p, Free}
  BY DEF Step, Lock, List, VisitFile, LoadFails, Swap, Create, ReadOld, Rename, Restore,
         RenameBack, RemoveNew, Answer
<1>3. ASSUME cache' = cache \/ cache'.assets = <<>>, walk' \in {walk, NoWalk} \/ walk'.acc = EmptyWalk
      PROVE  TypeInv'
  <2>1. Known(NoWalk.acc.hashes) /\ Known(EmptyWalk.hashes) /\ DOMAIN <<>> = {}
    <3>1. NoWalk.acc.hashes = <<>> /\ EmptyWalk.hashes = <<>> /\ DOMAIN <<>> = {}
      BY DEF NoWalk, EmptyWalk
    <3>2. QED
      BY <3>1 DEF Known
  <2>2. Known(walk'.acc.hashes)
    BY <1>3, <2>1 DEF TypeInv
  <2>3. \A r \in DOMAIN cache'.assets : ~Built(cache'.assets[r]) => r \in DOMAIN Template
    BY <1>3, <2>1 DEF TypeInv
  <2>4. QED
    BY <1>1, <1>2, <2>2, <2>3 DEF TypeInv
<1>4. CASE List(p)
  <2>1. CASE cache' = [up |-> TRUE, assets |-> <<>>] /\ Answer(p, "ok")
    BY <1>3, <2>1 DEF Answer
  <2>2. CASE /\ walk' = [todo |-> DOMAIN disk, acc |-> EmptyWalk]
             /\ UNCHANGED cache
    <3>1. walk'.acc = EmptyWalk
      BY <2>2
    <3>2. QED
      BY <1>3, <2>2, <3>1
  <2>3. QED
    BY <1>4, <2>1, <2>2 DEF List
<1>5. CASE VisitFile(p)
  <2> DEFINE f == NextOf(walk.todo)
  <2>1. CASE /\ f \in DOMAIN disk \/ IsHidden(f)
             /\ walk' = [todo |-> walk.todo \ {f},
                         acc |-> IF IsHidden(f) THEN walk.acc ELSE Visit(walk.acc, Site(disk), f)]
             /\ UNCHANGED <<cache, op>>
    <3> HIDE DEF f
    <3>1. IsSite(Site(disk)) /\ DOMAIN Site(disk) = DOMAIN disk
      BY SiteIsSite DEF IInv, MapInv
    <3>2. walk'.acc = IF IsHidden(f) THEN walk.acc ELSE Visit(walk.acc, Site(disk), f)
      BY <2>1
    <3>3. PICK H, K, v : /\ H = walk.acc.hashes /\ K = walk'.acc.hashes
                         /\ v = Site(disk)[f].ver
      OBVIOUS
    <3>4. K = H \/ (f \in DOMAIN disk /\ K = Put(H, f, v))
      BY <2>1, <3>1, <3>2, <3>3, VisitOK DEF MapInv
    <3>5. Known(K)
      BY <3>3, <3>4 DEF Known, Put, TypeInv, MapInv
    <3>6. QED
      BY <1>1, <1>2, <2>1, <3>3, <3>5 DEF TypeInv
  <2>2. CASE LoadFails(p)
    BY <1>3, <2>2 DEF LoadFails, Answer
  <2>3. QED
    BY <1>5, <2>1, <2>2 DEF VisitFile
<1>6. CASE Swap(p)
  <2>1. PICK w, site, G : w = walk.acc /\ site = Site(disk) /\ G = Finish(w, site)
    OBVIOUS
  <2>2. cache' = [up |-> TRUE, assets |-> G] /\ walk' = NoWalk
    BY <1>6, <2>1 DEF Swap, Answer
  <2>3. cache'.assets = G
    BY <2>2
  <2>4. IsSite(site) /\ WalkOK(w) /\ Known(w.hashes)
    BY <2>1, SiteIsSite DEF IInv, MapInv, TypeInv
  <2>5. \A r \in DOMAIN G : ~Built(G[r]) => r \in DOMAIN w.hashes
    BY <2>1, <2>4, FinishOK
  <2>6. \A r \in DOMAIN cache'.assets : ~Built(cache'.assets[r]) => r \in DOMAIN Template
    BY <2>3, <2>4, <2>5 DEF Known
  <2>7. NoWalk.acc.hashes = <<>> /\ DOMAIN <<>> = {}
    BY DEF NoWalk, EmptyWalk
  <2>8. Known(walk'.acc.hashes)
    BY <2>2, <2>7 DEF Known
  <2>9. QED
    BY <1>1, <1>2, <2>6, <2>8 DEF TypeInv
<1>7. CASE Lock(p) \/ Create(p) \/ ReadOld(p) \/ Rename(p) \/ Restore(p) \/ RenameBack(p) \/ RemoveNew(p)
  <2>1. cache' = cache /\ walk' \in {walk, NoWalk}
    BY <1>7 DEF Lock, Create, ReadOld, Rename, Restore, RenameBack, RemoveNew, Answer
  <2>2. QED
    BY <1>3, <2>1
<1>8. QED
  BY <1>4, <1>5, <1>6, <1>7 DEF Step

LEMMA TypeOpenPage ==
  ASSUME MapInv, TypeInv, NEW u, OpenPage(u) PROVE TypeInv'
<1>1. PICK F, hit : F = cache.assets /\ hit = FindAsset(F, u)
  OBVIOUS
<1>2. /\ hit # NoName /\ UNCHANGED <<lock, walk, cache>>
      /\ view' = {Reference(F, u, F[hit].of, k) :
                    k \in {x \in ToSet(F[hit].body) : x.t \in {"ref", "absref"} /\ x.v # 0}}
  BY <1>1 DEF OpenPage
<1>3. hit \in DOMAIN F /\ MarksAre(F)
  BY <1>1, <1>2, FindHeld DEF MapInv, MapOK
<1>4. ASSUME NEW k \in ToSet(F[hit].body), k.t \in {"ref", "absref"}, k.v # 0,
             NEW r, r = Reference(F, u, F[hit].of, k)
      PROVE  r.file \in DOMAIN Template /\ r.v # 0
  <2>1. PICK near, file : /\ near = BesideOf(F[hit].of.dir, k)
                          /\ file = IF near \in DOMAIN F THEN near ELSE k.to
    OBVIOUS
  <2>2. file \in DOMAIN F /\ F[file].ver = k.v
    BY <1>3, <1>4, <2>1 DEF MarksAre
  <2>3. Resolved(F[hit].of, k) = near
    BY <2>1 DEF Resolved, BesideOf
  <2>4. r.file = file /\ r.v = k.v
    BY <1>4, <2>1, <2>3 DEF Reference
  <2>5. QED
    BY <1>1, <1>4, <2>2, <2>4 DEF TypeInv, Built
<1>5. QED
  BY <1>2, <1>4 DEF TypeInv

LEMMA NextTypes == IInv /\ MapInv /\ AgeInv /\ TypeInv /\ [Next]_vars => TypeInv'
<1> SUFFICES ASSUME IInv, MapInv, AgeInv, TypeInv, [Next]_vars PROVE TypeInv'
  OBVIOUS
<1>1. ASSUME UNCHANGED <<lock, walk, cache, view>> PROVE TypeInv'
  BY <1>1 DEF TypeInv
<1>2. ASSUME NEW p \in Requests, Step(p) PROVE TypeInv'
  BY <1>2, TypeStep
<1>3. ASSUME NEW u \in Urls, OpenPage(u) PROVE TypeInv'
  BY <1>3, TypeOpenPage
<1>4. CASE Crash
  <2>1. lock' = Free /\ UNCHANGED view /\ cache'.assets = <<>> /\ walk'.acc.hashes = <<>>
        /\ DOMAIN <<>> = {}
    BY <1>4 DEF Crash, NoCache, NoWalk, EmptyWalk, browserVars
  <2>2. QED
    BY <2>1 DEF TypeInv, Known
<1>5. ASSUME \/ \E p \in Reloaders : AskReload(p)
             \/ \E p \in Admins, f \in Targets : AskPublish(p, f)
             \/ \E f \in Editable : Edit(f)
             \/ SwapOut \/ SwapIn \/ Start \/ UNCHANGED vars
             \/ \E r \in view : FetchRef(r)
      PROVE  UNCHANGED <<lock, walk, cache, view>>
  BY <1>5 DEF AskReload, AskPublish, Edit, SwapOut, SwapIn, Start, FetchRef, browserVars, vars
<1>6. QED
  BY <1>1, <1>2, <1>3, <1>4, <1>5 DEF Next, Requests

(* Every file the server or a browser speaks of is one the directory may hold,  *)
(* with a version given out already, and the mutex is held exactly by the       *)
(* request that is past its wait.                                               *)
THEOREM TypeCorrect == Spec => []TypeOK
<1>1. Init => TypeInv
  <2> SUFFICES ASSUME Init PROVE TypeInv
    OBVIOUS
  <2>1. lock = Free /\ view = {} /\ cache.assets = <<>> /\ walk.acc.hashes = <<>> /\ DOMAIN <<>> = {}
    BY DEF Init, NoCache, NoWalk, EmptyWalk
  <2>2. QED
    BY <2>1 DEF TypeInv, Known
<1>2. IInv /\ MapInv /\ AgeInv /\ TypeInv => TypeOK
  <2> SUFFICES ASSUME IInv, MapInv, AgeInv, TypeInv PROVE TypeOK
    OBVIOUS
  <2>1. \A f \in DOMAIN disk : f \in DOMAIN Template /\ disk[f] \in 1..clock
    BY DEF IInv, MapInv, AgeInv, DirAges, Fresh, Versioned, Known
  <2>2. lock \in {Free, Boot} \cup Admins
    BY DEF TypeInv, Requests
  <2>3. ASSUME NEW p \in DOMAIN op
        PROVE  /\ op[p].pc \in Stages
               /\ lock = p <=> InFlight(p) /\ op[p].pc # "wait"
    <3>1. op[p].pc \in Stages /\ (lock = p <=> op[p].pc \in Holding)
      BY DEF IInv, Sound, WellFormed, Fields
    <3>2. op[p].pc \in Holding <=> InFlight(p) /\ op[p].pc # "wait"
      BY <3>1 DEF Stages, Holding, Over, InFlight
    <3>3. QED
      BY <3>1, <3>2
  <2>4. \A r \in view : r.file \in DOMAIN Template /\ r.v \in 1..clock
    BY DEF IInv, AgeInv, ViewAges, TypeInv
  <2>5. QED
    BY <2>1, <2>2, <2>3, <2>4 DEF TypeOK, Stages, Holding, Over
<1>3. Init => IInv /\ MapInv /\ AgeInv /\ TypeInv
  BY <1>1, InitSound, MapInit, AgeInit
<1>4. IInv /\ MapInv /\ AgeInv /\ TypeInv /\ [Next]_vars => (IInv /\ MapInv /\ AgeInv /\ TypeInv)'
  BY NextKeeps, NextMaps, NextAges, NextTypes
<1>5. QED
  BY <1>2, <1>3, <1>4, PTL DEF Spec

-----------------------------------------------------------------------------
(* Success is served.  P gives, for each file the new map may speak of, the     *)
(* versions it may show: nothing older than the directory was when the request  *)
(* took the mutex, or, for its target, than what it publishes; anything for a   *)
(* file that somebody touched since.                                            *)
Allowed(want, touched) ==
  [f \in DOMAIN want \cup touched |-> IF f \in touched THEN Nat ELSE {v \in Nat : v >= want[f]}]
Want(r) == IF r.kind = "publish" THEN Put(r.before, r.target, r.data) ELSE r.before
Within(d, P, but) == \A f \in DOMAIN d \ but : f \in DOMAIN P /\ d[f] \in P[f]

(* What the directory d and the load w owe to the request r, whose hidden file  *)
(* is tmp: no file but the hidden one is younger or unknown, the load has seen  *)
(* no other, and the target is in the directory and the load has it, or has it  *)
(* still to visit.                                                              *)
Linked(r) == r.kind = "publish" => ~Template[r.target].link
Brought(r, d, w, gone) ==
  /\ ~gone
  /\ r.target \notin r.touched =>
       /\ r.target \in DOMAIN d
       /\ r.pc = "load" => r.target \in w.todo \/ Gathered(w.acc, r.target)
RequestDated(tmp, r, d, w, gone) ==
  /\ Linked(r)
  /\ r.pc = "create" => Within(d, Allowed(r.before, r.touched), {})
  /\ r.pc \in {"readold", "rename"} => Within(d, Allowed(r.before, r.touched), {tmp})
  /\ r.pc \in {"list", "load"} => Within(d, Allowed(Want(r), r.touched), {})
  /\ r.pc = "load" => WalkDated(w.acc, Allowed(Want(r), r.touched)) /\ w.todo \subseteq DOMAIN Template
  /\ r.pc \in {"list", "load"} /\ r.kind = "publish" => Brought(r, d, w, gone)

DateInv == \A p \in Requests : RequestDated(TmpOf[p], op[p], disk, walk, away.gone)

-----------------------------------------------------------------------------
(* A request that holds nothing, or has a load undone, owes nothing.            *)
LEMMA RestingDated ==
  ASSUME NEW r, r.pc \notin {"create", "readold", "rename", "list", "load"}, Linked(r),
         NEW tmp, NEW d, NEW w, NEW gone
  PROVE  RequestDated(tmp, r, d, w, gone)
BY DEF RequestDated

(* The others, when only p takes a step: they hold nothing.                     *)
LEMMA DatedOthers ==
  ASSUME IInv, DateInv, NEW p \in Requests, lock \in {p, Free},
         \A q \in Requests \ {p} : op'[q] = op[q],
         RequestDated(TmpOf[p], op'[p], disk', walk', away'.gone)
  PROVE  DateInv'
<1>1. ASSUME NEW q \in Requests \ {p}
      PROVE  RequestDated(TmpOf[q], op'[q], disk', walk', away'.gone)
  <2>1. op[q].pc \notin Holding
    BY AtWork, ProcessesAssumption DEF Requests
  <2>2. Linked(op'[q]) /\ op'[q].pc = op[q].pc
    BY DEF DateInv, RequestDated
  <2>3. QED
    BY <2>1, <2>2, RestingDated DEF Holding
<1>2. QED
  BY <1>1 DEF DateInv

LEMMA DatedAnswer ==
  ASSUME IInv, DateInv, NEW p \in Requests, NEW pc \in Over, Answer(p, pc), lock = p
  PROVE  DateInv'
<1>1. /\ \A q \in Requests \ {p} : op'[q] = op[q]
      /\ op'[p].pc = pc /\ op'[p].kind = "none"
  BY AnswerParts
<1>2. RequestDated(TmpOf[p], op'[p], disk', walk', away'.gone)
  BY <1>1, RestingDated DEF Over, Linked
<1>3. QED
  BY <1>1, <1>2, DatedOthers

(* A publication that begins to undo its file.                                  *)
LEMMA DatedUndone ==
  ASSUME IInv, DateInv, NEW p \in Requests, NEW pc \in Undoing, Goto(p, pc), lock = p
  PROVE  DateInv'
<1>1. GoesOn(p, pc)
  BY GotoGoesOn DEF Stages, Holding, Undoing
<1>2. Linked(op'[p]) /\ op'[p].pc = pc
  BY <1>1 DEF GoesOn, DateInv, RequestDated, Linked
<1>3. RequestDated(TmpOf[p], op'[p], disk', walk', away'.gone)
  BY <1>2, RestingDated DEF Undoing
<1>4. QED
  BY <1>1, <1>3, DatedOthers DEF GoesOn

(* A request that begins: what it may be asked for is a regular file.           *)
LEMMA DatedAsk ==
  ASSUME IInv, DateInv, NEW p \in Requests, op[p].pc \in {"idle", "failed"},
         NEW r, r.pc = "wait", Linked(r), op' = [op EXCEPT ![p] = r],
         UNCHANGED <<disk, away, walk>>
  PROVE  DateInv'
<1>1. op'[p] = r /\ \A q \in Requests \ {p} : op'[q] = op[q]
  BY DEF IInv
<1>2. RequestDated(TmpOf[p], op'[p], disk', walk', away'.gone)
  BY <1>1, RestingDated
<1>3. \A q \in Requests \ {p} : RequestDated(TmpOf[q], op'[q], disk', walk', away'.gone)
  BY <1>1 DEF DateInv
<1>4. QED
  BY <1>2, <1>3 DEF DateInv

-----------------------------------------------------------------------------
(* The directory against the allowed versions.                                  *)
LEMMA WithinItself ==
  ASSUME NEW d, Versioned(d) PROVE Within(d, Allowed(d, {}), {})
BY DEF Versioned, Within, Allowed

LEMMA WithinPutBut ==
  ASSUME NEW d, NEW P, Within(d, P, {}), NEW f, NEW v
  PROVE  Within(Put(d, f, v), P, {f})
BY DEF Within, Put

(* The hidden file gone and the new content under its own name.                 *)
LEMMA WithinPublished ==
  ASSUME NEW d, NEW b, NEW T, NEW tmp, NEW t, NEW v \in Nat,
         Within(d, Allowed(b, T), {tmp})
  PROVE  Within(Put(Without(d, tmp), t, v), Allowed(Put(b, t, v), T), {})
<1>1. PICK P, Q, e, c : /\ P = Allowed(b, T) /\ Q = Allowed(c, T)
                        /\ e = Put(Without(d, tmp), t, v) /\ c = Put(b, t, v)
  OBVIOUS
<1>2. /\ DOMAIN c = DOMAIN b \cup {t} /\ c[t] = v /\ \A f \in DOMAIN b \ {t} : c[f] = b[f]
      /\ DOMAIN e = (DOMAIN d \ {tmp}) \cup {t} /\ e[t] = v
      /\ \A f \in DOMAIN e \ {t} : f \in DOMAIN d \ {tmp} /\ e[f] = d[f]
  BY <1>1 DEF Put, Without
<1>3. /\ DOMAIN P = DOMAIN b \cup T
      /\ \A f \in DOMAIN P : \A x : x \in P[f] <=> x \in Nat /\ (f \notin T => x >= b[f])
  BY <1>1 DEF Allowed
<1>4. /\ DOMAIN Q = DOMAIN c \cup T
      /\ \A f \in DOMAIN Q : \A x : x \in Q[f] <=> x \in Nat /\ (f \notin T => x >= c[f])
  BY <1>1 DEF Allowed
<1>5. ASSUME NEW f \in DOMAIN e PROVE f \in DOMAIN Q /\ e[f] \in Q[f]
  <2>1. CASE f = t
    <3>1. f \in DOMAIN Q /\ c[f] = v /\ e[f] = v
      BY <1>2, <1>4, <2>1
    <3>2. v \in Q[f]
      BY <1>4, <3>1
    <3>3. QED
      BY <3>1, <3>2
  <2>2. CASE f # t
    <3>1. f \in DOMAIN d \ {tmp} /\ e[f] = d[f]
      BY <1>2, <2>2
    <3>2. f \in DOMAIN P /\ d[f] \in P[f]
      BY <1>1, <3>1 DEF Within
    <3>3. f \in DOMAIN Q /\ f \in DOMAIN P /\ (f \notin T => c[f] = b[f])
      BY <1>2, <1>3, <1>4, <2>2, <3>2
    <3>4. d[f] \in Q[f]
      BY <1>3, <1>4, <3>2, <3>3
    <3>5. QED
      BY <3>1, <3>3, <3>4
  <2>3. QED
    BY <2>1, <2>2
<1>6. Within(e, Q, {})
  BY <1>5 DEF Within
<1>7. QED
  BY <1>1, <1>6

(* A directory within the allowed versions is a site that fits them.            *)
LEMMA SiteFits ==
  ASSUME NEW d, Versioned(d), Known(d), NEW P, Within(d, P, {})
  PROVE  /\ Fits(Site(d), P)
         /\ \A f \in DOMAIN d : Site(d)[f].link = Template[f].link
<1>1. DOMAIN Site(d) = DOMAIN d
  BY DEF Site
<1>2. ASSUME NEW f \in DOMAIN d
      PROVE  Site(d)[f].ver = d[f] /\ Site(d)[f].link = Template[f].link
  <2>1. PICK n, v : n = Template[f] /\ v = d[f]
    OBVIOUS
  <2>2. IsNode(n)
    BY <2>1, TemplateAssumption DEF Known
  <2>3. Site(d)[f] = [n EXCEPT !.ver = v]
    BY <2>1 DEF Site
  <2>4. PICK m : m = [n EXCEPT !.ver = v]
    OBVIOUS
  <2>5. m \in [ver : {v}, text : {n.text}, front : {n.front}, items : {n.items},
               date : {n.date}, big : {n.big}, link : {n.link}]
    BY <2>2, <2>4 DEF IsNode
  <2>6. m.ver = v /\ m.link = n.link
    BY <2>5
  <2>7. QED
    BY <2>1, <2>3, <2>4, <2>6
<1>3. QED
  BY <1>1, <1>2 DEF Fits, Within

(* What the walk takes next is one of the names it has listed.                  *)
LEMMA NextListed ==
  ASSUME NEW todo, todo \subseteq DOMAIN Template, todo # {}
  PROVE  NextOf(todo) \in todo
<1> DEFINE T == {i \in DOMAIN WalkOrder : WalkOrder[i] \in todo}
<1>1. IsSeq(WalkOrder) /\ todo \subseteq ToSet(WalkOrder)
  BY WalkOrderAssumption
<1>2. /\ DOMAIN WalkOrder = 1..Len(WalkOrder) /\ Len(WalkOrder) \in Nat
      /\ \A k \in ToSet(WalkOrder) : \E i \in 1..Len(WalkOrder) : WalkOrder[i] = k
  BY <1>1, SeqFacts
<1>3. T \in SUBSET Nat /\ T # {}
  BY <1>1, <1>2
<1>4. \E n \in T : \A m \in T : n <= m
  BY <1>3, LeastNat
<1>5. Min(T) \in T
  BY <1>4 DEF Min
<1>6. QED
  BY <1>5 DEF NextOf

-----------------------------------------------------------------------------
(* The steps.                                                                   *)
LEMMA DatedLock ==
  ASSUME IInv, DateInv, NEW p \in Requests, Lock(p) PROVE DateInv'
<1>1. /\ DOMAIN op = Requests /\ Fields(op[p]) /\ Versioned(disk) /\ lock = Free
      /\ disk' = disk
  BY DEF IInv, Sound, WellFormed, Lock
<1>2. op' = [op EXCEPT ![p].pc = IF op[p].kind = "publish" THEN "create" ELSE "list",
                       ![p].before = disk, ![p].was = cache, ![p].touched = {}]
  BY DEF Lock
<1>3. /\ \A q \in Requests \ {p} : op'[q] = op[q]
      /\ op'[p].kind = op[p].kind /\ op'[p].target = op[p].target
      /\ op'[p].before = disk /\ op'[p].touched = {}
      /\ op'[p].pc = IF op[p].kind = "publish" THEN "create" ELSE "list"
  BY <1>1, <1>2 DEF Fields
<1>4. Within(disk', Allowed(op'[p].before, op'[p].touched), {})
  BY <1>1, <1>3, WithinItself
<1>5. Linked(op'[p])
  BY <1>3 DEF DateInv, RequestDated, Linked
<1>6. op'[p].kind # "publish" => Want(op'[p]) = op'[p].before
  BY DEF Want
<1>7. RequestDated(TmpOf[p], op'[p], disk', walk', away'.gone)
  BY <1>3, <1>4, <1>5, <1>6 DEF RequestDated
<1>8. QED
  BY <1>1, <1>3, <1>7, DatedOthers

LEMMA DatedCreate ==
  ASSUME IInv, DateInv, NEW p \in Requests, Create(p) PROVE DateInv'
<1>1. op[p].pc = "create"
  BY DEF Create
<1>2. lock = p /\ DOMAIN op = Requests /\ Fields(op[p])
  BY <1>1, AtWork DEF Holding
<1>3. CASE /\ disk' = Put(disk, TmpOf[p], clock + 1)
           /\ op' = [op EXCEPT ![p].pc = "readold", ![p].data = clock + 1]
  <2>1. /\ \A q \in Requests \ {p} : op'[q] = op[q]
        /\ op'[p].kind = op[p].kind /\ op'[p].target = op[p].target /\ op'[p].pc = "readold"
        /\ op'[p].before = op[p].before /\ op'[p].touched = op[p].touched
    BY <1>2, <1>3 DEF Fields
  <2>2. PICK d, P : d = disk /\ P = Allowed(op[p].before, op[p].touched)
    OBVIOUS
  <2>3. Within(d, P, {}) /\ Linked(op[p])
    BY <1>1, <2>2 DEF DateInv, RequestDated
  <2>4. Within(disk', P, {TmpOf[p]})
    BY <1>3, <2>2, <2>3, WithinPutBut
  <2>5. Linked(op'[p])
    BY <2>1, <2>3 DEF Linked
  <2>6. RequestDated(TmpOf[p], op'[p], disk', walk', away'.gone)
    BY <2>1, <2>2, <2>4, <2>5 DEF RequestDated
  <2>7. QED
    BY <1>2, <2>1, <2>6, DatedOthers
<1>4. CASE Answer(p, "failed")
  BY <1>2, <1>4, DatedAnswer DEF Over
<1>5. QED
  BY <1>3, <1>4 DEF Create

LEMMA DatedReadOld ==
  ASSUME IInv, DateInv, NEW p \in Requests, ReadOld(p) PROVE DateInv'
<1>1. op[p].pc = "readold"
  BY DEF ReadOld
<1>2. lock = p /\ DOMAIN op = Requests /\ Fields(op[p])
  BY <1>1, AtWork DEF Holding
<1> DEFINE old == IF op[p].target \in DOMAIN disk THEN disk[op[p].target] ELSE 0
<1>3. CASE op' = [op EXCEPT ![p].pc = "rename", ![p].old = old] /\ disk' = disk
  <2> HIDE DEF old
  <2>1. /\ \A q \in Requests \ {p} : op'[q] = op[q]
        /\ op'[p].kind = op[p].kind /\ op'[p].target = op[p].target /\ op'[p].pc = "rename"
        /\ op'[p].before = op[p].before /\ op'[p].touched = op[p].touched
    BY <1>2, <1>3 DEF Fields
  <2>2. /\ Within(disk, Allowed(op[p].before, op[p].touched), {TmpOf[p]})
        /\ Linked(op[p])
    BY <1>1 DEF DateInv, RequestDated
  <2>3. Linked(op'[p])
    BY <2>1, <2>2 DEF Linked
  <2>4. RequestDated(TmpOf[p], op'[p], disk', walk', away'.gone)
    BY <1>3, <2>1, <2>2, <2>3 DEF RequestDated
  <2>5. QED
    BY <1>2, <2>1, <2>4, DatedOthers
<1>4. CASE Answer(p, "failed")
  BY <1>2, <1>4, DatedAnswer DEF Over
<1>5. QED
  BY <1>3, <1>4 DEF ReadOld

LEMMA DatedRename ==
  ASSUME IInv, AgeInv, DateInv, NEW p \in Requests, Rename(p) PROVE DateInv'
<1>1. op[p].pc = "rename" /\ away' = away
  BY DEF Rename, Env
<1>2. op[p].kind = "publish" /\ op[p].pc \in Holding
  BY <1>1, Publishes
<1>3. lock = p /\ Undo(p)
  BY <1>2, AtWork
<1>4. op[p].data \in Nat /\ ~away.gone
  BY <1>1, <1>2, <1>3, AgesAtWork DEF Undo, Deep
<1>5. CASE /\ disk' = Put(Without(disk, TmpOf[p]), op[p].target, op[p].data)
           /\ Goto(p, "list")
  <2>1. GoesOn(p, "list") /\ op'[p].data = op[p].data
    BY <1>5, GotoGoesOn DEF Stages, Holding
  <2>2. PICK d, b, T, t, v : /\ d = disk /\ b = op[p].before /\ T = op[p].touched
                             /\ t = op[p].target /\ v = op[p].data
    OBVIOUS
  <2>3. Within(d, Allowed(b, T), {TmpOf[p]}) /\ Linked(op[p])
    BY <1>1, <2>2 DEF DateInv, RequestDated
  <2>4. Within(disk', Allowed(Put(b, t, v), T), {})
    BY <1>4, <1>5, <2>2, <2>3, WithinPublished
  <2>5. Want(op'[p]) = Put(b, t, v) /\ op'[p].touched = T /\ op'[p].target = t
    BY <1>2, <2>1, <2>2 DEF Want, GoesOn
  <2>6. t \in DOMAIN disk'
    BY <1>5, <2>2 DEF Put
  <2>7. op'[p].pc = "list" /\ Linked(op'[p])
    BY <2>1, <2>3 DEF GoesOn, Linked
  <2>8. Brought(op'[p], disk', walk', away'.gone)
    BY <1>1, <1>4, <2>5, <2>6, <2>7 DEF Brought
  <2>9. RequestDated(TmpOf[p], op'[p], disk', walk', away'.gone)
    BY <2>4, <2>5, <2>7, <2>8 DEF RequestDated
  <2>10. QED
    BY <1>3, <2>1, <2>9, DatedOthers DEF GoesOn
<1>6. CASE Answer(p, "failed")
  BY <1>3, <1>6, DatedAnswer DEF Over
<1>7. QED
  BY <1>5, <1>6 DEF Rename

LEMMA DatedList ==
  ASSUME IInv, MapInv, DateInv, NEW p \in Requests, List(p) PROVE DateInv'
<1>1. op[p].pc = "list" /\ UNCHANGED <<disk, away>>
  BY DEF List, Env
<1>2. lock = p
  BY <1>1, AtWork DEF Holding
<1>3. CASE Answer(p, "ok")
  BY <1>2, <1>3, DatedAnswer DEF Over
<1>4. CASE walk' = [todo |-> DOMAIN disk, acc |-> EmptyWalk] /\ Goto(p, "load")
  <2>1. GoesOn(p, "load") /\ op'[p].data = op[p].data
    BY <1>4, GotoGoesOn DEF Stages, Holding
  <2>2. /\ Linked(op[p]) /\ Within(disk, Allowed(Want(op[p]), op[p].touched), {})
        /\ op[p].kind = "publish" => Brought(op[p], disk, walk, away.gone)
    BY <1>1 DEF DateInv, RequestDated
  <2>3. /\ Want(op'[p]) = Want(op[p]) /\ op'[p].touched = op[p].touched /\ op'[p].pc = "load"
        /\ op'[p].kind = op[p].kind /\ op'[p].target = op[p].target
    BY <2>1 DEF Want, GoesOn
  <2>4. walk'.todo = DOMAIN disk /\ walk'.acc = EmptyWalk
    BY <1>4
  <2>5. WalkDated(walk'.acc, Allowed(Want(op'[p]), op'[p].touched))
    BY <2>4, EmptyWalkDated
  <2>6. walk'.todo \subseteq DOMAIN Template
    BY <2>4 DEF MapInv, Known
  <2>7. Linked(op'[p])
    BY <2>2, <2>3 DEF Linked
  <2>8. op'[p].kind = "publish" => Brought(op'[p], disk', walk', away'.gone)
    BY <1>1, <2>2, <2>3, <2>4 DEF Brought
  <2>9. RequestDated(TmpOf[p], op'[p], disk', walk', away'.gone)
    BY <1>1, <2>2, <2>3, <2>5, <2>6, <2>7, <2>8 DEF RequestDated
  <2>10. QED
    BY <1>2, <2>1, <2>9, DatedOthers DEF GoesOn
<1>5. QED
  BY <1>3, <1>4 DEF List

LEMMA DatedVisitFile ==
  ASSUME IInv, MapInv, DateInv, NEW p \in Requests, VisitFile(p) PROVE DateInv'
<1>1. op[p].pc = "load" /\ walk.todo # {} /\ UNCHANGED <<disk, away>>
  BY DEF VisitFile, Env
<1>2. lock = p /\ WellFormed(p)
  BY <1>1, AtWork DEF Holding
<1>3. CASE LoadFails(p)
  <2>1. CASE Answer(p, "failed")
    BY <1>2, <2>1, DatedAnswer DEF Over
  <2>2. CASE Goto(p, "restore") \/ Goto(p, "remove")
    BY <1>2, <2>2, DatedUndone DEF Undoing
  <2>3. QED
    BY <1>3, <2>1, <2>2 DEF LoadFails
<1> DEFINE f == NextOf(walk.todo)
<1>4. CASE /\ f \in DOMAIN disk \/ IsHidden(f)
           /\ walk' = [todo |-> walk.todo \ {f},
                       acc |-> IF IsHidden(f) THEN walk.acc ELSE Visit(walk.acc, Site(disk), f)]
           /\ op' = op
  <2>1. PICK r, w, d, P : r = op[p] /\ w = walk /\ d = disk /\ P = Allowed(Want(r), r.touched)
    OBVIOUS
  <2>2. /\ Linked(r) /\ Within(d, P, {}) /\ WalkDated(w.acc, P) /\ w.todo \subseteq DOMAIN Template
        /\ r.kind = "publish" => Brought(r, d, w, away.gone)
    BY <1>1, <2>1 DEF DateInv, RequestDated
  <2>3. f \in w.todo
    BY <1>1, <2>1, <2>2, NextListed
  <2> HIDE DEF f
  <2>4. PICK v : v = Visit(w.acc, Site(d), f)
    OBVIOUS
  <2>5. walk'.todo = w.todo \ {f} /\ walk'.acc = IF IsHidden(f) THEN w.acc ELSE v
    BY <1>4, <2>1, <2>4
  <2>6. ASSUME ~IsHidden(f)
        PROVE  /\ WalkDated(v, P)
               /\ ~Template[f].link => Gathered(v, f)
               /\ \A g : Gathered(w.acc, g) => Gathered(v, g)
    <3>1. IsSite(Site(d)) /\ DOMAIN Site(d) = DOMAIN d /\ WalkOK(w.acc) /\ f \in DOMAIN d
      BY <1>4, <2>1, <2>6, SiteIsSite DEF IInv, MapInv
    <3>2. Fits(Site(d), P) /\ Site(d)[f].link = Template[f].link
      BY <2>1, <2>2, <3>1, SiteFits DEF IInv, MapInv
    <3>3. QED
      BY <2>2, <2>4, <2>6, <3>1, <3>2, VisitDated
  <2>7. WalkDated(walk'.acc, P) /\ walk'.todo \subseteq DOMAIN Template
    BY <2>2, <2>5, <2>6
  <2>8. r.kind = "publish" => Brought(r, d, walk', away.gone)
    <3> SUFFICES ASSUME r.kind = "publish" PROVE Brought(r, d, walk', away.gone)
      OBVIOUS
    <3>1. Brought(r, d, w, away.gone) /\ ~Template[r.target].link
      BY <2>2 DEF Linked
    <3>2. ~IsHidden(r.target)
      BY <1>2, <2>1 DEF WellFormed
    <3>3. r.target \in w.todo => r.target \in walk'.todo \/ Gathered(walk'.acc, r.target)
      BY <2>5, <2>6, <3>1, <3>2
    <3>4. Gathered(w.acc, r.target) => Gathered(walk'.acc, r.target)
      BY <2>5, <2>6
    <3>5. QED
      BY <3>1, <3>3, <3>4 DEF Brought
  <2>9. RequestDated(TmpOf[p], op'[p], disk', walk', away'.gone)
    BY <1>1, <1>4, <2>1, <2>2, <2>7, <2>8 DEF RequestDated
  <2>10. QED
    BY <1>2, <1>4, <2>9, DatedOthers
<1>5. QED
  BY <1>3, <1>4 DEF VisitFile

(* The steps that answer, and those that undo.                                  *)
LEMMA DatedEnd ==
  ASSUME IInv, DateInv, NEW p \in Requests,
         Swap(p) \/ Restore(p) \/ RenameBack(p) \/ RemoveNew(p)
  PROVE  DateInv'
<1>1. op[p].pc \in Holding
  BY DEF Swap, Restore, RenameBack, RemoveNew, Holding
<1>2. lock = p
  BY <1>1, AtWork
<1>3. CASE Goto(p, "renameback")
  BY <1>2, <1>3, DatedUndone DEF Undoing
<1>4. ASSUME NEW pc \in Over, Answer(p, pc) PROVE DateInv'
  BY <1>2, <1>4, DatedAnswer
<1>5. QED
  BY <1>3, <1>4 DEF Swap, Restore, RenameBack, RemoveNew, Over

-----------------------------------------------------------------------------
(* A file is edited or deleted: whatever it holds now is allowed.               *)
LEMMA AllowedGrows ==
  ASSUME NEW want, NEW T, NEW f
  PROVE  Grows(Allowed(want, T), Allowed(want, T \cup {f}))
BY DEF Grows, Allowed

LEMMA WithinEdited ==
  ASSUME NEW d, NEW want, NEW T, NEW but, Within(d, Allowed(want, T), but), NEW f,
         NEW e, DOMAIN e \subseteq DOMAIN d \cup {f},
         \A g \in DOMAIN e \ {f} : e[g] = d[g],
         f \in DOMAIN e => e[f] \in Nat
  PROVE  Within(e, Allowed(want, T \cup {f}), but)
<1>1. PICK P, Q : P = Allowed(want, T) /\ Q = Allowed(want, T \cup {f})
  OBVIOUS
<1>2. \A g \in DOMAIN P : g \in DOMAIN Q /\ P[g] \subseteq Q[g]
  BY <1>1, AllowedGrows DEF Grows
<1>3. f \in DOMAIN Q /\ Q[f] = Nat
  BY <1>1 DEF Allowed
<1>4. ASSUME NEW g \in DOMAIN e \ but PROVE g \in DOMAIN Q /\ e[g] \in Q[g]
  <2>1. CASE g = f
    BY <1>3, <2>1
  <2>2. CASE g # f
    BY <1>1, <1>2, <2>2 DEF Within
  <2>3. QED
    BY <2>1, <2>2
<1>5. QED
  BY <1>1, <1>4 DEF Within

LEMMA DatedEdit ==
  ASSUME IInv, MapInv, DateInv, NEW f \in Editable, Edit(f) PROVE DateInv'
<1>1. UNCHANGED <<away, walk>> /\ DOMAIN op = Requests
      /\ clock \in Nat /\ Versioned(disk)
  BY DEF Edit, IInv
<1>2. /\ DOMAIN disk' \subseteq DOMAIN disk \cup {f}
      /\ \A g \in DOMAIN disk' \ {f} : disk'[g] = disk[g]
      /\ f \in DOMAIN disk' => disk'[f] \in Nat
      /\ \A g \in DOMAIN disk : g # f => g \in DOMAIN disk'
  BY <1>1 DEF Edit, Put, Without, Versioned
<1>3. ASSUME NEW p \in Requests
      PROVE  RequestDated(TmpOf[p], op'[p], disk', walk', away'.gone)
  <2>1. CASE op[p].pc \notin Holding
    <3>1. p # lock
      BY <2>1 DEF IInv, Sound, WellFormed
    <3>2. op'[p] = op[p]
      BY <1>1, <3>1 DEF Edit, Touch
    <3>3. Linked(op'[p])
      BY <3>2 DEF DateInv, RequestDated
    <3>4. QED
      BY <2>1, <3>2, <3>3, RestingDated DEF Holding
  <2>2. CASE op[p].pc \in Holding
    <3>1. lock = p /\ p # Free /\ Fields(op[p])
      BY <2>2, AtWork, ProcessesAssumption DEF Requests
    <3>2. op'[p] = [op[p] EXCEPT !.touched = @ \cup {f}]
      BY <1>1, <3>1 DEF Edit, Touch
    <3>3. PICK r, s, d, e, w : r = op[p] /\ s = op'[p] /\ d = disk /\ e = disk' /\ w = walk
      OBVIOUS
    <3>4. /\ s.kind = r.kind /\ s.pc = r.pc /\ s.target = r.target /\ s.data = r.data
          /\ s.before = r.before /\ s.touched = r.touched \cup {f}
      BY <3>1, <3>2, <3>3 DEF Fields
    <3>5. Want(s) = Want(r) /\ RequestDated(TmpOf[p], r, d, w, away.gone)
      BY <3>3, <3>4 DEF Want, DateInv
    <3>6. /\ DOMAIN e \subseteq DOMAIN d \cup {f}
          /\ \A g \in DOMAIN e \ {f} : e[g] = d[g]
          /\ f \in DOMAIN e => e[f] \in Nat
          /\ \A g \in DOMAIN d : g # f => g \in DOMAIN e
      BY <1>2, <3>3
    <3>7. ASSUME NEW want, NEW but, Within(d, Allowed(want, r.touched), but)
          PROVE  Within(e, Allowed(want, s.touched), but)
      <4>1. PICK T : T = r.touched /\ s.touched = T \cup {f}
        BY <3>4
      <4>2. Within(d, Allowed(want, T), but)
        BY <3>7, <4>1
      <4>3. Within(e, Allowed(want, T \cup {f}), but)
        BY <3>6, <4>2, WithinEdited
      <4>4. QED
        BY <4>1, <4>3
    <3>8. /\ s.pc = "create" => Within(e, Allowed(s.before, s.touched), {})
          /\ s.pc \in {"readold", "rename"} => Within(e, Allowed(s.before, s.touched), {TmpOf[p]})
          /\ s.pc \in {"list", "load"} => Within(e, Allowed(Want(s), s.touched), {})
      BY <3>4, <3>5, <3>7 DEF RequestDated
    <3>9. s.pc = "load" => /\ WalkDated(w.acc, Allowed(Want(s), s.touched))
                           /\ w.todo \subseteq DOMAIN Template
      <4>1. Grows(Allowed(Want(r), r.touched), Allowed(Want(s), s.touched))
        BY <3>4, <3>5, AllowedGrows
      <4>2. r.pc = "load" => WalkDated(w.acc, Allowed(Want(r), r.touched))
                             /\ w.todo \subseteq DOMAIN Template
        BY <3>5 DEF RequestDated
      <4>3. QED
        BY <3>4, <4>1, <4>2, WalkDatedGrows
    <3>10. s.pc \in {"list", "load"} /\ s.kind = "publish" => Brought(s, e, w, away.gone)
      <4>1. r.pc \in {"list", "load"} /\ r.kind = "publish" => Brought(r, d, w, away.gone)
        BY <3>5 DEF RequestDated
      <4>2. QED
        BY <3>4, <3>6, <4>1 DEF Brought
    <3>11. Linked(s)
      BY <3>4, <3>5 DEF RequestDated, Linked
    <3>12. RequestDated(TmpOf[p], s, e, w, away.gone)
      BY <3>8, <3>9, <3>10, <3>11 DEF RequestDated
    <3>13. QED
      BY <1>1, <3>3, <3>12
  <2>3. QED
    BY <2>1, <2>2
<1>4. QED
  BY <1>3 DEF DateInv

(* The directory is swapped while nobody holds the mutex; a crash ends all work. *)
LEMMA DatedWorld ==
  ASSUME IInv, DateInv, SwapOut \/ SwapIn \/ Crash PROVE DateInv'
<1> DEFINE lost == [Idle EXCEPT !.pc = "lost"]
<1>1. lost.kind = "none" /\ Idle.kind = "none" /\ lost.pc = "lost" /\ Idle.pc = "idle"
  BY DEF Idle, Request
<1>2. ASSUME NEW p \in Requests
      PROVE  \/ op'[p] = op[p] /\ op[p].pc \notin Holding
             \/ op'[p] \in {Idle, lost}
  <2>1. CASE Crash
    <3>1. op' = [q \in Requests |-> IF q = Boot THEN Idle ELSE IF InFlight(q) THEN lost ELSE op[q]]
      BY <2>1 DEF Crash, IInv
    <3> HIDE DEF lost
    <3>2. op'[p] \in {Idle, lost} \/ (op'[p] = op[p] /\ ~InFlight(p))
      BY <3>1
    <3>3. QED
      BY <3>2 DEF InFlight, Holding
  <2>2. CASE SwapOut \/ SwapIn
    BY <2>2, NobodyHolds DEF SwapOut, SwapIn
  <2>3. QED
    BY <2>1, <2>2
<1> HIDE DEF lost
<1>3. ASSUME NEW p \in Requests
      PROVE  op'[p].pc \notin Holding /\ Linked(op'[p])
  BY <1>1, <1>2 DEF DateInv, RequestDated, Linked, Holding
<1>4. QED
  BY <1>3, RestingDated DEF DateInv, Holding

LEMMA DateInit == Init => DateInv
<1> SUFFICES ASSUME Init PROVE DateInv
  OBVIOUS
<1>1. Idle.kind = "none" /\ Idle.pc = "idle"
  BY DEF Idle, Request
<1>2. \A p \in Requests : op[p] = Idle
  BY DEF Init, Requests
<1>3. \A p \in Requests : op[p].pc = "idle" /\ Linked(op[p])
  BY <1>1, <1>2 DEF Linked
<1>4. QED
  BY <1>3, RestingDated DEF DateInv

LEMMA WaitingAsked ==
  ASSUME NEW kind, NEW f, kind = "publish" => ~Template[f].link
  PROVE  \E r : r = Request(kind, f, "wait") /\ r.pc = "wait" /\ Linked(r)
<1>1. /\ Request(kind, f, "wait").pc = "wait" /\ Request(kind, f, "wait").kind = kind
      /\ Request(kind, f, "wait").target = f
  BY DEF Request
<1>2. QED
  BY <1>1 DEF Linked

LEMMA NextDated == IInv /\ MapInv /\ AgeInv /\ DateInv /\ [Next]_vars => DateInv'
<1> SUFFICES ASSUME IInv, MapInv, AgeInv, DateInv, [Next]_vars PROVE DateInv'
  OBVIOUS
<1>1. ASSUME NEW p \in Reloaders, AskReload(p) PROVE DateInv'
  <2>1. p \in Requests
    BY ProcessesAssumption DEF Requests
  <2>2. \E r : r = Request("reload", NoName, "wait") /\ r.pc = "wait" /\ Linked(r)
    BY WaitingAsked
  <2>3. PICK r : r = Request("reload", NoName, "wait") /\ r.pc = "wait" /\ Linked(r)
    BY <2>2
  <2>4. /\ op[p].pc = "idle" /\ op' = [op EXCEPT ![p] = r]
        /\ UNCHANGED <<disk, away, walk>>
    BY <1>1, <2>3 DEF AskReload, Env
  <2>5. QED
    BY <2>1, <2>3, <2>4, DatedAsk
<1>2. ASSUME NEW p \in Admins, NEW f \in Targets, AskPublish(p, f) PROVE DateInv'
  <2>1. p \in Requests
    BY DEF Requests
  <2>2. ~Template[f].link
    BY <1>2, TemplateAssumption DEF AskPublish
  <2>3. \E r : r = Request("publish", f, "wait") /\ r.pc = "wait" /\ Linked(r)
    BY <2>2, WaitingAsked
  <2>4. PICK r : r = Request("publish", f, "wait") /\ r.pc = "wait" /\ Linked(r)
    BY <2>3
  <2>5. /\ op[p].pc = "idle" /\ op' = [op EXCEPT ![p] = r]
        /\ UNCHANGED <<disk, away, walk>>
    BY <1>2, <2>4 DEF AskPublish, Env
  <2>6. QED
    BY <2>1, <2>4, <2>5, DatedAsk
<1>3. ASSUME NEW p \in Requests, Step(p) PROVE DateInv'
  BY <1>3, DatedLock, DatedList, DatedVisitFile, DatedCreate, DatedReadOld, DatedRename,
     DatedEnd DEF Step
<1>4. ASSUME NEW f \in Editable, Edit(f) PROVE DateInv'
  BY <1>4, DatedEdit
<1>5. CASE SwapOut \/ SwapIn \/ Crash
  BY <1>5, DatedWorld
<1>6. CASE Start
  <2>1. Boot \in Requests
    BY DEF Requests
  <2>2. \E r : r = Request("boot", NoName, "wait") /\ r.pc = "wait" /\ Linked(r)
    BY WaitingAsked
  <2>3. PICK r : r = Request("boot", NoName, "wait") /\ r.pc = "wait" /\ Linked(r)
    BY <2>2
  <2>4. /\ op[Boot].pc \in {"idle", "failed"} /\ op' = [op EXCEPT ![Boot] = r]
        /\ UNCHANGED <<disk, away, walk>>
    BY <1>6, <2>3 DEF Start, Env
  <2>5. QED
    BY <2>1, <2>3, <2>4, DatedAsk
<1>7. CASE UNCHANGED <<disk, away, walk, op>>
  BY <1>7 DEF DateInv
<1>8. ASSUME NEW u \in Urls, OpenPage(u) PROVE DateInv'
  BY <1>7, <1>8 DEF OpenPage, Env
<1>9. ASSUME NEW r \in view, FetchRef(r) PROVE DateInv'
  BY <1>7, <1>9 DEF FetchRef, Env
<1>10. QED
  BY <1>1, <1>2, <1>3, <1>4, <1>5, <1>6, <1>7, <1>8, <1>9 DEF Next, Requests, vars

-----------------------------------------------------------------------------
(* What the property says of a map F that the request r is answered with.       *)
ServedBy(r, F) ==
  \A f \in DOMAIN Want(r) \ r.touched :
    /\ \A v \in Versions(F, f) : v >= Want(r)[f]
    /\ (/\ r.kind = "publish" /\ f = r.target
        /\ ~Shadowed(f, DOMAIN Want(r) \cup r.touched)) => Versions(F, f) # {}

LEMMA DatedIsServed ==
  ASSUME NEW r, NEW F, Dated(F, Allowed(Want(r), r.touched)),
         r.kind = "publish" /\ r.target \notin r.touched
           /\ ~Shadowed(r.target, DOMAIN Want(r) \cup r.touched) => Versions(F, r.target) # {}
  PROVE  ServedBy(r, F)
<1>1. PICK want, T, P : want = Want(r) /\ T = r.touched /\ P = Allowed(want, T)
  OBVIOUS
<1>2. ASSUME NEW f \in DOMAIN want \ T, NEW v \in Versions(F, f) PROVE v >= want[f]
  <2>1. v \in P[f]
    BY <1>1, <1>2 DEF Dated
  <2>2. P[f] = {x \in Nat : x >= want[f]}
    BY <1>1, <1>2 DEF Allowed
  <2>3. QED
    BY <2>1, <2>2
<1>3. QED
  BY <1>1, <1>2 DEF ServedBy

(* Only a load answers with success, of the empty directory or of all it found. *)
LEMMA ListServes ==
  ASSUME IInv, DateInv, NEW p \in Requests, List(p), away.gone
  PROVE  ServedBy(op[p], cache'.assets)
<1>1. op[p].pc = "list" /\ cache'.assets = <<>>
  BY DEF List
<1>2. op[p].kind # "publish"
  BY <1>1 DEF DateInv, RequestDated, Brought
<1>3. QED
  BY <1>1, <1>2, NoneDated, DatedIsServed

LEMMA SwapServes ==
  ASSUME IInv, MapInv, DateInv, NEW p \in Requests, Swap(p)
  PROVE  ServedBy(op[p], cache'.assets)
<1>1. /\ op[p].pc = "load" /\ walk.todo = {}
      /\ cache'.assets = Finish(walk.acc, Site(disk))
  BY DEF Swap
<1>2. PICK r, w, d, F : r = op[p] /\ w = walk.acc /\ d = disk /\ F = cache'.assets
  OBVIOUS
<1>3. PICK want, T, P : want = Want(r) /\ T = r.touched /\ P = Allowed(want, T)
  OBVIOUS
<1>4. /\ Within(d, P, {}) /\ WalkDated(w, P)
      /\ r.kind = "publish" /\ r.target \notin T => Gathered(w, r.target)
  BY <1>1, <1>2, <1>3 DEF DateInv, RequestDated, Brought
<1>5. WalkOK(w) /\ IsSite(Site(d)) /\ Fits(Site(d), P)
  BY <1>2, <1>4, SiteIsSite, SiteFits DEF IInv, MapInv
<1>6. F = Finish(w, Site(d)) /\ DOMAIN P = DOMAIN want \cup T
  BY <1>1, <1>2, <1>3 DEF Allowed
<1>7. /\ Dated(F, P)
      /\ \A f \in DOMAIN P : Gathered(w, f) /\ ~Shadowed(f, DOMAIN P) => Versions(F, f) # {}
  BY <1>4, <1>5, <1>6, FinishDated
<1>8. r.kind = "publish" => r.target \in DOMAIN P
  BY <1>3, <1>6 DEF Want, Put
<1>9. ServedBy(r, F)
  BY <1>3, <1>4, <1>6, <1>7, <1>8, DatedIsServed
<1>10. QED
  BY <1>2, <1>9

LEMMA NextServes ==
  ASSUME IInv, MapInv, DateInv, [Next]_vars, NEW p \in Requests,
         op[p].pc # "ok", op'[p].pc = "ok"
  PROVE  ServedBy(op[p], cache'.assets)
<1> DEFINE Good == ServedBy(op[p], cache'.assets)
<1>1. ASSUME NEW q \in Requests, Step(q) PROVE Good
  <2>1. ASSUME NEW pc \in Stages \ {"ok"}, Goto(q, pc) PROVE FALSE
    BY <2>1, GotoGoesOn DEF GoesOn
  <2>2. ASSUME NEW pc \in Over \ {"ok"}, Answer(q, pc) PROVE FALSE
    BY <2>2, AnswerParts
  <2>3. ASSUME NEW pc \in Over, Answer(q, pc) PROVE p = q
    BY <2>3, AnswerParts
  <2>4. CASE Swap(q)
    BY <2>3, <2>4, SwapServes DEF Swap, Over
  <2>5. CASE List(q)
    <3>1. CASE away.gone
      BY <2>3, <2>5, <3>1, ListServes DEF List, Over
    <3>2. CASE ~away.gone
      BY <2>1, <2>5, <3>2 DEF List, Stages, Holding
    <3>3. QED
      BY <3>1, <3>2
  <2>6. CASE VisitFile(q)
    <3>1. CASE LoadFails(q)
      BY <2>1, <2>2, <3>1 DEF LoadFails, Stages, Holding, Over
    <3>2. CASE op' = op
      BY <3>2
    <3>3. QED
      BY <2>6, <3>1, <3>2 DEF VisitFile
  <2>7. CASE Restore(q) \/ RenameBack(q) \/ RemoveNew(q) \/ Rename(q)
    BY <2>1, <2>2, <2>7 DEF Restore, RenameBack, RemoveNew, Rename, Stages, Holding, Over
  <2>8. CASE Lock(q) \/ Create(q) \/ ReadOld(q)
    <3>1. DOMAIN op = Requests /\ Fields(op[q])
      BY DEF IInv, Sound, WellFormed
    <3>2. CASE Lock(q)
      BY <3>1, <3>2 DEF Lock, Fields
    <3>3. CASE Create(q)
      BY <2>2, <3>1, <3>3 DEF Create, Fields, Over
    <3>4. CASE ReadOld(q)
      BY <2>2, <3>1, <3>4 DEF ReadOld, Fields, Over
    <3>5. QED
      BY <2>8, <3>2, <3>3, <3>4
  <2>9. QED
    BY <1>1, <2>4, <2>5, <2>6, <2>7, <2>8 DEF Step
<1>2. ASSUME NEW q \in Requests, NEW kind, NEW f, op' = [op EXCEPT ![q] = Request(kind, f, "wait")]
      PROVE  FALSE
  <2>1. PICK r : r = Request(kind, f, "wait") /\ r.pc = "wait"
    BY WaitingRequest
  <2>2. op' = [op EXCEPT ![q] = r] /\ DOMAIN op = Requests
    BY <1>2, <2>1 DEF IInv
  <2>3. QED
    BY <2>1, <2>2
<1>3. CASE (\E q \in Reloaders : AskReload(q)) \/ (\E q \in Admins, f \in Targets : AskPublish(q, f)) \/ Start
  BY <1>2, <1>3, ProcessesAssumption DEF AskReload, AskPublish, Start, Requests
<1>4. ASSUME NEW f \in Editable, Edit(f) PROVE FALSE
  <2>1. DOMAIN op = Requests /\ Fields(op[p])
    BY DEF IInv, Sound, WellFormed
  <2>2. op' = op \/ op' = [op EXCEPT ![lock].touched = @ \cup {f}]
    BY <1>4 DEF Edit, Touch
  <2>3. op'[p].pc = op[p].pc
    BY <2>1, <2>2 DEF Fields
  <2>4. QED
    BY <2>3
<1>5. CASE Crash
  <2> DEFINE lost == [Idle EXCEPT !.pc = "lost"]
  <2>1. lost.pc = "lost" /\ Idle.pc = "idle"
    BY DEF Idle, Request
  <2>2. op' = [q \in Requests |-> IF q = Boot THEN Idle ELSE IF InFlight(q) THEN lost ELSE op[q]]
    BY <1>5 DEF Crash, IInv
  <2> HIDE DEF lost
  <2>3. op'[p] \in {Idle, lost, op[p]}
    BY <2>2
  <2>4. QED
    BY <2>1, <2>3
<1>6. CASE \/ SwapOut \/ SwapIn \/ UNCHANGED vars
           \/ (\E u \in Urls : OpenPage(u)) \/ (\E r \in view : FetchRef(r))
  BY <1>6 DEF SwapOut, SwapIn, OpenPage, FetchRef, vars
<1>7. QED
  BY <1>1, <1>3, <1>4, <1>5, <1>6 DEF Next, Requests

(* A publication or a reload that is answered with success is served at once:   *)
(* the map it leaves shows what was published, unless another source has its    *)
(* route, and no file older than the directory was when the request took the    *)
(* mutex; whatever the names and the site, and however many requests, edits,    *)
(* directory swaps and crashes there are.                                       *)
THEOREM SuccessServed == Spec => SuccessIsServed
<1> DEFINE A == \A p \in Admins : (op[p].pc # "ok" /\ op'[p].pc = "ok") =>
       LET want == IF op[p].kind = "publish" THEN Put(op[p].before, op[p].target, op[p].data)
                   ELSE op[p].before
       IN  \A f \in DOMAIN want \ op[p].touched :
             /\ \A v \in Versions(cache'.assets, f) : v >= want[f]
             /\ (/\ op[p].kind = "publish" /\ f = op[p].target
                 /\ ~Shadowed(f, DOMAIN want \cup op[p].touched)) => Versions(cache'.assets, f) # {}
<1>1. IInv /\ MapInv /\ DateInv /\ [Next]_vars => A
  <2> SUFFICES ASSUME IInv, MapInv, DateInv, [Next]_vars,
                      NEW p \in Admins, op[p].pc # "ok", op'[p].pc = "ok"
               PROVE  ServedBy(op[p], cache'.assets)
    BY DEF ServedBy, Want
  <2>1. QED
    BY NextServes DEF Requests
<1>2. Init => IInv /\ MapInv /\ AgeInv /\ DateInv
  BY InitSound, MapInit, AgeInit, DateInit
<1>3. IInv /\ MapInv /\ AgeInv /\ DateInv /\ [Next]_vars => (IInv /\ MapInv /\ AgeInv /\ DateInv)'
  BY NextKeeps, NextMaps, NextAges, NextDated
<1>4. IInv /\ MapInv /\ DateInv /\ [Next]_vars => [A]_vars
  BY <1>1
<1>5. QED
  BY <1>2, <1>3, <1>4, PTL DEF Spec, SuccessIsServed
=============================================================================
