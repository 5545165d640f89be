# LIAF in TLA+

LIAF is a language for web programs. `liafc` compiles a program to Go and links
it with a runtime: a connection pool over four database drivers, an HTTP and
WebSocket server, a document engine. This directory models the compiler from
the text of a program to the order of the calls in its Go, the formatter and the
language server that rewrite that text, and the parts of the runtime where
several actors meet or where an operation can stop half way. It checks them with
TLC on small instances and proves with TLAPS, for instances of any size, the
safety properties of the pool, the transactions, the driver connection, the
loader, the hub, the language server and the web server.

Paths are relative to `src/`.

## 1. The system

| component | state | operations | what is hard |
|---|---|---|---|
| pool (`pkg/runtime/db.go`) | registry of pools by DSN; per pool: references, idle stack, semaphore, closed flag | `db-connect`, `db-close`, acquire, release | two locks, a semaphore and dials outside of all of them |
| transactions (`db.go`, `pkg/codegen/database.go`, `stmt.go`) | handle with `tx`, `txDone`; deferred rollbacks; on-err closure | `db-transaction` | two enders per transaction, exits through `try`, `return`, loops; broken connections |
| drivers (`pkg/dbdrv`) | socket, deadline, buffered reader and writer, server session | query, exec, begin, commit, rollback, redis get/set | late answers, errors that are or are not `ErrConnLost`, replies left unread |
| WebSocket connections, hub (`pkg/web/websocket.go`, `pubsub.go`) | topics and members; per connection: closed flag, send queue, write pump, keepalive | upgrade, next, send, join, leave, broadcast, close | four goroutines per connection; broadcasts work on a copy of the members |
| redis broker (`pkg/web/pubsub_redis.go`) | publisher and subscriber connection, node id | publish, subscribe loop, replace, disable | reconnection, late replies, an old subscriber still delivering |
| web server (`pkg/web/server.go`, `cache*.go`, `admin.go`, `router.go`, `ratelimit.go`) | asset cache behind an atomic pointer, files on disk, rate windows | serve, reload, publish | requests during a reload; write - rename - reload - roll back |
| deployment (`pkg/deploy`, `cmd/liafc/publish.go`) | Caddy's routes | bind, publish | read - change - write over HTTP |
| document engine (`pkg/typst`, `pkg/docrt`) | slots, idle WebAssembly instances | render, close | contexts that end, instances that trap, close during a render |
| module loader (`pkg/loader`) | visited modules, import stack | load, import a file, a directory, a std module | cycles against diamonds, directories |
| language server, formatter (`pkg/lsp`, `cmd/liafc/fmt.go`) | open documents | one goroutine per message; `fmt -w` | messages that overtake one another, edits of a text that changed |
| lexer, parser, printer (`pkg/lexer`, `pkg/parser`, `pkg/ast/printer.go`) | a token of lookahead | one sequential pass each | two syntaxes for one tree, no separators, a canonical text that must be read back |
| checker (`pkg/checker`) | scopes, pending results, effects used, current module | one sequential pass | what is settled after branches and loops; visibility in a merged module |
| code generators (`pkg/codegen`, `pkg/codegen/c`) | current module, on-err, return type; emitted text | one sequential pass | order of hoisted `try`, identifiers of private functions, scope of on-err, defers |
| library (`pkg/builtins`, `pkg/runtime`, `std`), CLI (`cmd/liafc`), content pipeline (`pkg/content`, `markdown`, `minifier`, `pkg/web/template.go`) | none to speak of | single calls | data conversion |

Interaction: compiled functions call the pool through `rt.DB*`; the pool calls
the drivers and decides by their errors whether a connection lives on; handlers
of HTTP and WebSocket routes are goroutines that share pools, topics and rate
windows; the hub's broadcasts write to connections of other handlers; a broker
feeds broadcasts of other processes into the hub; `publish` and `reload`
replace the cache that every request reads.

What makes each of them correct:

* pool: a connection is with one caller at a time and is never lost; the limit
  holds; nobody's handle is closed by another's `db-close`; waiters get on.
* transactions: a block is committed or undone, once, whatever way it is left;
  no transaction outlives its function or travels with a parked connection.
* drivers: an answer is the answer to the caller's own request; no call waits
  for ever; a broken connection is not used again.
* hub: a member is an open connection; a frame accepted is written before the
  close frame or reported; a slow member delays nobody; a message reaches each
  local member once; no goroutine of a connection leaves it open behind it.
* web server: a request sees one version of the assets; after a publication
  that failed, disk and cache are what they were; a crash leaves one of the two.
* engine: no more renders than slots, no instance with two renders, no slot lost.
* loader: every module once, a cycle is an error, a diamond is none.
* checker and generator: no result is lost in an accepted program; a call runs
  the function it was checked against; the Go does what the source says, in its
  order.
* lexer, parser, printer: a text reads as its author means it, in either syntax;
  the canonical text of a tree reads as that tree and is printed as it is.
* language server: the last diagnostics an editor gets are those of its last
  text; an edit of the server is of the text the editor has.

`PROJECT.json` lists the places in the code where these can go wrong, with the
property that covers each.

## 2. Modules

| module | models | abstract specification |
|---|---|---|
| `ConnLease` | the promise: a caller has at most one connection on loan, a connection one borrower, a pool `MaxOpen` loans | - |
| `DBPool` (`MCDBPool`, `DBPoolProofs`) | the pool | implements `ConnLease` |
| `DBTx` (`MCDBTx`, `DBTxProofs`) | transaction blocks of compiled functions, on `ConnLease`'s view of the pool | implements `ConnLease`, statements and transactions as borrowers |
| `DBWire` (`DBWireProofs`) | one driver connection between its uses | - |
| `WSOutbox` | the promise: accepted messages are written in order, once, all of them while the connection lasts, with control frames between them, and few wait | - |
| `WSHub` (`MCWSHub`, `WSHubProofs`) | WebSocket connections, their goroutines and the hub | implements `WSOutbox`, each connection an outbox |
| `WebSite` (`WebSiteProofs`) | one load of a directory: pages, includes, loops, fingerprints, routes | - |
| `WebServer` (`MCWebServer`, `WebServerProofs`) | requests, reloads, publications, crashes and edits over one directory | the properties `SuccessIsServed`, `FailureLeavesNoTrace` |
| `Syntax` | trees and lexemes, shared by all that follow | - |
| `Lexer`, `Parser`, `ParserLinear`, `Printer`, `FrontEnd` | text to tree in both syntaxes, tree to canonical text | reference writers in `MCEditor` |
| `Editor` (`MCEditor`, `EditorProofs`) | a file, an editor, `liafc fmt`, the language server | - |
| `Loader` | files and imports to one list of declarations | the closure of the imports in `Build` |
| `Checker` | the merged module to a verdict | what runs of the source show (`Running`) |
| `GoCode` | the checked module to Go | the source itself, by `Running` |
| `Running` | what a program does, told from its source or its Go | - |
| `Build` (`MCBuild`, `BuildProofs`) | `parseAndCheck`, then a run | - |

`DBPool` and `DBTx` meet in `ConnLease`: the first shows that the pool is a
table of leases, the second uses the pool as one and shows that blocks, commits
and deferred rollbacks keep to it. `DBWire` looks below: what a lease hands over
is a socket with a history.

`Editor` takes the front end as tables (`Reading`, `Printing`, `Meaning`) that
`MCEditor` computes with `Parser` and `Printer`, and `Build` takes the checker,
the generator and the meaning of programs as operators that `MCBuild` gives: so
`Editor`, `Loader` and `Build` have no recursive operator and can be proved about,
while the recursive passes over trees stay in modules of their own.

In every module definitions named after a mutant (their comment begins with
"Mutant") are not part of the model: each is a plausible mistake in the
definition that follows it, and the property it is listed with in
`PROJECT.json` fails when it takes that definition's place.

### DBPool

One caller is one goroutine inside a `db-*` call; `pc` says between which two
synchronisation points of the code it is. A step runs from one lock, channel
operation or network call to the next, which is as fine as other goroutines can
see. `registered` is the entry of `pools` for the one DSN modelled (other DSNs
share nothing with it), `dialMu` its dial lock, `status`/`refs`/`idle`/`sem` the
fields of each `dbPool`, `hstate` a handle's `closed` flag, with `closing` for
the time between the compare-and-swap and the decrement of `refs`; `live` are
the connections open at the driver, `drain` the ones `DBClose` has copied out
of the idle list and closes one by one outside the lock.

`DBConnect` is ConnectShared / ConnectMiss, LockDial, RecheckShared /
RecheckMiss, DialPoolFail / DialPoolOk, Register. `DBClose` is CloseHandle,
DropSharedRef / DropLastRef, CloseIdleConn, CloseDone. A query is AcquireStart,
TakeSlot, FindClosed / PopIdle / FindEmpty, DialConnOk / DialConnFail,
OperationReturns, then release: ReleaseToIdle or ReleaseToDiscard and Discard,
FreeSlot. A transaction is BeginOk and TxEnds in the place of OperationReturns.

### DBTx

One function is one call of a compiled function; `pc` is where its body stands,
`block` what the connection's name means there, `deferred` its pending
`defer rt.DBRollback`. BeginOk, Commit and Rollback are `DBBegin`, `DBCommit`
and `DBRollback` with the release each makes. A failed result takes a function
to its on-err closure, if it has one, and then to its defers (Fails, Returns,
Unwind, Returned): the closure runs *before* the defers and sees the pool's
handle, because it is emitted before the block. LeaveBlock is a `break` or
`continue` of a loop around the block, after which the body goes on with the
transaction still open. The server's part is `session`, `failed` and `stored`:
a failed statement aborts a transaction on some servers (`aborts`), COMMIT of
an aborted one is answered without error, an answer may be lost with the
connection. It is external: modelled from what the drivers rely on.

### DBWire

`toServer` and `toClient` are the requests not answered and the packets not
read, `overdue` whether the socket's deadline has passed, `writeDead` whether
the `bufio.Writer` has failed (it keeps its first error). `Send` is what the
three drivers do before they wait, `Receive` and `ReceivePrepared` the wait,
`OpReturns` the release that follows, which parks the connection unless the
error is an `ErrConnLost` and leaves it alone inside a transaction. The
differences between the drivers are data: who sets a deadline (`LateAt`), who
wraps a read error (`ReadFails`), how many packets a reply has (`Packets`), and
the two places that return in the middle of a reply (`ArgumentCountDiffers`,
`MessageTooLong`). `history` records what has gone wrong on the connection and
exists for the properties only.

### WSHub

A process is a goroutine: `Handler(c)`, `Pump(c)` and `Keepalive(c)` of a
connection, and the goroutines of the program that use connections handed to
them or only broadcast, among them a broker's subscriber. All of them run the
same code on a connection, which is why they share its steps: `put`
(writeRawFrame's select), `lock` and `writing` (writeDirect), `close`,
`leaveAll`, `hangup` (Close). `on` is the connection a process works on, `job`
what for, `frame` what it carries, `todo` the members a broadcast has still to
reach. Where a call ends (`Done`) depends on `job`: a broadcast goes on with the
next member, the pump and the keepalive end, a handler whose `Next` failed goes
on to on-close. `event` is the handler's place in the generated loop
(`genWSLoop`).

`closed` stands for the flag and for the channel `done`, which are set
together; `members` for the hub's topics and, inverted, for each connection's
own, which the hub's lock changes together. `writer` is who holds `writeMu`
across `conn.Write`. `wire` has the messages written; close frames, pings and
the halves of frames that failed writes leave are not in it.

### WebSite, WebServer

`WebSite` is one load: `Visit` is the body of `loadPipeline`'s walk for one name,
`Finish` what follows the walk (posts by date, Markdown pages in their layouts,
fingerprints, clean routes, sitemap, robots). A page is a list of tokens: text of
a file in a version, an include, a loop over the posts, a variable, a reference,
with or without the version whose hash it carries. `WebServer` keeps the
directory (`disk`, `away` while it is renamed), the map the atomic pointer holds
(`cache`), `mutationMu` (`lock`), the load under way (`walk`) and per request
where it stands (`op`): Lock, Create, ReadOld, Rename, List, VisitFile, Swap,
LoadFails, Restore, RenameBack, RemoveNew, Answer are the steps between two
calls of the file system. `Edit`, `SwapOut` and `SwapIn` are people and
deployments behind the server, `Crash` and `Start` the process, `OpenPage` and
`FetchRef` a browser, which keeps what it is told is immutable. Versions stand
for contents and for their hashes: two contents never hash alike. A walk keeps the
set of names it listed and takes the first of them in the order of `fs.WalkDir`
(`NextOf`, `WalkOrder`).

Seen while modelling and true in the model: the lookup's fallback to the last
segment answers a page in another directory, whose relative references then
resolve elsewhere, and such references of several segments are fingerprinted
from the root but not found (`RefsMatch` excepts both); it also answers a
reference to a file that is gone with the file of that name at the root, which may
be older than the page (`NeverOlderThanPage` compares a file with its own kind
only);
`{{ title }}` in a loop of a Markdown page's layout is replaced by the page's
own before the loop runs; an immutable URL may keep a newer content than its
hash; a directory that cannot be opened gives an empty site with success; a
publication of about.html beside about.md, which makes a page of that name,
answers success and is never shown, and so does one of a file `about` without an
extension beside either (`Shadowed`, which `SuccessIsServed` excepts).

### Lexer, Parser, ParserLinear, Printer, FrontEnd

A lexeme is a word, a mark or a literal with its gap to the next one; `Lexer`
makes tokens of them, `Parser` and `ParserLinear` are the recursive descent of
`pkg/parser`, one operator per function, over a position in the tokens, and
`Printer` is `ast.Format`. An error is the end of the parse (`Abort`): what the
parsers recover to is only used for further messages. `FrontEnd` says when two
trees mean the same (`Normal`) and which trees the canonical text does not do
justice to (`Unprintable`): tests, `if` with an empty branch, characters without
an escape, untyped lists, reserved words as fields, cases that begin with a
parenthesis, an `if` or `match` in the place of a returned value.

Seen while modelling: `x -1` is two expressions, x and -1; a linear statement
that begins with a parenthesis is read as an S-expression; a linear `return` just
before a `case` aborts; `(test "x" (body ...))` never parses; text after the
module's last parenthesis is ignored.

### Editor

`source` is what an author means and wrote, `disk` the file, `buffer` the
document in the editor, `docs` what the server has stored, `handlers` the
goroutines of messages under way, `shown` the diagnostics the editor shows.
Open, Change (Retype), Close and formatting requests start a handler; Store and
Publish are the two steps of a notification, ReadDoc and Respond those of a
request. `MCEditor` has the programs, a writer of the linear syntax that is not
derived from the code (`LinearText`), and the tables. `Patient` says whether the
editor waits for what a message brings before the next: the server promises
nothing to one that does not, its goroutines may store an old text last.

### Loader, Checker, GoCode, Running, Build

`Loader` turns the recursion of `pkg/loader` into a stack of calls: `calls` has
what `expand`, `loadDirectory` and `resolveImportDir` have left to do, `stack` and
`visited` are the code's. ResolveImport, ResolveStd and NextMember take one
import or one member; EnterImport is `enter`; Leave is the return; Finish the
check of collisions.

`Checker` is a fold of a record `c` over the declarations, one operator per case
of the code: `scopes`, `pending` (the results nobody looked at, by scope and
name), `used` effects, `module` (`currentModule`), `errs` the codes. `binds`
records which declarations a name may have been taken for and `types` what a
match is over, for the generator and the properties. Of the library it knows the
functions the programs call. `GoCode` writes Go as trees: `guard` is a hoisted
try with its way out, `valueOf` a try that was not hoisted, `gocall` a call by
identifier. `Running` runs either kind of tree in a world that says which calls
of the library fail, and keeps the log of what the world sees; of a `while` it
runs three rounds and calls what goes on "stuck". It is what the source means
(the documents' left to right, a try that leaves at once) and what Go does with
the trees; `Compiles` has the rules of Go that the generator can break: unknown
and double identifiers, a missing return, an unused branch name.

`Build` is `parseAndCheck` and a run. Its properties: `OnceEach` and
`CycleVerdict` state the loader's promise against the closure of the import
relation, a definition by least fixpoint that shares nothing with the walk;
`BoundAsChecked` ties three name resolutions together; `ResultsHandled` ties the
checker's flow analysis to runs; `RunsAsWritten` compares the Go with the source.

What they except, because the code does: `ResultsHandled`, results open at a
`break`, a `continue`, a try that fails or a match written with cases (the
checker neither restores nor merges there, so such results are lost in accepted
programs, although REFERENCIA.md:317 calls ignoring one a compile error);
`RunsAsWritten`, calls to the left of a try in one expression (hoisting moves the
try before them) and tries that are not hoisted (condition of a while, right of
and/or, branches, spawn), which read `.Value` without a look at the error
(SPEC.md:792 says the function returns at once). `Orderly` is exactly that
condition; for programs outside it the property still has it that without
failures the same calls are made and the same value comes back.

Seen while modelling and true in the model: a ws-route is checked in the module of
the declaration checked before it; routes and tests of imported files belong to
the root's module; private structs and enums are not renamed; the members of an
imported directory are not on the import stack, so a cycle through them passes
(SPEC.md:1118 calls it an error), which `CycleVerdict` excepts; importing an empty
directory is silent; `with(...)` finds a private middleware of another module;
`returns` accepts statements after a return and an on-err that returns nothing,
and the Go of some accepted programs does not compile (a private `main` in an
imported module, a match with result cases in S-expressions, a try inside an
on-err, a private enum of another module).

## 3. Runs

| run | instance | states | shows |
|---|---|---|---|
| `pool` | 2 goroutines, 3 handles, 2 pools, 2 connections, `MaxOpen` 1 | 67 thousand | the safety properties and the refinement; waiters get on, a closed pool drains |
| `dbtx` | 2 functions, 2 transactions, 3 connections, `MaxOpen` 3, symmetric | 339 thousand | the transaction properties and the refinement |
| `dbtx_committed` | the same | - | a violation, below |
| `wire` | each of 3 drivers, 6 requests | 144 thousand | own answers, no inherited transaction, every call returns |
| `wire_fault` | the same, 5 requests | - | a violation, below |
| `wshub` | 2 connections used by a goroutine, 2 messages, queue of 1 | 615 thousand | an outbox each; no member left out |
| `wshub_live` | 1 connection with handler, keepalive and peer, 1 message, queue of 1 | 38 thousand | none of its goroutines ends while it is open; accepted is written, broadcasts return, a closed connection ends |
| `wshub_join` | the same | - | a violation, below |
| `web` | 2 administrators, 2 sites of 3 and 4 files, 2 troubles, 1 fetch | 352 thousand | the map is one load, success is served, failure leaves nothing, nothing older than its page, requests end |
| `editor` | 208 programs and layouts of them, one message at a time | 51 thousand | texts read as meant, the canonical text settles, the server keeps to the editor's text |
| `fmt_loses` | the same | - | a violation, below |
| `build` | 2184 projects, 6 worlds | 26 thousand | files once, cycles told, calls bound as checked, results handled, Go as written |

Why the bounds are enough. In `pool` one goroutine closes or dials while the
other is anywhere between acquire and release; two pools are one closed and its
successor; with one slot and one idle place the slot, the idle list and the
discard run out one after the other, and two connections tell the parked from
the dialled; three handles allow re-opening after a double close. What more
goroutines and slots would do is not left to the run: every safety property of it
is proved for all of them (section 5). In `dbtx` each function can have one
transaction open and wait for a second connection, or one function both
transactions, and `MaxOpen` is one more than the transactions. With `MaxOpen` 2
the two functions can wait for one another for ever, each with a transaction open
and asking for a second connection: nothing in the code or its documents excludes
that (see the hazard list), so the run is made with a slot to spare and deadlock
is checked in it. In `wire`, six requests are a transaction that goes wrong
(begin, a statement, its end) and what the next user of the connection meets;
a mysql statement is two of them.

In `wshub` two connections are one that is slow, broken or closed and one that
must be reached nevertheless; two messages and a queue of one make the queue
full while the pump holds a frame, and let one message try to overtake the
other. `Active` keeps the handlers and keepalives out of it: their steps on a
connection are the ones the goroutine takes. `wshub_live` has them, with the
peer's pings and failures, and pings without end compete with the message for
the queue and for `writeMu`. Both may stop when the messages are used up and the
connections closed, so deadlock is not checked; that a call gets on is what
`wshub_live` is for.

In `web` the two sites are one with an include, a style sheet and a file that is
streamed, and one of a Markdown post with its layout; two administrators are one
that waits for the mutex while the other's load fails and is undone, or one that
reads a file the other has just renamed; two troubles are an edit in the middle
of that load and a crash, or a directory swapped out and in. The browser's one
fetch meets whatever happened since its page. No request need ever come, so
deadlock is not checked.

In `editor` the programs have each construct of the language in both syntaxes,
alone and where two of them meet (operators of different precedence, postfix
fields, calls at the beginning of a line, names that are words of the other
syntax). One message at a time is what `Patient` makes of any number. The author
may stop, so deadlock is not checked.

In `build` the import graphs are all those of a root and two files, two of them
in a directory, with up to two imports each, by file name, without extension,
twice under two names, of itself and of the directory, loaded from a file or from
the directory (392 graphs: 97 are built, 266 refused for a cycle, 29 for want of a
main). The programs about results are all sequences of up to three of eleven steps
after a result is kept (1463: 880 accepted, 583 refused); those about tries are
every pair of a few values in each construct that hoists or does not, in a
function with an on-err, without one, and as a condition (282, of which 156 are
orderly). The others have each declaration, error code and quirk above once. The
worlds are all failures of two files, and of the begin and the commit of a
transaction. Three rounds of a `while` suffice, as its condition is the same each
round. A program ends, so deadlock is not checked.

Other bounds: connections of `WSHub` and its messages are used once; handles, pools and transactions are fresh names used once, so
their number bounds how many are made; connections are reused once closed in
`DBPool`, but not once broken in `DBTx`; a function of `DBTx` may be called
again as long as transactions are left.

What the violations show. `dbtx_committed`: SPEC 19.6 says the block confirms
on reaching its end; on Postgres a block whose body matched (not tried) a failed
statement reaches its end, gets an answer without error to COMMIT, and has been
rolled back. `wire_fault`: release is documented to keep a connection that failed
at transport level out of the pool; write errors and all of redis' errors are not
wrapped, so it parks them. `wshub_join`: SPEC 19.8 says that closing a connection
takes it out of its topics; `join` does not ask whether the connection is closed,
and what joins after Close is never taken out again. `fmt_loses`: two tests say
that the canonical form is read back the same; `liafc fmt -w` drops a test, and
the module's last parenthesis with it, and loses a statement in a case.

Two more properties are stated in the modules and have no run. In `DBTx`,
`PoolUnusedMidTransaction`: SPEC 19.6 says that the pool cannot be used by mistake
in the middle of a transaction; the on-err closure does, since it runs before the
deferred rollback and its name is the pool's. In `Build`, `Unreachable`: after each
`switch` for a match on an enum the generator writes `panic("unreachable")`,
because the test for a function without a value compares the Go type, which is
empty, with "void" (codegen/stmt.go:125, types.go:103): a match statement whose
cases only `set` is accepted and always ends in the panic, and one whose cases
print, in a function without a value, becomes `return fmt.Println(...)` and does
not compile. Each fails when it is added to the invariants of its module's run.

`OwnAnswer` and `NoInheritedTx` hold outside the cases that `InStep` names: a
read that fails inside a transaction, redis' read errors, mysql's argument
count check (reached only when the compiler gives up counting placeholders) and
a Postgres message over 64 MiB. In each of them the code goes on with a
connection whose next reply belongs to an earlier request. No document makes a
promise about the last two, so they are conditions here, not findings.

## 4. Fairness

`pool`: weak fairness of every step of a call once it is made, because
goroutines are scheduled, dials and driver calls carry deadlines, and a
transaction ends with its function; strong fairness of taking a slot and of
locking the dial mutex, because Go hands a channel's free place to the sender
that waits longest and a mutex that is fought for to the first in its queue.
Nothing is assumed of the start of calls. A goroutine of `DBPool` holds one
connection at a time: the hold-and-wait of section 3 is outside this run.

`wire`: time passes (`DeadlinePasses`) and a read returns at its deadline. No
fairness is assumed of the server or the network.

`wshub_live`: weak fairness of each process inside a call and of the pump's
select, strong fairness of taking `writeMu`. A write returns because it has a
deadline: `WriteFails` is fair, `WriteOk` is not, a peer may never read. The
ticker, the peer and the program owe nothing.

`web`: each administration request takes its steps when it can (weak fairness,
spelled out as `Fair`); the mutex is taken once by each and released on every
path. Nothing is assumed of crashes, edits, starts and browsers.

`editor`: the server's goroutines run, and the editor takes an answer it is given.

`build` has no liveness: a build is one sequential pass.

## 5. Proofs

`DBPoolProofs` proves, for any sets of callers, handles, pools and connections
and any limits that are positive naturals, the type invariant (which here as in
the other modules is proved and in no run), `ExclusiveConn`,
`NoLostConn`, `PoolBound`, `SlotsCounted`, `OpenPoolRegistered`, `RefsCounted`,
`ClosedForever` and `ImplementsLease`. The assumptions are the named ones of
`DBPool` (the limits are positive, the null values are not members).

The invariants are not inductive one by one: that a popped connection is
nobody else's needs that idle lists do not repeat and are disjoint; that
nothing is parked in a closed pool needs that a handle in use keeps its pool
known, and that the count of references is right, for else the last `db-close`
could be somebody else's. `IInv` is the conjunction of four parts that need one
another:

* `Shape`: what a `pc` says of the caller's connection, handle and lock
  (a caller in `dialPool` has the dial mutex, one in `closing` alone owns its
  handle's compare-and-swap, ...);
* `ConnsInv`: where connections are;
* `SlotsInv`: `sem` is the number of callers between acquire and release, and
  the idle list together with those past the look at it fit in `MaxOpen`;
* `RegistryInv`: the registered pool is the open one, who dials a pool found
  none, a pool not open has an empty list, `refs` counts handles.

Each has a lemma with one step per action (ShapeStep, ConnsStep, SlotsStep,
RegistryStep); `Inductive` joins them, `ConsequencesInv` gives the invariants
of the runs. Cardinalities change by one element at a time, which `OneMore`
and the library's finite-set facts handle; the idle stacks need `PopLast` and
`PushLast`. `LeaseStep` maps each action to Lend, Return or a stutter.

`EditorProofs` proves `QuietAgrees` and `EditIsOfBuffer` for any sources and
any parser and printer (the tables are constants), for an editor that waits
(`Patient`, as in the run). Its invariant says that one message is under way at
a time: nothing, one handler or one answer; that a notification's handler has
the buffer in hand and has stored it once it is past `docsMu`; that a formatting
handler starts when `docs`, `shown` and `buffer` agree; and that an answer which
waits is `ComputeFormatting` of the buffer. `EditIsOfBuffer` then needs only
that formatting a document keeps its `whole` (`ComputedDoc`). Without `Patient`
neither holds: the server does not order its goroutines.

`DBTxProofs` proves, for any functions, transactions and connections and any
capacity of the pool, `TypeOK`, `OpenTxDeferred`, `SessionsClean`,
`StoredByCommit`, `VerdictFinal` and `ImplementsLease`. Its invariant says where a
program counter may have a connection (`Shape`); that a transaction goes from
not begun to open to decided, and that its deferred rollback is with one function
from begin on (`TxInv`); that a connection is lent once, or parked, or neither,
and that a session belongs to the open transaction on its connection (`ConnInv`);
and that the semaphore counts the loans (`SlotInv`). `SessionsClean` needs all of
it: a parked connection has no session only because its last borrower's
transaction is decided. The null values are no members, and the pool is not one
of the transactions (`TxNullAssumption`).

`DBWireProofs` proves `OwnAnswer` and `NoInheritedTx` for any number of requests.
While nothing of what `InStep` names has happened, the wire holds the last request
or the reply to it, or nothing (`WireInStep`), and a session's open transaction
belongs to the caller, or is what the reply under way says (`SessionInStep`). Send
and receive keep this packet by packet; `ReplyShape` and its companions say what is
left of a reply once its first packet has been read.

`BuildProofs` proves `OnceEach` and `CycleVerdict` for any project whose listings
hold files and whose files parse to lists (`ProjectsAssumption`). The recursion of
`pkg/loader` is a stack of calls, and the invariant speaks of it: a file is
expanded by one call at most, which has taken its declarations from the front
(`CallInv`); the code's import stack is the calls that pushed on it (`StackInv`);
what is called leads from what called it (`ChainInv`), so a file met on the stack
lies on a cycle; what a call has taken, and all of a finished file, is merged
(`MergedInv`) and what it names is visited or waits in an imported directory
(`ClosureInv`); finished files outside imported directories are on no cycle
(`AcyclicInv`). When the last call returns this is the closure of the imports.
`CyclesFound` has one hypothesis, `CheckerTellsNoCycle`: the checker, an operator
given to `Build`, never reports E_CIRCULAR_IMPORT; the only place of the code that
does is pkg/loader/loader.go:209.

`WSHubProofs` proves, for any connections, goroutines, topics and queue size,
`TypeOK`, `MembersReached`, `ImplementsOutbox` and `EndsClosed`. Its invariant: what a process
holds fits its place (`LocalInv`), no goroutine of a connection runs before the
upgrade (`Dormant`), a message is with one sender, who has not yet given it to any
connection he still owes it (`FreshInv`: from this no message is written twice), and
a member at the time of a broadcast has the message, or is closed, or the broadcast
comes to it (`AudienceInv`). The refinement does not look at the dozen and a half
actions but at what a step can do: start a task (Chooses, Begins), put a frame in a
queue or in hand (Puts), take the next (Takes), write (Delivers), close (Shuts),
wake a connection's goroutines (Wakes), or none of these (Steady). `StepEffect` sorts
the actions into these once, and each class maps to one step of `WSOutbox`.

`EndsClosed` is the safety half of `ClosedConnEnds`: a goroutine that ends, or an
on-close that runs, has a closed connection, and a closed connection has a closed
socket or a process about to close it. The first is not inductive: `Next` says that
the connection is gone before anybody has closed it, so `EndInv` has the handler
hold the connection, on its way through `lock`, `writing` and `close`, until it is
closed; a pong is the handler's own, a keepalive waits at the queue with a ping
only, and a handler that has ended its event broadcasts no more. With `LocalInv`
this goes action by action; the second part needs that of those who come to `Close`
the one that sets the flag is the one that goes on to `leaveAll` and `hangup`.

`WebSiteProofs` is about one load of any directory: what `Visit` gathers file by
file (`WalkOK`), and that the map any finished walk makes (`MapOK`) offers no
hidden file, answers every route its sitemap lists with a page that claims it,
carries in each marked reference the hash of the file it answers with, and has what
is not a page under its own name. Pages include files that include files, up to the
code's depth: the expansion is a recursive function over that depth, and its lemmas
go by induction over a set of naturals (`LeastNat`, `SetInduction`, from the
well-foundedness of <), with no operator as a parameter.

`WebServerProofs` proves, for any directory, requests, edits, crashes and browsers,
`TypeOK`, `FailureLeavesNoTrace`, `RefsMatch`, `CacheSound`, `NeverOlderThanPage`
and `SuccessIsServed`, from five invariants, each on top of those before:

* `IInv`: who holds the mutex, and that what a publication keeps to undo its
  step is the file it found, unless somebody touched the file meanwhile; where its
  hidden file can be. It gives `FailureLeavesNoTrace`.
* `MapInv`: every file has a node, the walk is `WalkOK`, the map in use `MapOK`.
  It gives `RefsMatch` and `CacheSound`.
* `AgeInv`: no entry of the map and no reference of a page a browser has seen is
  younger than what the directory holds, holds while it is renamed away, has given
  the walk, or will hold when a publication brings its new content or
  restores the former one. It gives `NeverOlderThanPage`: a rolled back publication
  is why the former content counts, a file streamed from the directory why the
  directory does.
* `TypeInv`: the types besides.
* `DateInv`, for `SuccessIsServed`: `Allowed` gives each file the versions that the
  request under way may show, those not older than the directory had when it took
  the mutex or, for its target, than what it publishes, and all of them once
  somebody touched the file. The directory stays within them (`Within`; while a
  publication waits to rename, but for its hidden file), what the walk has gathered
  says nothing else (`WalkDated`), and the target is in the directory and gathered,
  or still to be visited. `WebSiteProofs` has the other half: a visit keeps
  `WalkDated` (`VisitDated`), and what `Finish` makes of such a walk shows no other
  version, in an asset or in text that came through includes, loops and layouts into
  a page, and shows every file gathered that is not `Shadowed` (`FinishDated`). An
  edit in the middle makes more versions allowed and takes none away
  (`WalkDatedGrows`), which is why the text gathered before it still counts.

The assumptions on constants are the named ones of `WebServer`: requests are told
apart, hidden names are nobody else's (random, created exclusively), what is in the
directory at the start is version 1, sources carry no fingerprint of their own
and what is published is a regular file (`TemplateAssumption`: a `?v=` written by
hand stays in the page and is not the pipeline's; a symbolic link that a publication
replaces is not modelled, as a name is a link or is not, throughout), and the order of
the walk lists every name (`WalkOrderAssumption`).

Only model-checked:

* liveness (`WaitersServed`, `ClosedPoolDrains`, `CallReturns`, `AcceptedWritten`,
  `BroadcastEnds`, `ClosedConnEnds`, `RequestsAnswered`, `FormatAnswered`), which the
  prover does not do;
* `ReadsAsMeant` and `Settled` of `Editor`, `BoundAsChecked`, `ResultsHandled` and
  `RunsAsWritten` of `Build`: what the front end, `Checker`, `GoCode` and `Running`
  compute, recursive over trees, for every tree. In the modules that are proved about
  they are constants.

## 6. Not modelled

Runtime: authentication, TLS, row formats and type conversion of the drivers,
sqlite (in process, one session per connection); `spawn` inside a transaction,
which puts two goroutines on one driver connection; the bytes of WebSocket frames,
the rate window and the drop-oldest policy, which only tests select; the redis
broker's two connections; the document engine and its Rust part; Markdown to HTML,
minifying and compressing, which change no route and no reference; the rate
limiter and the router of generated programs; deployment, which depends on how
Caddy answers a stale ETag. Memory-level data races are not modelled anywhere.

Compiler: positions and wording of diagnostics, Go's text and types, structs and
enums as declarations, most of the library's table, linear statement text and SQL
placeholders in the checker, the C generator, which emits text from the same trees,
hover and completion, and the command line. `PROJECT.json` gives the reason for each
component.

## 7. Plan

Done and proved: `DBPool`, `DBTx`, `DBWire`, `WSHub`, `Loader` in `Build`, the
server in `Editor`, `WebSite` and `WebServer`. Done and checked: the front end,
`Checker`, `GoCode`, `Running`.

To model: the broker's connections (nodes, a broker replaced or disabled while its
subscriber reads, late replies; a message reaches each other node at most once),
and the document engine's slots and instances, a second implementation of a lease
table, with discards.
