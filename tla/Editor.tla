--------------------------------- MODULE Editor ---------------------------------
(* A program while it is written: the file on the disk, "liafc fmt" on it       *)
(* (cmd/liafc/fmt.go), the buffer of an editor and the language server          *)
(* (pkg/lsp), which handles every message in a goroutine of its own.            *)
EXTENDS Syntax

CONSTANTS
  Sources,        \* what an author writes: records [text, comments, meaning, printable]
  Reading,        \* the tree of a text, Nil when it does not parse (ParseModule)
  ServerReading,  \* the same for the server, which gives a module another name
  Printing,       \* the canonical text of a tree (ast.Format)
  Meaning,        \* what a text means
  Patient,        \* does the editor wait for what a message brings before the next one?
  MaxOpen         \* bound: messages the server handles at once

ASSUME PatientAssumption == Patient \in BOOLEAN
ASSUME MaxOpenAssumption == MaxOpen \in Nat \ {0}

VARIABLES
  source,    \* what the author means, and wrote
  disk,      \* the file: a document
  buffer,    \* the document open in the editor, or NoDoc
  docs,      \* the document the server has stored, or NoDoc
  handlers,  \* the goroutines of the server: [id, method, doc, pc]
  shown,     \* the diagnostics the editor shows: those of a document, or NoDoc
  answers    \* formatting requests answered and not yet taken: [doc], NoDoc for no edit

vars == <<source, disk, buffer, docs, handlers, shown, answers>>

(* A document: its text, its layout, where it has comments, and whether the     *)
(* author has finished it.                                                      *)
Document(text, comments) == [text |-> text, layout |-> "own", comments |-> comments, whole |-> TRUE]
NoDoc == Document(<<>>, "none")
HalfOf(text) == SubSeq(text, 1, Len(text) - 2)
Half(doc) == [doc EXCEPT !.text = HalfOf(@), !.whole = FALSE]

Canonical(doc, module) == [doc EXCEPT !.text = Printing[module], !.layout = "canonical", !.comments = "none"]

--------------------------------------------------------------------------------
(* liafc fmt                                                                    *)

(* With -w: a file that parses is replaced by its canonical text, unless it has *)
(* comments and the author did not say to drop them.                            *)
Fmt(mode) ==
  LET module == Reading[disk.text] IN
  /\ module # Nil
  /\ Canonical(disk, module) # disk
  /\ mode = "write" => disk.comments = "none"
  /\ disk' = Canonical(disk, module)
  /\ UNCHANGED <<source, buffer, docs, handlers, shown, answers>>

(* formatDocument: an S-expression is printed anew when it parses; lines of the *)
(* linear syntax only move; NoDoc for no answer.  A comment at the top hides    *)
(* the parenthesis.                                                             *)
FormatDocument(doc) ==
  LET module == ServerReading[doc.text]
  IN  CASE doc.text = <<>> -> NoDoc
        [] doc.text # <<>> /\ Head(doc.text) = Mark("(") /\ doc.comments # "top" ->
             IF module = Nil THEN NoDoc ELSE Canonical(doc, module)
        [] OTHER -> [doc EXCEPT !.layout = "indented"]

(* computeFormatting: an edit of the whole document, or none.                   *)
ComputeFormatting(doc) == IF FormatDocument(doc) = doc THEN NoDoc ELSE FormatDocument(doc)

--------------------------------------------------------------------------------
(* The server: a goroutine per message.                                         *)

Message(method, doc) == [method |-> method, doc |-> doc]
Serve(method, doc) ==
  \E id \in 1..MaxOpen :
    /\ \A h \in handlers : h.id < id
    /\ handlers' = handlers \cup {[id |-> id, method |-> method, doc |-> doc, pc |-> "start"]}

Advance(h, doc, pc) == handlers' = (handlers \ {h}) \cup {[h EXCEPT !.doc = doc, !.pc = pc]}
Finish(h) == handlers' = handlers \ {h}

(* Mutant: a change of a document that is stored already is not stored.         *)
StoreOnce(h) ==
  /\ h.method \in {"didOpen", "didChange", "didClose"}
  /\ h.pc = "start"
  /\ docs' = IF h.method = "didChange" /\ docs # NoDoc THEN docs ELSE h.doc
  /\ Advance(h, h.doc, "stored")
  /\ UNCHANGED <<source, disk, buffer, shown, answers>>

(* didOpen, didChange, didClose: under docsMu.                                  *)
Store(h) ==
  /\ h.method \in {"didOpen", "didChange", "didClose"}
  /\ h.pc = "start"
  /\ docs' = h.doc
  /\ Advance(h, h.doc, "stored")
  /\ UNCHANGED <<source, disk, buffer, shown, answers>>

(* The diagnostics of the text the handler was given, under outMu only.         *)
Publish(h) ==
  /\ h.pc = "stored"
  /\ shown' = h.doc
  /\ Finish(h)
  /\ UNCHANGED <<source, disk, buffer, docs, answers>>

(* Mutant: the file is formatted instead of the text the editor sent.           *)
ReadFile(h) ==
  /\ h.method = "formatting"
  /\ h.pc = "start"
  /\ Advance(h, disk, "read")
  /\ UNCHANGED <<source, disk, buffer, docs, shown, answers>>

(* formatting: the stored text, under docsMu's read lock.                       *)
ReadDoc(h) ==
  /\ h.method = "formatting"
  /\ h.pc = "start"
  /\ Advance(h, docs, "read")
  /\ UNCHANGED <<source, disk, buffer, docs, shown, answers>>

(* Mutant: a document that does not parse has no answer.                        *)
RespondToGood(h) ==
  /\ h.pc = "read"
  /\ Reading[h.doc.text] # Nil
  /\ answers' = Append(answers, ComputeFormatting(h.doc))
  /\ Finish(h)
  /\ UNCHANGED <<source, disk, buffer, docs, shown>>

Respond(h) ==
  /\ h.pc = "read"
  /\ answers' = Append(answers, ComputeFormatting(h.doc))
  /\ Finish(h)
  /\ UNCHANGED <<source, disk, buffer, docs, shown>>

HandlerStep(h) == Store(h) \/ Publish(h) \/ ReadDoc(h) \/ Respond(h)

--------------------------------------------------------------------------------
(* The author and the editor.                                                   *)

May == Patient => handlers = {} /\ answers = <<>>

OpenFile ==
  /\ May /\ buffer = NoDoc
  /\ buffer' = disk
  /\ Serve("didOpen", disk)
  /\ UNCHANGED <<source, disk, docs, shown, answers>>

Change(doc) ==
  /\ buffer' = doc
  /\ Serve("didChange", doc)

(* The last lines are taken away, or written again.                             *)
Retype ==
  /\ May /\ buffer # NoDoc
  /\ Change(IF ~buffer.whole THEN Document(source.text, source.comments)
            ELSE Half(buffer))
  /\ UNCHANGED <<source, disk, docs, shown, answers>>

AskFormat ==
  /\ May /\ buffer # NoDoc
  /\ Serve("formatting", NoDoc)
  /\ UNCHANGED <<source, disk, buffer, docs, shown, answers>>

(* The edit takes the place of the whole buffer.                                *)
Apply ==
  /\ answers # <<>>
  /\ answers' = Tail(answers)
  /\ IF Head(answers) = NoDoc \/ buffer = NoDoc THEN UNCHANGED <<buffer, handlers>> ELSE Change(Head(answers))
  /\ UNCHANGED <<source, disk, docs, shown>>

Save ==
  /\ buffer # NoDoc /\ buffer # disk
  /\ disk' = buffer
  /\ UNCHANGED <<source, buffer, docs, handlers, shown, answers>>

Close ==
  /\ May /\ buffer # NoDoc
  /\ buffer' = NoDoc
  /\ Serve("didClose", NoDoc)
  /\ UNCHANGED <<source, disk, docs, shown, answers>>

Init ==
  /\ source \in Sources
  /\ disk = Document(source.text, source.comments)
  /\ buffer = NoDoc /\ docs = NoDoc /\ handlers = {} /\ shown = NoDoc /\ answers = <<>>

Next ==
  \/ \E mode \in {"write", "drop"} : Fmt(mode)
  \/ \E h \in handlers : Store(h)
  \/ \E h \in handlers : Publish(h)
  \/ \E h \in handlers : ReadDoc(h)
  \/ \E h \in handlers : Respond(h)
  \/ OpenFile \/ Retype \/ AskFormat \/ Apply \/ Save \/ Close

Spec == Init /\ [][Next]_vars
(* Goroutines run, and the editor takes the answers it is given.                *)
FairSpec == Spec /\ WF_vars(\E h \in handlers : HandlerStep(h)) /\ WF_vars(Apply)

--------------------------------------------------------------------------------
(* Properties.                                                                  *)

(* A file and a buffer read as what their author meant, written by hand in      *)
(* either syntax, or, for a printable program, formatted by the command or by   *)
(* the server; a program that is not finished does not parse (ParseModule,      *)
(* parseLinearModule, ast.Format).                                              *)
ReadsAsMeant ==
  \A doc \in {disk, buffer} \ {NoDoc} :
    IF ~doc.whole THEN Reading[doc.text] = Nil
    ELSE doc.layout # "canonical" \/ source.printable => Meaning[doc.text] = source.meaning

(* The canonical text of a printable program is printed again as it is: fmt     *)
(* does not swing between two texts.                                            *)
Settled ==
  \A doc \in {disk, buffer} :
    doc.layout = "canonical" /\ doc.whole /\ source.printable =>
      Reading[doc.text] # Nil /\ Printing[Reading[doc.text]] = doc.text

(* Once the server has nothing in hand, what it has stored is what the editor   *)
(* shows, and the diagnostics are those of that text (server.go: the text is    *)
(* stored before its diagnostics are published).                                *)
QuietAgrees == handlers = {} => docs = buffer /\ shown = buffer

(* Every formatting request is answered (server.go, handleRequest).             *)
Asked == \E h \in handlers : h.method = "formatting"
FormatAnswered == Asked ~> ~Asked

(* An edit of the server never takes back what the author has typed since: it   *)
(* is of the text the editor shows.                                             *)
EditIsOfBuffer ==
  [][Apply /\ buffer' # buffer => buffer'.whole = buffer.whole]_vars

(* What liafc fmt prints says what the author wrote, for every program          *)
(* (codegen_v04_test.go: "sem perder informacao").                              *)
FormatLosesNothing == disk.layout = "canonical" => Meaning[disk.text] = source.meaning
================================================================================
