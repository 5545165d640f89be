------------------------------ MODULE EditorProofs ------------------------------
(* Proofs about Editor for an editor that waits (Patient), whatever the         *)
(* programs, the parser and the printer are.                                    *)
EXTENDS Editor, TLAPS

IsDoc(d) ==
  \E Texts, Layouts, Comments, Wholes :
    d \in [text : Texts, layout : Layouts, comments : Comments, whole : Wholes]
Notifications == {"didOpen", "didChange", "didClose"}

(* What a handler has in hand, by the message it was started for.               *)
Notifying(h) ==
  /\ h.doc = buffer
  /\ h.pc = "start" \/ (h.pc = "stored" /\ docs = buffer)
Formatting(h) ==
  /\ docs = buffer /\ shown = buffer
  /\ h.pc = "start" \/ (h.pc = "read" /\ h.doc = buffer)
InHand(h) ==
  \/ h.method \in Notifications /\ Notifying(h)
  \/ h.method = "formatting" /\ Formatting(h)
IsHandler(h) ==
  \E Ids, Methods, Docs, Steps :
    h \in [id : Ids, method : Methods, doc : Docs, pc : Steps]

(* One message at a time: nothing is under way, or one handler, or one answer,  *)
(* which is of the text the editor shows.                                       *)
DocsInv == IsDoc(disk) /\ IsDoc(buffer)
OneInv ==
  \/ handlers = {} /\ answers \in {<<>>, <<ComputeFormatting(buffer)>>}
  \/ answers = <<>> /\ \E h : handlers = {h} /\ IsHandler(h) /\ InHand(h)
IInv == DocsInv /\ OneInv /\ QuietAgrees

--------------------------------------------------------------------------------

(* Documents stay documents, and formatting does not change whether one is      *)
(* whole.                                                                       *)
LEMMA DocDoc == ASSUME NEW t, NEW c PROVE IsDoc(Document(t, c))
<1>1. Document(t, c) \in [text : {t}, layout : {"own"}, comments : {c}, whole : BOOLEAN]
  BY DEF Document
<1>2. QED
  BY <1>1 DEF IsDoc

LEMMA CanonicalDoc ==
  ASSUME NEW d, IsDoc(d), NEW m
  PROVE  IsDoc(Canonical(d, m)) /\ Canonical(d, m).whole = d.whole
<1>1. PICK T, L, C, W : d \in [text : T, layout : L, comments : C, whole : W]
  BY DEF IsDoc
<1>2. /\ Canonical(d, m) \in [text : {Printing[m]}, layout : {"canonical"}, comments : {"none"}, whole : W]
      /\ Canonical(d, m).whole = d.whole
  BY <1>1 DEF Canonical
<1>3. QED
  BY <1>2 DEF IsDoc

LEMMA HalfDoc == ASSUME NEW d, IsDoc(d) PROVE IsDoc(Half(d))
<1>1. PICK T, L, C, W : d \in [text : T, layout : L, comments : C, whole : W]
  BY DEF IsDoc
<1>2. Half(d) \in [text : {HalfOf(d.text)}, layout : L, comments : C, whole : {FALSE}]
  BY <1>1 DEF Half
<1>3. QED
  BY <1>2 DEF IsDoc

LEMMA IndentedDoc ==
  ASSUME NEW d, IsDoc(d)
  PROVE  IsDoc([d EXCEPT !.layout = "indented"]) /\ [d EXCEPT !.layout = "indented"].whole = d.whole
<1>1. PICK T, L, C, W : d \in [text : T, layout : L, comments : C, whole : W]
  BY DEF IsDoc
<1>2. /\ [d EXCEPT !.layout = "indented"] \in [text : T, layout : {"indented"}, comments : C, whole : W]
      /\ [d EXCEPT !.layout = "indented"].whole = d.whole
  BY <1>1
<1>3. QED
  BY <1>2 DEF IsDoc

LEMMA FormatDoc ==
  ASSUME NEW d, IsDoc(d)
  PROVE  /\ IsDoc(FormatDocument(d))
         /\ FormatDocument(d) # NoDoc => FormatDocument(d).whole = d.whole
<1>1. IsDoc(NoDoc)
  BY DocDoc DEF NoDoc
<1>2. FormatDocument(d) \in {NoDoc, Canonical(d, ServerReading[d.text]), [d EXCEPT !.layout = "indented"]}
  BY DEF FormatDocument
<1>3. QED
  BY <1>1, <1>2, CanonicalDoc, IndentedDoc

LEMMA ComputedDoc ==
  ASSUME NEW d, IsDoc(d)
  PROVE  /\ IsDoc(ComputeFormatting(d))
         /\ ComputeFormatting(d) # NoDoc => ComputeFormatting(d).whole = d.whole
<1>1. IsDoc(NoDoc)
  BY DocDoc DEF NoDoc
<1>2. QED
  BY <1>1, FormatDoc DEF ComputeFormatting

--------------------------------------------------------------------------------

(* With nothing under way a message has the one handler.                        *)
LEMMA ServeOne ==
  ASSUME handlers = {}, NEW method, NEW doc, Serve(method, doc)
  PROVE  \E g : /\ handlers' = {g} /\ IsHandler(g)
                /\ g.method = method /\ g.doc = doc /\ g.pc = "start"
<1>1. PICK id : handlers' = {[id |-> id, method |-> method, doc |-> doc, pc |-> "start"]}
  BY DEF Serve
<1> DEFINE g == [id |-> id, method |-> method, doc |-> doc, pc |-> "start"]
<1>2. g \in [id : {id}, method : {method}, doc : {doc}, pc : {"start"}]
  OBVIOUS
<1>3. IsHandler(g)
  BY <1>2 DEF IsHandler
<1>4. QED
  BY <1>1, <1>3

(* So a notification of the document the buffer now holds leaves one handler    *)
(* with that document in hand.                                                  *)
LEMMA NotifyOne ==
  ASSUME handlers = {}, NEW method \in Notifications, Serve(method, buffer'),
         answers' = <<>>, IsDoc(disk)', IsDoc(buffer)'
  PROVE  IInv'
<1>1. PICK g : /\ handlers' = {g} /\ IsHandler(g)
               /\ g.method = method /\ g.doc = buffer' /\ g.pc = "start"
  BY ServeOne
<1>2. InHand(g)'
  BY <1>1 DEF InHand, Notifying
<1>3. OneInv'
  BY <1>1, <1>2 DEF OneInv, IsHandler
<1>4. QuietAgrees'
  BY <1>1 DEF QuietAgrees
<1>5. QED
  BY <1>3, <1>4 DEF IInv, DocsInv

(* Initially nothing is under way.                                              *)
LEMMA InitInv == Init => IInv
BY DocDoc DEF Init, IInv, DocsInv, OneInv, QuietAgrees, NoDoc

(* A handler under way is the only one, and no answer waits.                    *)
LEMMA OnlyHandler ==
  ASSUME IInv, NEW h \in handlers
  PROVE  handlers = {h} /\ answers = <<>> /\ IsHandler(h) /\ InHand(h)
BY DEF IInv, OneInv

(* Where a handler has gone one step further.                                   *)
LEMMA AdvanceOne ==
  ASSUME NEW h, handlers = {h}, IsHandler(h), NEW doc, NEW pc, Advance(h, doc, pc)
  PROVE  \E g : /\ handlers' = {g} /\ IsHandler(g)
                /\ g.method = h.method /\ g.doc = doc /\ g.pc = pc
<1>1. PICK I, M, D, P : h \in [id : I, method : M, doc : D, pc : P]
  BY DEF IsHandler
<1> DEFINE g == [h EXCEPT !.doc = doc, !.pc = pc]
<1>2. handlers' = {g}
  BY DEF Advance
<1>3. g \in [id : I, method : M, doc : {doc}, pc : {pc}]
  BY <1>1
<1>4. g.method = h.method /\ g.doc = doc /\ g.pc = pc
  BY <1>1
<1>5. QED
  BY <1>2, <1>3, <1>4 DEF IsHandler

--------------------------------------------------------------------------------

(* The invariant is preserved by an editor that waits: one lemma for the steps  *)
(* of the server, one for those of the author and the command.                  *)
LEMMA ServerSteps ==
  ASSUME IInv, NEW h \in handlers, HandlerStep(h)
  PROVE  IInv'
<1>1. /\ handlers = {h} /\ answers = <<>> /\ IsHandler(h) /\ InHand(h)
      /\ IsDoc(disk) /\ IsDoc(buffer)
  BY OnlyHandler DEF IInv, DocsInv
<1>2. CASE Store(h)
  <2>1. h.doc = buffer /\ h.method \in Notifications /\ docs' = buffer
    BY <1>1, <1>2 DEF Store, InHand, Notifying, Notifications
  <2>2. PICK g : /\ handlers' = {g} /\ IsHandler(g)
                 /\ g.method = h.method /\ g.doc = h.doc /\ g.pc = "stored"
    BY <1>1, <1>2, AdvanceOne DEF Store
  <2>3. UNCHANGED <<disk, buffer, answers>>
    BY <1>2 DEF Store
  <2>4. InHand(g)'
    BY <2>1, <2>2, <2>3 DEF InHand, Notifying
  <2>5. OneInv'
    BY <1>1, <2>2, <2>3, <2>4 DEF OneInv, IsHandler
  <2>6. QuietAgrees'
    BY <2>2 DEF QuietAgrees
  <2>7. QED
    BY <1>1, <2>3, <2>5, <2>6 DEF IInv, DocsInv, IsDoc
<1>3. CASE Publish(h)
  <2>1. h.doc = buffer /\ docs = buffer
    BY <1>1, <1>3 DEF Publish, InHand, Notifying, Formatting
  <2>2. /\ handlers' = {} /\ shown' = buffer
        /\ UNCHANGED <<disk, buffer, docs, answers>>
    BY <1>1, <1>3, <2>1 DEF Publish, Finish
  <2>3. OneInv' /\ QuietAgrees'
    BY <1>1, <2>1, <2>2 DEF OneInv, QuietAgrees
  <2>4. QED
    BY <1>1, <2>2, <2>3 DEF IInv, DocsInv, IsDoc
<1>4. CASE ReadDoc(h)
  <2>1. docs = buffer /\ shown = buffer /\ h.method = "formatting"
    BY <1>1, <1>4 DEF ReadDoc, InHand, Formatting, Notifications
  <2>2. PICK g : /\ handlers' = {g} /\ IsHandler(g)
                 /\ g.method = h.method /\ g.doc = docs /\ g.pc = "read"
    BY <1>1, <1>4, AdvanceOne DEF ReadDoc
  <2>3. UNCHANGED <<disk, buffer, docs, shown, answers>>
    BY <1>4 DEF ReadDoc
  <2>4. InHand(g)'
    BY <2>1, <2>2, <2>3 DEF InHand, Formatting
  <2>5. OneInv'
    BY <1>1, <2>2, <2>3, <2>4 DEF OneInv, IsHandler
  <2>6. QuietAgrees'
    BY <2>2 DEF QuietAgrees
  <2>7. QED
    BY <1>1, <2>3, <2>5, <2>6 DEF IInv, DocsInv, IsDoc
<1>5. CASE Respond(h)
  <2>1. docs = buffer /\ shown = buffer /\ h.doc = buffer
    BY <1>1, <1>5 DEF Respond, InHand, Notifying, Formatting
  <2>2. /\ handlers' = {} /\ answers' = <<ComputeFormatting(buffer)>>
        /\ UNCHANGED <<disk, buffer, docs, shown>>
    <3>1. answers' = Append(<<>>, ComputeFormatting(buffer))
      BY <1>1, <1>5, <2>1 DEF Respond
    <3>2. QED
      BY <1>1, <1>5, <3>1 DEF Respond, Finish
  <2>3. ComputeFormatting(buffer)' = ComputeFormatting(buffer)
    BY <2>2 DEF ComputeFormatting, FormatDocument, Canonical, NoDoc
  <2>4. OneInv' /\ QuietAgrees'
    BY <2>1, <2>2, <2>3 DEF OneInv, QuietAgrees
  <2>5. QED
    BY <1>1, <2>2, <2>4 DEF IInv, DocsInv, IsDoc
<1>6. QED
  BY <1>2, <1>3, <1>4, <1>5 DEF HandlerStep

(* A step that leaves the editor and the server alone, but not the file.        *)
LEMMA FileSteps ==
  ASSUME IInv, IsDoc(disk)', UNCHANGED <<buffer, docs, handlers, shown, answers>>
  PROVE  IInv'
<1>1. ComputeFormatting(buffer)' = ComputeFormatting(buffer)
  BY DEF ComputeFormatting, FormatDocument, Canonical, NoDoc
<1>2. \A h : InHand(h)' <=> InHand(h)
  BY DEF InHand, Notifying, Formatting
<1>3. OneInv'
  BY <1>1, <1>2 DEF IInv, OneInv, IsHandler
<1>4. QED
  BY <1>3 DEF IInv, DocsInv, QuietAgrees, IsDoc

(* A patient editor acts when nothing is under way.                             *)
LEMMA AuthorSteps ==
  ASSUME Patient, IInv, OpenFile \/ Retype \/ AskFormat \/ Close
  PROVE  IInv'
<1>1. handlers = {} /\ answers = <<>> /\ docs = buffer /\ shown = buffer
  BY DEF OpenFile, Retype, AskFormat, Close, May, IInv, QuietAgrees
<1>2. IsDoc(disk) /\ IsDoc(buffer) /\ UNCHANGED <<disk, answers>>
  BY DEF OpenFile, Retype, AskFormat, Close, IInv, DocsInv
<1>3. IsDoc(disk)' /\ answers' = <<>>
  BY <1>1, <1>2 DEF IsDoc
<1>4. CASE OpenFile
  <2>1. buffer' = disk /\ Serve("didOpen", buffer')
    BY <1>4 DEF OpenFile
  <2>2. IsDoc(buffer)'
    BY <1>2, <2>1 DEF IsDoc
  <2>3. QED
    BY <1>1, <1>3, <2>1, <2>2, NotifyOne DEF Notifications
<1>5. CASE Retype
  <2>1. /\ buffer' \in {Document(source.text, source.comments), Half(buffer)}
        /\ Serve("didChange", buffer')
    BY <1>5 DEF Retype, Change
  <2>2. IsDoc(buffer')
    BY <1>2, <2>1, DocDoc, HalfDoc
  <2>3. IsDoc(buffer)'
    BY <2>2 DEF IsDoc
  <2>4. QED
    BY <1>1, <1>3, <2>1, <2>3, NotifyOne DEF Notifications
<1>6. CASE AskFormat
  <2>1. UNCHANGED <<buffer, docs, shown>> /\ Serve("formatting", NoDoc)
    BY <1>6 DEF AskFormat
  <2>2. PICK g : /\ handlers' = {g} /\ IsHandler(g)
                 /\ g.method = "formatting" /\ g.doc = NoDoc /\ g.pc = "start"
    BY <1>1, <2>1, ServeOne
  <2>3. InHand(g)'
    BY <1>1, <2>1, <2>2 DEF InHand, Formatting
  <2>4. OneInv' /\ QuietAgrees'
    BY <1>3, <2>2, <2>3 DEF OneInv, IsHandler, QuietAgrees
  <2>5. QED
    BY <1>2, <1>3, <2>1, <2>4 DEF IInv, DocsInv, IsDoc
<1>7. CASE Close
  <2>1. buffer' = NoDoc /\ Serve("didClose", buffer')
    BY <1>7 DEF Close
  <2>2. IsDoc(buffer')
    BY <2>1, DocDoc DEF NoDoc
  <2>3. IsDoc(buffer)'
    BY <2>2 DEF IsDoc
  <2>4. QED
    BY <1>1, <1>3, <2>1, <2>3, NotifyOne DEF Notifications
<1>8. QED
  BY <1>4, <1>5, <1>6, <1>7

(* What an answer that is taken finds: the buffer it was computed from.         *)
LEMMA Taken ==
  ASSUME IInv, Apply
  PROVE  /\ handlers = {} /\ docs = buffer /\ shown = buffer
         /\ Head(answers) = ComputeFormatting(buffer) /\ answers' = <<>>
<1>1. handlers = {} /\ answers = <<ComputeFormatting(buffer)>>
  BY DEF IInv, OneInv, Apply
<1>2. Head(answers) = ComputeFormatting(buffer) /\ Tail(answers) = <<>>
  BY <1>1
<1>3. QED
  BY <1>1, <1>2 DEF IInv, QuietAgrees, Apply

LEMMA ApplyStep == ASSUME IInv, Apply PROVE IInv'
<1>1. /\ handlers = {} /\ docs = buffer /\ shown = buffer
      /\ Head(answers) = ComputeFormatting(buffer) /\ answers' = <<>>
  BY Taken
<1>2. IsDoc(disk) /\ IsDoc(buffer) /\ UNCHANGED <<disk, docs, shown>>
  BY DEF Apply, IInv, DocsInv
<1>3. IsDoc(disk)'
  BY <1>2 DEF IsDoc
<1>4. CASE UNCHANGED <<buffer, handlers>>
  <2>1. OneInv' /\ QuietAgrees'
    BY <1>1, <1>2, <1>4 DEF OneInv, QuietAgrees
  <2>2. QED
    BY <1>2, <1>3, <1>4, <2>1 DEF IInv, DocsInv, IsDoc
<1>5. CASE Change(Head(answers))
  <2>1. buffer' = ComputeFormatting(buffer) /\ Serve("didChange", buffer')
    BY <1>1, <1>5 DEF Change
  <2>2. IsDoc(buffer')
    BY <1>2, <2>1, ComputedDoc
  <2>3. IsDoc(buffer)'
    BY <2>2 DEF IsDoc
  <2>4. QED
    BY <1>1, <1>3, <2>1, <2>3, NotifyOne DEF Notifications
<1>6. QED
  BY <1>4, <1>5 DEF Apply

LEMMA Inductive == ASSUME Patient PROVE IInv /\ [Next]_vars => IInv'
<1> SUFFICES ASSUME IInv, [Next]_vars PROVE IInv'
  OBVIOUS
<1>1. IsDoc(disk) /\ IsDoc(buffer)
  BY DEF IInv, DocsInv
<1>2. ASSUME NEW mode \in {"write", "drop"}, Fmt(mode) PROVE IInv'
  <2>1. disk' = Canonical(disk, Reading[disk.text]) /\ UNCHANGED <<buffer, docs, handlers, shown, answers>>
    BY <1>2 DEF Fmt
  <2>2. IsDoc(disk')
    BY <1>1, <2>1, CanonicalDoc
  <2>3. QED
    BY <2>1, <2>2, FileSteps DEF IsDoc
<1>3. ASSUME NEW h \in handlers, HandlerStep(h) PROVE IInv'
  BY <1>3, ServerSteps
<1>4. CASE Save
  <2>1. IsDoc(disk)'
    BY <1>1, <1>4 DEF Save, IsDoc
  <2>2. QED
    BY <1>4, <2>1, FileSteps DEF Save
<1>5. CASE UNCHANGED vars
  BY <1>1, <1>5, FileSteps DEF vars, IsDoc
<1>6. CASE OpenFile \/ Retype \/ AskFormat \/ Close
  BY <1>6, AuthorSteps
<1>7. CASE Apply
  BY <1>7, ApplyStep
<1>8. QED
  BY <1>2, <1>3, <1>4, <1>5, <1>6, <1>7 DEF Next, HandlerStep

--------------------------------------------------------------------------------

(* With an editor that waits, once the server has nothing in hand what it has   *)
(* stored and what it has shown are the text of the editor (server.go).         *)
THEOREM QuietTheorem == ASSUME Patient PROVE Spec => []QuietAgrees
<1>1. IInv => QuietAgrees
  BY DEF IInv
<1>2. IInv /\ [Next]_vars => IInv'
  BY Inductive
<1>3. QED
  BY <1>1, <1>2, InitInv, PTL DEF Spec

(* With an editor that waits, an edit of the server never takes back what the   *)
(* author has typed: it is of the text the editor shows (server.go).            *)
THEOREM EditTheorem == ASSUME Patient PROVE Spec => EditIsOfBuffer
<1>1. ASSUME IInv, Apply, buffer' # buffer PROVE buffer'.whole = buffer.whole
  <2>1. IsDoc(buffer) /\ Head(answers) = ComputeFormatting(buffer)
    BY <1>1, Taken DEF IInv, DocsInv
  <2>2. Head(answers) # NoDoc /\ buffer' = Head(answers)
    BY <1>1 DEF Apply, Change
  <2>3. QED
    BY <2>1, <2>2, ComputedDoc
<1>2. IInv /\ [Next]_vars => [Apply /\ buffer' # buffer => buffer'.whole = buffer.whole]_vars
  BY <1>1
<1>3. IInv /\ [Next]_vars => IInv'
  BY Inductive
<1>4. QED
  BY <1>2, <1>3, InitInv, PTL DEF Spec, EditIsOfBuffer
================================================================================
