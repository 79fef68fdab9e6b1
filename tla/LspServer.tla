------------------------------ MODULE LspServer ------------------------------
(***************************************************************************)
(* The language server (email-markup-lsp/src/server/server.cpp with        *)
(* documents/document_store.cpp and workspace/workspace.cpp) and the       *)
(* editor it talks to over two pipes (protocol/json_rpc.cpp).              *)
(*                                                                         *)
(* The server has one thread: it reads a message, changes its document     *)
(* store, compiles the documents the message concerns one after the other  *)
(* and publishes the diagnostics of each.  The editor and the disk go on   *)
(* meanwhile.  A compilation reads the document's text from the store and  *)
(* the other files from the disk: open buffers are not seen by it.         *)
(***************************************************************************)
EXTENDS SequencesExt

CONSTANTS
  Doc,          \* documents the editor may open
  File,         \* files on the disk that compilations read
  Inputs,       \* the files that the compilation of each document reads
  Char,
  Edits,        \* the contentChanges lists the editor sends
  None,
  MaxVersion, MaxRequests, MaxInbox, MaxOutbox, MaxDiskChanges

Text == Seq(Char)
\* A change without a range replaces the text; offset_at cuts a position behind
\* the end of the text off there.
Change == [range: {None} \cup (Nat \X Nat), text: Text]

ASSUME DocAssumption == IsFiniteSet(Doc)
ASSUME InputsAssumption == Inputs \in [Doc -> SUBSET File]
ASSUME EditsAssumption ==
  /\ Edits \subseteq Seq(Change)
  /\ \A e \in Edits : \A i \in DOMAIN e : e[i].range # None => e[i].range[1] <= e[i].range[2]
Buffer == [text: Text, version: Nat]
Report(d) == [text: Text, read: [Inputs[d] -> Nat]]
ASSUME NoneAssumption ==
  None \notin Doc \cup Nat \cup Buffer /\ \A d \in Doc : None \notin Report(d)
ASSUME BoundsAssumption ==
  MaxVersion \in Nat /\ MaxRequests \in Nat /\ MaxInbox \in Nat /\ MaxOutbox \in Nat
    /\ MaxDiskChanges \in Nat

VARIABLES
  \* the editor and the disk
  buffers,      \* the open buffers, each with its text and its version
  disk,         \* the number of times each file was written
  unseen,       \* a write that the file watcher has yet to report
  shown,        \* the diagnostics the editor shows for each document
  pending,      \* requests without a response
  cancelling,   \* those the editor has asked to cancel
  requests,     \* the number of requests made
  stopping,     \* "no", then "shutdown", then "exit"
  inbox,        \* messages to the server
  outbox,       \* messages to the editor
  \* the server
  documents,    \* DocumentStore::documents_
  cancelled,    \* Server::cancelled_
  work,         \* what the message in hand still has to compile and to send
  compiled,     \* the result of the compilation that has just run, or None
  shutdownRequested, exiting

editor == <<buffers, disk, unseen, shown, pending, cancelling, requests, stopping>>
server == <<documents, cancelled, work, compiled, shutdownRequested, exiting>>
vars == <<editor, inbox, outbox, server>>

Init ==
  /\ buffers = [d \in Doc |-> None]
  /\ disk = [f \in File |-> 0]
  /\ unseen = FALSE
  /\ shown = [d \in Doc |-> None]
  /\ pending = {} /\ cancelling = {} /\ requests = 0 /\ stopping = "no"
  /\ inbox = <<>> /\ outbox = <<>>
  /\ documents = [d \in Doc |-> None]
  /\ cancelled = {}
  /\ work = <<>> /\ compiled = None
  /\ shutdownRequested = FALSE /\ exiting = FALSE

-----------------------------------------------------------------------------
\* DocumentStore::apply_changes: each change applies to what the ones before it
\* made.
\* Mutant: only the last change of a notification is applied.
Splice(text, change) ==
  LET cut(n) == IF n < Len(text) THEN n ELSE Len(text)
  IN IF change.range = None THEN change.text
     ELSE SubSeq(text, 1, cut(change.range[1])) \o change.text
            \o SubSeq(text, cut(change.range[2]) + 1, Len(text))
EditedLastOnly(text, changes) == Splice(text, changes[Len(changes)])
Edited(text, changes) ==
  LET after[i \in 0..Len(changes)] ==
        IF i = 0 THEN text ELSE Splice(after[i - 1], changes[i])
  IN after[Len(changes)]

\* What a document compiles to: a function of its text and of the files read.
Compiled(d, text) == [text |-> text, read |-> [f \in Inputs[d] |-> disk[f]]]

\* The document store after a notification.
Stored(store, m) ==
  CASE m.method = "didOpen" ->
         [store EXCEPT ![m.doc] = [text |-> m.text, version |-> m.version]]
    [] m.method = "didChange" /\ store[m.doc] # None ->
         [store EXCEPT ![m.doc] = [text |-> Edited(@.text, m.changes), version |-> m.version]]
    [] m.method = "didClose" -> [store EXCEPT ![m.doc] = None]
    [] OTHER -> store

Publication(d, version, report) ==
  [method |-> "publishDiagnostics", doc |-> d, version |-> version, report |-> report]
Response(id, result) == [method |-> "response", id |-> id, result |-> result]
Task(kind, d, id, version) == [kind |-> kind, doc |-> d, id |-> id, version |-> version]

-----------------------------------------------------------------------------
\* A write to a full pipe blocks.
HasRoom == Len(outbox) < MaxOutbox
Idle == ~exiting /\ work = <<>> /\ HasRoom
Reads(methods) == Idle /\ inbox # <<>> /\ Head(inbox).method \in methods
Message == Head(inbox)
Consume == inbox' = Tail(inbox) /\ UNCHANGED editor

DidOpenOrChange ==
  /\ Reads({"didOpen", "didChange"})
  /\ Consume
  /\ documents' = Stored(documents, Message)
  /\ work' = IF documents'[Message.doc] = None THEN <<>>
             ELSE <<Task("publish", Message.doc, None, Message.version)>>
  /\ UNCHANGED <<outbox, cancelled, compiled, shutdownRequested, exiting>>

DidClose ==
  /\ Reads({"didClose"})
  /\ Consume
  /\ documents' = Stored(documents, Message)
  /\ outbox' = Append(outbox, Publication(Message.doc, None, None))
  /\ UNCHANGED <<cancelled, work, compiled, shutdownRequested, exiting>>

\* Every open document is compiled again, in the order of a hash table.
\* Mutant: none is.
DidChangeWatchedFilesIgnored ==
  /\ Reads({"didChangeWatchedFiles"})
  /\ Consume
  /\ UNCHANGED <<outbox, server>>
DidChangeWatchedFiles ==
  /\ Reads({"didChangeWatchedFiles"})
  /\ Consume
  /\ \E order \in SetToSeqs({d \in Doc : documents[d] # None}) :
       work' = [i \in DOMAIN order |->
                  Task("publish", order[i], None, documents[order[i]].version)]
  /\ UNCHANGED <<outbox, documents, cancelled, compiled, shutdownRequested, exiting>>

CancelRequest ==
  /\ Reads({"$/cancelRequest"})
  /\ Consume
  /\ cancelled' = cancelled \cup {Message.id}
  /\ UNCHANGED <<outbox, documents, work, compiled, shutdownRequested, exiting>>

\* A request whose id is in the set is not executed.  The requests about a
\* document answer from the store; one for a preview has to compile first.
\* Mutant: a preview of a document that is not open gets no response.
NotOpenSilently == UNCHANGED outbox
NotOpen == outbox' = Append(outbox, Response(Message.id, "Document is not open"))
Request ==
  /\ Reads({"feature", "preview"})
  /\ Consume
  /\ cancelled' = cancelled \ {Message.id}
  /\ IF Message.id \in cancelled
     THEN outbox' = Append(outbox, Response(Message.id, "Request cancelled")) /\ UNCHANGED work
     ELSE IF Message.method = "feature"
     THEN outbox' = Append(outbox, Response(Message.id, documents[Message.doc])) /\ UNCHANGED work
     ELSE IF documents[Message.doc] = None
     THEN NotOpen /\ UNCHANGED work
     ELSE /\ work' = <<Task("preview", Message.doc, Message.id, documents[Message.doc].version)>>
          /\ UNCHANGED outbox
  /\ UNCHANGED <<documents, compiled, shutdownRequested, exiting>>

Shutdown ==
  /\ Reads({"shutdown"})
  /\ Consume
  /\ shutdownRequested' = TRUE
  /\ outbox' = Append(outbox, Response(Message.id, "null"))
  /\ UNCHANGED <<documents, cancelled, work, compiled, exiting>>

Exit ==
  /\ Reads({"exit"})
  /\ Consume
  /\ exiting' = TRUE
  /\ UNCHANGED <<outbox, documents, cancelled, work, compiled, shutdownRequested>>

\* Workspace::compile reads the files, publish() and preview() send the result
\* unless the store holds another version by then.
Compile ==
  /\ work # <<>> /\ compiled = None
  /\ compiled' = Compiled(Head(work).doc, documents[Head(work).doc].text)
  /\ UNCHANGED <<editor, inbox, outbox, documents, cancelled, work, shutdownRequested, exiting>>

HasVersion(d, version) == documents[d] # None /\ documents[d].version = version

Sent ==
  LET task == Head(work)
      current == HasVersion(task.doc, task.version)
  IN IF task.kind = "publish"
     THEN IF current THEN Append(outbox, Publication(task.doc, task.version, compiled)) ELSE outbox
     ELSE Append(outbox, Response(task.id, IF current THEN compiled ELSE "Preview became stale"))
\* Mutant: the result is kept for the next document.
SendAndKeep ==
  /\ work # <<>> /\ compiled # None /\ HasRoom
  /\ outbox' = Sent /\ work' = Tail(work)
  /\ UNCHANGED <<editor, inbox, documents, cancelled, compiled, shutdownRequested, exiting>>
\* Mutant: a result is held back while a message waits to be read.
SendWhenNothingWaits ==
  /\ work # <<>> /\ compiled # None /\ HasRoom /\ inbox = <<>>
  /\ outbox' = Sent /\ work' = Tail(work) /\ compiled' = None
  /\ UNCHANGED <<editor, inbox, documents, cancelled, shutdownRequested, exiting>>
Send ==
  /\ work # <<>> /\ compiled # None /\ HasRoom
  /\ outbox' = Sent /\ work' = Tail(work) /\ compiled' = None
  /\ UNCHANGED <<editor, inbox, documents, cancelled, shutdownRequested, exiting>>

Serve ==
  \/ DidOpenOrChange \/ DidClose \/ DidChangeWatchedFiles \/ CancelRequest
  \/ Request \/ Shutdown \/ Exit \/ Compile \/ Send

-----------------------------------------------------------------------------
\* The editor numbers the versions of a buffer from 1 and the requests from 1;
\* 0 is its shutdown request.
Speaks == stopping = "no" /\ Len(inbox) < MaxInbox
Tell(m) == inbox' = Append(inbox, m) /\ UNCHANGED <<outbox, server>>

Open(d) ==
  /\ Speaks /\ buffers[d] = None
  /\ buffers' = [buffers EXCEPT ![d] = [text |-> <<>>, version |-> 1]]
  /\ Tell([method |-> "didOpen", doc |-> d, text |-> <<>>, version |-> 1])
  /\ UNCHANGED <<disk, unseen, shown, pending, cancelling, requests, stopping>>

\* What the user's changes make of the text, and what they are said to be.
Typed(text, changes) ==
  LET after[i \in 0..Len(changes)] ==
        IF i = 0 THEN text ELSE Splice(after[i - 1], changes[i])
  IN after[Len(changes)]
ChangeText(d, changes) ==
  /\ Speaks /\ buffers[d] # None /\ buffers[d].version < MaxVersion
  /\ buffers' = [buffers EXCEPT ![d].text = Typed(@, changes),
                                ![d].version = @ + 1]
  /\ Tell([method |-> "didChange", doc |-> d, changes |-> changes,
           version |-> buffers[d].version + 1])
  /\ UNCHANGED <<disk, unseen, shown, pending, cancelling, requests, stopping>>

Close(d) ==
  /\ Speaks /\ buffers[d] # None
  /\ buffers' = [buffers EXCEPT ![d] = None]
  /\ Tell([method |-> "didClose", doc |-> d])
  /\ UNCHANGED <<disk, unseen, shown, pending, cancelling, requests, stopping>>

\* A file is saved by the editor or written by another program; the watcher
\* tells the editor some time later.
Write(f) ==
  /\ disk[f] < MaxDiskChanges
  /\ disk' = [disk EXCEPT ![f] = @ + 1]
  /\ unseen' = TRUE
  /\ UNCHANGED <<buffers, shown, pending, cancelling, requests, stopping, inbox, outbox, server>>

Watch ==
  /\ Speaks /\ unseen
  /\ unseen' = FALSE
  /\ Tell([method |-> "didChangeWatchedFiles"])
  /\ UNCHANGED <<buffers, disk, shown, pending, cancelling, requests, stopping>>

Ask(method, d) ==
  /\ Speaks /\ requests < MaxRequests
  /\ requests' = requests + 1
  /\ pending' = pending \cup {requests'}
  /\ Tell([method |-> method, doc |-> d, id |-> requests'])
  /\ UNCHANGED <<buffers, disk, unseen, shown, cancelling, stopping>>

CancelAsked(id) ==
  /\ Speaks /\ id \in pending \ cancelling
  /\ cancelling' = cancelling \cup {id}
  /\ Tell([method |-> "$/cancelRequest", id |-> id])
  /\ UNCHANGED <<buffers, disk, unseen, shown, pending, requests, stopping>>

Stop ==
  \/ /\ Speaks
     /\ stopping' = "shutdown"
     /\ pending' = pending \cup {0}
     /\ Tell([method |-> "shutdown", id |-> 0])
     /\ UNCHANGED <<buffers, disk, unseen, shown, cancelling, requests>>
  \/ /\ stopping = "shutdown" /\ 0 \notin pending
     /\ stopping' = "exit"
     /\ Tell([method |-> "exit"])
     /\ UNCHANGED <<buffers, disk, unseen, shown, pending, cancelling, requests>>

Receive ==
  /\ outbox # <<>>
  /\ outbox' = Tail(outbox)
  /\ LET m == Head(outbox)
     IN IF m.method = "response"
        THEN pending' = pending \ {m.id} /\ cancelling' = cancelling \ {m.id} /\ UNCHANGED shown
        ELSE shown' = [shown EXCEPT ![m.doc] = m.report] /\ UNCHANGED <<pending, cancelling>>
  /\ UNCHANGED <<buffers, disk, unseen, requests, stopping, inbox, server>>

Edit ==
  \/ \E d \in Doc : Open(d) \/ Close(d) \/ \E changes \in Edits : ChangeText(d, changes)
  \/ \E f \in File : Write(f)
  \/ Watch
  \/ \E d \in Doc : \E method \in {"feature", "preview"} : Ask(method, d)
  \/ \E id \in pending : CancelAsked(id)
  \/ Stop

Next == Serve \/ Edit \/ Receive

Spec == Init /\ [][Next]_vars
\* The server's loop runs as long as there is something to read, and the editor
\* reads what the server sends.
FairSpec == Spec /\ WF_vars(Serve) /\ WF_vars(Receive)

-----------------------------------------------------------------------------
Id == 0..MaxRequests
ToServer ==
  [method: {"didOpen"}, doc: Doc, text: Text, version: Nat]
    \cup [method: {"didChange"}, doc: Doc, changes: Edits, version: Nat]
    \cup [method: {"didClose"}, doc: Doc]
    \cup [method: {"feature", "preview"}, doc: Doc, id: Id]
    \cup [method: {"$/cancelRequest", "shutdown"}, id: Id]
    \cup [method: {"didChangeWatchedFiles", "exit"}]
Tasks == [kind: {"publish", "preview"}, doc: Doc, id: Id \cup {None}, version: Nat]

\* The type invariant.
TypeOK ==
  /\ buffers \in [Doc -> Buffer \cup {None}] /\ documents \in [Doc -> Buffer \cup {None}]
  /\ disk \in [File -> 0..MaxDiskChanges] /\ unseen \in BOOLEAN
  /\ DOMAIN shown = Doc /\ \A d \in Doc : shown[d] \in Report(d) \cup {None}
  /\ pending \subseteq Id /\ cancelling \subseteq pending /\ cancelled \subseteq Id
  /\ requests \in Id /\ stopping \in {"no", "shutdown", "exit"}
  /\ inbox \in Seq(ToServer) /\ work \in Seq(Tasks)
  /\ \A i \in DOMAIN outbox :
       /\ outbox[i].method \in {"publishDiagnostics", "response"}
       /\ outbox[i].method = "publishDiagnostics" =>
            outbox[i].doc \in Doc /\ outbox[i].report \in Report(outbox[i].doc) \cup {None}
  /\ compiled # None => work # <<>> /\ compiled \in Report(Head(work).doc)
  /\ shutdownRequested \in BOOLEAN /\ exiting \in BOOLEAN

\* The store when the server has read the first i messages on their way.
After[i \in 0..Len(inbox)] ==
  IF i = 0 THEN documents ELSE Stored(After[i - 1], inbox[i])

\* What the server holds, brought up to date with the messages on their way, is
\* what the editor holds: each incremental edit is applied once, in order, to
\* the text it was made in (document_store.cpp:29-56).
StoreFollowsEditor == After[Len(inbox)] = buffers

Quiet == inbox = <<>> /\ outbox = <<>> /\ work = <<>> /\ ~unseen

\* When nothing is on its way, the diagnostics of every open document are those
\* of its present text and of the files as they are now, and a closed document
\* has none: no write and no edit slips between a compilation and its
\* publication (server.cpp:99-104, 206-224).
DiagnosticsCurrent ==
  Quiet =>
    \A d \in Doc :
      shown[d] = IF buffers[d] = None THEN None ELSE Compiled(d, buffers[d].text)

\* Where the request with this number is: on its way, in hand, or answered.
Asks(m, id) == m.method \in {"feature", "preview", "shutdown"} /\ m.id = id
Answers(m, id) == m.method = "response" /\ m.id = id
Places(id) ==
  {<<"inbox", i>> : i \in {i \in DOMAIN inbox : Asks(inbox[i], id)}}
    \cup {<<"work", i>> : i \in {i \in DOMAIN work : work[i].id = id}}
    \cup {<<"outbox", i>> : i \in {i \in DOMAIN outbox : Answers(outbox[i], id)}}
\* A request without a response is in exactly one place: on its way to the
\* server, in its hands, or answered; and no other response is on its way.
AnsweredOnce ==
  \A id \in Id :
    IF id \in pending THEN \E p \in Places(id) : Places(id) = {p} ELSE Places(id) = {}

\* Every request is answered, the shutdown request too.
RequestsAnswered == \A id \in Id : id \in pending ~> id \notin pending

=============================================================================
