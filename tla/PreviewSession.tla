--------------------------- MODULE PreviewSession ---------------------------
(***************************************************************************)
(* The preview of the VS Code extension (extensions/vscode/src/            *)
(* extension.ts:16-205): the module variables of the extension, the        *)
(* callbacks that change them, and the refreshPreview calls that wait for  *)
(* a response of the language server.                                      *)
(*                                                                         *)
(* The extension host runs one callback at a time; a callback that awaits  *)
(* goes on later, when others have run.  The server answers in order, from *)
(* the version of the document that the client had sent it before the      *)
(* request.                                                                *)
(***************************************************************************)
EXTENDS Integers, SequencesExt

CONSTANTS
  Doc,
  Data,         \* the objects entered as preview data
  Compiles,     \* the versions of each document that compile without an error
  None,         \* no document, no panel, no data: undefined
  MaxVersion, MaxRequests

ASSUME CompilesAssumption == Compiles \in [Doc -> SUBSET (1..MaxVersion)]
ASSUME BoundsAssumption == MaxVersion \in Nat \ {0} /\ MaxRequests \in Nat

VARIABLES
  version,        \* the version of each open document, 0 for a closed one
  prompt,         \* the document object for which the user is asked for data
  previewUri, previewData, previewRequest,
  previewRefreshTimer,   \* the document object of the pending timer
  panel,          \* the panel: what it was last given, and remoteImagesEnabled
  calls,          \* the refreshPreview calls that wait, in the order made
  forClosed       \* history: the last refresh was for a document object that was closed

vars == <<version, prompt, previewUri, previewData, previewRequest,
          previewRefreshTimer, panel, calls, forClosed>>

\* A vscode.TextDocument.  One that was closed keeps the version it had then (0
\* for one that is open), also when the file is opened again as a new object.
Object == [doc: Doc, closedAt: 0..MaxVersion]
ASSUME NoneAssumption == None \notin Doc \cup Data \cup Object
OpenObject(d) == [doc |-> d, closedAt |-> 0]
VersionOf(object) == IF object.closedAt = 0 THEN version[object.doc] ELSE object.closedAt
AfterClosing(d, object) ==
  IF object # None /\ object = OpenObject(d) THEN [object EXCEPT !.closedAt = version[d]] ELSE object

Init ==
  /\ version = [d \in Doc |-> 1]
  /\ prompt = None
  /\ previewUri = None /\ previewData = None /\ previewRequest = 0
  /\ previewRefreshTimer = None
  /\ panel = None
  /\ calls = <<>> /\ forClosed = FALSE

-----------------------------------------------------------------------------
\* refreshPreview up to its await.  A request about a file that is closed by
\* then has no version to answer from.
\* Mutant: the calls are numbered downwards.
Call(request, object, data) ==
  [request |-> request, object |-> object, data |-> data, version |-> version[object.doc]]
RequestedDown(object, data) ==
  /\ previewRequest' = previewRequest - 1
  /\ calls' = Append(calls, Call(previewRequest', object, data))
  /\ forClosed' = (object.closedAt > 0)
Requested(object, data) ==
  /\ previewRequest' = previewRequest + 1
  /\ calls' = Append(calls, Call(previewRequest', object, data))
  /\ forClosed' = (object.closedAt > 0)

Attach(object, data) ==
  /\ previewRequest < MaxRequests
  /\ previewUri' = object.doc /\ previewData' = data
  /\ Requested(object, data)
  /\ UNCHANGED <<version, previewRefreshTimer, panel>>

\* The command "preview", and "previewWithData", which asks for the data first
\* and remembers the active editor's document meanwhile.
Preview(d) ==
  /\ version[d] > 0 /\ Attach(OpenObject(d), None) /\ UNCHANGED prompt
PreviewWithData(d) ==
  /\ version[d] > 0 /\ prompt = None
  /\ prompt' = OpenObject(d)
  /\ UNCHANGED <<version, previewUri, previewData, previewRequest, previewRefreshTimer,
                 panel, calls, forClosed>>
Enter(data) ==
  /\ prompt # None /\ Attach(prompt, data) /\ prompt' = None
Dismiss ==
  /\ prompt # None
  /\ prompt' = None
  /\ UNCHANGED <<version, previewUri, previewData, previewRequest, previewRefreshTimer,
                 panel, calls, forClosed>>

\* onDidChangeTextDocument: with a panel, a change of its document restarts the
\* timer.
\* Mutant: the timer is stopped and not started again.
NotRestarted(d) == None
Restarted(d) == OpenObject(d)
Edit(d) ==
  /\ version[d] > 0 /\ version[d] < MaxVersion
  /\ version' = [version EXCEPT ![d] = @ + 1]
  /\ previewRefreshTimer' =
       IF panel # None /\ d = previewUri THEN Restarted(d) ELSE previewRefreshTimer
  /\ UNCHANGED <<prompt, previewUri, previewData, previewRequest, panel, calls, forClosed>>

TimerFires ==
  /\ previewRefreshTimer # None
  /\ previewRefreshTimer' = None
  /\ IF previewUri = previewRefreshTimer.doc
     THEN Requested(previewRefreshTimer, previewData)
     ELSE UNCHANGED <<previewRequest, calls, forClosed>>
  /\ UNCHANGED <<version, prompt, previewUri, previewData, panel>>

\* clearPreviewSession, also when the panel is disposed of.
Clear ==
  /\ previewRefreshTimer' = None
  /\ previewUri' = None /\ previewData' = None
  /\ previewRequest' = previewRequest + 1

DisposePanel ==
  /\ panel # None
  /\ panel' = None
  /\ Clear
  /\ UNCHANGED <<version, prompt, calls, forClosed>>

CloseDocument(d) ==
  /\ version[d] > 0
  /\ version' = [version EXCEPT ![d] = 0]
  /\ prompt' = AfterClosing(d, prompt)
  /\ IF d = previewUri
     THEN panel' = None /\ Clear
     ELSE /\ previewRefreshTimer' = AfterClosing(d, previewRefreshTimer)
          /\ UNCHANGED <<panel, previewUri, previewData, previewRequest>>
  /\ UNCHANGED <<calls, forClosed>>

OpenDocument(d) ==
  /\ version[d] = 0
  /\ version' = [version EXCEPT ![d] = 1]
  /\ UNCHANGED <<prompt, previewUri, previewData, previewRequest, previewRefreshTimer,
                 panel, calls, forClosed>>

LoadRemoteImages ==
  /\ panel # None /\ ~panel.images
  /\ panel' = [panel EXCEPT !.images = TRUE]
  /\ UNCHANGED <<version, prompt, previewUri, previewData, previewRequest,
                 previewRefreshTimer, calls, forClosed>>

\* refreshPreview after its await.  A call that was overtaken, or that is not
\* for the document of the session, has no effect; nor has an error, a version
\* that is not the present one, or a document that does not compile.
\* Mutant: any call for the document of the session counts.
InSession(call) == previewUri = call.object.doc
Latest(call) == call.request = previewRequest /\ previewUri = call.object.doc
\* Mutant: the images stay enabled.
ShownWithImages(call) ==
  [doc |-> call.object.doc, version |-> call.version, data |-> call.data,
   images |-> panel # None /\ panel.images]
Shown(call) ==
  [doc |-> call.object.doc, version |-> call.version, data |-> call.data, images |-> FALSE]

\* A response about another version is dropped, and not asked for again.
IsPresent(call) == call.version > 0 /\ call.version = VersionOf(call.object)
\* Mutant: it is asked for again.
RemainingRetried ==
  IF IsPresent(Head(calls)) THEN Tail(calls) ELSE Append(Tail(calls), Head(calls))
Remaining == Tail(calls)
Respond ==
  /\ calls # <<>>
  /\ calls' = Remaining
  /\ LET call == Head(calls)
     IN panel' = IF /\ Latest(call)
                    /\ IsPresent(call)
                    /\ call.version \in Compiles[call.object.doc]
                 THEN Shown(call) ELSE panel
  /\ UNCHANGED <<version, prompt, previewUri, previewData, previewRequest,
                 previewRefreshTimer, forClosed>>

User ==
  \/ \E d \in Doc : Preview(d) \/ PreviewWithData(d) \/ Edit(d) \/ CloseDocument(d) \/ OpenDocument(d)
  \/ \E data \in Data : Enter(data)
  \/ Dismiss \/ DisposePanel \/ LoadRemoteImages

Next == User \/ TimerFires \/ Respond

Spec == Init /\ [][Next]_vars
\* Timers fire and the server answers.
FairSpec == Spec /\ WF_vars(TimerFires) /\ WF_vars(Respond)

-----------------------------------------------------------------------------
\* The type invariant.
TypeOK ==
  /\ version \in [Doc -> 0..MaxVersion]
  /\ prompt \in Object \cup {None}
  /\ previewUri \in Doc \cup {None} /\ previewData \in Data \cup {None}
  /\ previewRequest \in Nat
  /\ previewRefreshTimer \in Object \cup {None}
  /\ panel \in {None} \cup [doc: Doc, version: 1..MaxVersion, data: Data \cup {None},
                           images: BOOLEAN]
  /\ calls \in Seq([request: Nat, object: Object, data: Data \cup {None},
                    version: 0..MaxVersion])
  /\ forClosed \in BOOLEAN

\* Whatever callbacks run while a refresh waits, what it puts into the panel is
\* the document of the session, in its present version and with the present
\* data (extension.ts:100-104), unless the refresh was for a document object
\* that had been closed.
Replaced == panel' # None /\ (panel # None => [panel' EXCEPT !.images = panel.images] # panel)
Current(shown) ==
  shown.doc = previewUri /\ shown.version = version[previewUri] /\ shown.data = previewData
UpdatesAreCurrent == [][Replaced /\ ~forClosed => Current(panel')]_vars

\* Once no timer and no refresh is pending, a panel that shows the document of
\* the session shows its present version and data, if it compiles: every edit
\* is followed by a refresh, and no refresh that failed leaves older content
\* behind.  It does not hold after a refresh for a document object that had
\* been closed (the file was closed and opened again while the user entered
\* data, or while the timer of an earlier session ran).
QuietMeansCurrent ==
  /\ ~forClosed
  /\ calls = <<>> /\ previewRefreshTimer = None
  /\ panel # None /\ panel.doc = previewUri
  /\ version[previewUri] \in Compiles[previewUri]
  => Current(panel)

\* Remote images are loaded for the preview the user asked them for, and for no
\* later content (extension.ts:116, 188-192).
ImagesPerPreview ==
  [][panel' # None /\ panel'.images => panel # None /\ panel' = [panel EXCEPT !.images = TRUE]]_vars

\* The refreshes come to rest.
Settles == <>[](calls = <<>> /\ previewRefreshTimer = None)

=============================================================================
