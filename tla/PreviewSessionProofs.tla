------------------------ MODULE PreviewSessionProofs ------------------------
(***************************************************************************)
(* Proofs about PreviewSession, for every set of documents, of versions    *)
(* that compile and of data, and any number of refreshes.                  *)
(***************************************************************************)
EXTENDS PreviewSession, TLAPS

Refresh == [request: Nat, object: Object, data: Data \cup {None}, version: 0..MaxVersion]

\* The requests are numbered upwards, and the number of the session is that of
\* the call made last for it, if that call still waits: it is for the document
\* and the data of the session.
CallsFit ==
  /\ \A i \in DOMAIN calls :
       /\ calls[i].request <= previewRequest
       /\ calls[i].request = previewRequest =>
            /\ calls[i].object.doc = previewUri /\ calls[i].data = previewData
            /\ forClosed <=> calls[i].object.closedAt > 0
  /\ \A i, j \in DOMAIN calls : i < j => calls[i].request < calls[j].request

\* An object that was not closed is of an open document, and so is the document
\* of a session whose last refresh was for such an object.
IsOpen(object) == object # None /\ object.closedAt = 0 => version[object.doc] > 0
ObjectsFit ==
  /\ IsOpen(prompt) /\ IsOpen(previewRefreshTimer)
  /\ ~forClosed /\ previewUri # None => version[previewUri] > 0

\* What the panel lacks of the session's document is on its way.
OnItsWay ==
  \/ previewRefreshTimer = OpenObject(previewUri)
  \/ /\ calls # <<>>
     /\ LET last == calls[Len(calls)]
        IN last.request = previewRequest /\ last.version = version[previewUri]
Pending ==
  /\ ~forClosed
  /\ panel # None /\ panel.doc = previewUri
  /\ version[previewUri] \in Compiles[previewUri]
  => Current(panel) \/ OnItsWay


\* Every step is one of these.
LEMMA StepCases ==
  ASSUME [Next]_vars, NEW G,
         (\E d \in Doc : Preview(d)) => G, (\E d \in Doc : PreviewWithData(d)) => G,
         (\E data \in Data : Enter(data)) => G, Dismiss => G,
         (\E d \in Doc : Edit(d)) => G, TimerFires => G, DisposePanel => G,
         (\E d \in Doc : CloseDocument(d)) => G, (\E d \in Doc : OpenDocument(d)) => G,
         LoadRemoteImages => G, Respond => G, UNCHANGED vars => G
  PROVE  G
BY DEF Next, User

-----------------------------------------------------------------------------
(***************************************************************************)
(* Types.                                                                  *)
(***************************************************************************)
LEMMA Objects ==
  /\ None \notin Object
  /\ \A d \in Doc : OpenObject(d) \in Object
  /\ \A object \in Object : object.doc \in Doc /\ object.closedAt \in 0..MaxVersion
BY NoneAssumption, BoundsAssumption DEF Object, OpenObject

\* Closing a document leaves an object that is closed with it, or the same.
LEMMA Closing ==
  ASSUME TypeOK, NEW d \in Doc, version[d] > 0, NEW object \in Object \cup {None}
  PROVE  /\ AfterClosing(d, object) \in Object \cup {None}
         /\ AfterClosing(d, object) # None /\ AfterClosing(d, object).closedAt = 0
              => AfterClosing(d, object) = object /\ object.doc # d
         /\ \A e \in Doc : e # d /\ object = OpenObject(e) => AfterClosing(d, object) = object
<1>1. version[d] \in 1..MaxVersion
  BY BoundsAssumption DEF TypeOK
<1>2. CASE object # None /\ object = OpenObject(d)
  <2>1. AfterClosing(d, object) = [doc |-> d, closedAt |-> version[d]]
    BY <1>2 DEF AfterClosing, OpenObject
  <2>2. AfterClosing(d, object) \in Object
    BY <1>1, <2>1, BoundsAssumption DEF Object
  <2>3. \A e \in Doc : object = OpenObject(e) => e = d
    BY <1>2 DEF OpenObject
  <2>4. QED
    BY <1>1, <2>1, <2>2, <2>3
<1>3. CASE ~(object # None /\ object = OpenObject(d))
  <2>1. AfterClosing(d, object) = object
    BY <1>3 DEF AfterClosing
  <2>2. object # None /\ object.closedAt = 0 => object.doc # d
    BY <1>3 DEF OpenObject, Object
  <2>3. QED
    BY <2>1, <2>2
<1>4. QED
  BY <1>2, <1>3

\* A refresh adds a call of the right type at the end.
LEMMA Requesting ==
  ASSUME TypeOK, NEW object \in Object, NEW data \in Data \cup {None}, Requested(object, data)
  PROVE  /\ previewRequest' \in Nat /\ calls' \in Seq(Refresh) /\ forClosed' \in BOOLEAN
         /\ Len(calls') = Len(calls) + 1
         /\ \A i \in DOMAIN calls : calls'[i] = calls[i]
         /\ calls'[Len(calls')] = Call(previewRequest', object, data)
<1>1. Call(previewRequest', object, data) \in Refresh
  BY Objects DEF TypeOK, Requested, Call, Refresh
<1>2. calls \in Seq(Refresh)
  BY DEF TypeOK, Refresh
<1>3. QED
  BY <1>1, <1>2 DEF Requested, TypeOK

LEMMA TypeStep == TypeOK /\ [Next]_vars => TypeOK'
<1> SUFFICES ASSUME TypeOK, [Next]_vars PROVE TypeOK'
  OBVIOUS
<1>1. ASSUME NEW object \in Object, NEW data \in Data \cup {None}, Attach(object, data),
             prompt' \in Object \cup {None}
      PROVE  TypeOK'
  <2>1. Requested(object, data) /\ UNCHANGED <<version, previewRefreshTimer, panel>>
    BY <1>1 DEF Attach
  <2>2. previewUri' \in Doc /\ previewData' \in Data \cup {None}
    BY <1>1, Objects DEF Attach
  <2>3. QED
    BY <1>1, <2>1, <2>2, Requesting DEF TypeOK, Refresh
<1>2. ASSUME NEW d \in Doc, Preview(d) PROVE TypeOK'
  BY <1>1, <1>2, Objects DEF Preview, TypeOK
<1>3. ASSUME NEW d \in Doc, PreviewWithData(d) PROVE TypeOK'
  BY <1>3, Objects DEF PreviewWithData, TypeOK
<1>4. ASSUME NEW data \in Data, Enter(data) PROVE TypeOK'
  BY <1>1, <1>4 DEF Enter, TypeOK
<1>5. CASE Dismiss
  BY <1>5 DEF Dismiss, TypeOK
<1>6. ASSUME NEW d \in Doc, Edit(d) PROVE TypeOK'
  <2>1. version' \in [Doc -> 0..MaxVersion]
    BY <1>6, BoundsAssumption DEF Edit, TypeOK
  <2>2. previewRefreshTimer' \in Object \cup {None}
    BY <1>6, Objects DEF Edit, TypeOK, Restarted
  <2>3. QED
    BY <1>6, <2>1, <2>2 DEF Edit, TypeOK
<1>7. CASE TimerFires
  <2>1. previewRefreshTimer \in Object /\ previewData \in Data \cup {None}
    BY <1>7 DEF TimerFires, TypeOK
  <2>2. previewRequest' \in Nat /\ calls' \in Seq(Refresh) /\ forClosed' \in BOOLEAN
    BY <1>7, <2>1, Requesting DEF TimerFires, TypeOK, Refresh
  <2>3. QED
    BY <1>7, <2>2 DEF TimerFires, TypeOK, Refresh
<1>8. CASE DisposePanel
  BY <1>8 DEF DisposePanel, Clear, TypeOK
<1>9. ASSUME NEW d \in Doc, CloseDocument(d) PROVE TypeOK'
  <2>1. version' \in [Doc -> 0..MaxVersion]
    BY <1>9, BoundsAssumption DEF CloseDocument, TypeOK
  <2>2. prompt' \in Object \cup {None} /\ previewRefreshTimer' \in Object \cup {None}
    BY <1>9, Closing DEF CloseDocument, Clear, TypeOK
  <2>3. QED
    BY <1>9, <2>1, <2>2 DEF CloseDocument, Clear, TypeOK
<1>10. ASSUME NEW d \in Doc, OpenDocument(d) PROVE TypeOK'
  <2>1. version' \in [Doc -> 0..MaxVersion]
    BY <1>10, BoundsAssumption DEF OpenDocument, TypeOK
  <2>2. QED
    BY <1>10, <2>1 DEF OpenDocument, TypeOK
<1>11. CASE LoadRemoteImages
  BY <1>11 DEF LoadRemoteImages, TypeOK
<1>12. CASE Respond
  <2>1. Head(calls) \in Refresh /\ calls' \in Seq(Refresh)
    <3>1. calls \in Seq(Refresh) /\ calls # <<>> /\ calls' = Tail(calls)
      BY <1>12 DEF Respond, Remaining, TypeOK, Refresh
    <3>2. QED
      BY <3>1
  <2>2. panel' \in {None} \cup [doc: Doc, version: 1..MaxVersion, data: Data \cup {None},
                                images: BOOLEAN]
    <3>1. CASE panel' = panel
      BY <3>1 DEF TypeOK
    <3>2. CASE IsPresent(Head(calls)) /\ panel' = Shown(Head(calls))
      BY <2>1, <3>2, Objects, BoundsAssumption DEF Refresh, IsPresent, Shown
    <3>3. QED
      BY <1>12, <3>1, <3>2 DEF Respond
  <2>3. QED
    BY <1>12, <2>1, <2>2 DEF Respond, TypeOK, Refresh
<1>13. CASE UNCHANGED vars
  BY <1>13 DEF vars, TypeOK
<1>14. QED
  BY <1>2, <1>3, <1>4, <1>5, <1>6, <1>7, <1>8, <1>9, <1>10, <1>11, <1>12, <1>13, StepCases

\* The variables keep their types, and a panel shows a version that was once open.
THEOREM TypeCorrect == Spec => []TypeOK
<1>1. ASSUME Init PROVE TypeOK
  <2>1. version \in [Doc -> 0..MaxVersion]
    BY <1>1, BoundsAssumption DEF Init
  <2>2. calls \in Seq(Refresh)
    BY <1>1 DEF Init
  <2>3. QED
    BY <1>1, <2>1, <2>2 DEF Init, TypeOK, Refresh
<1>2. QED
  BY <1>1, TypeStep, PTL DEF Spec

-----------------------------------------------------------------------------
(***************************************************************************)
(* The waiting calls: which one counts, and for what.                      *)
(***************************************************************************)
LEMMA CallTyped ==
  ASSUME TypeOK, NEW i \in DOMAIN calls PROVE calls[i] \in Refresh
<1>1. calls \in Seq(Refresh)
  BY DEF TypeOK, Refresh
<1>2. QED
  BY <1>1

\* A refresh with the data of the session, for its document, fits.
LEMMA RequestingFits ==
  ASSUME TypeOK, CallsFit, NEW object \in Object, NEW data \in Data \cup {None},
         Requested(object, data), previewUri' = object.doc, previewData' = data
  PROVE  CallsFit'
<1>1. /\ \A i \in DOMAIN calls' : i # Len(calls') => i \in DOMAIN calls /\ calls'[i] = calls[i]
      /\ Len(calls') \in Nat /\ DOMAIN calls' = 1..Len(calls')
  BY Requesting DEF TypeOK
<1>2. /\ calls'[Len(calls')].request = previewRequest'
      /\ calls'[Len(calls')].object = object /\ calls'[Len(calls')].data = data
  <2>1. calls'[Len(calls')] = Call(previewRequest', object, data)
    BY Requesting
  <2>2. QED
    BY <2>1 DEF Call
<1>3. \A i \in DOMAIN calls : calls[i].request \in Nat /\ calls[i].request < previewRequest'
  <2>1. previewRequest \in Nat /\ previewRequest' = previewRequest + 1
    BY DEF TypeOK, Requested
  <2>2. QED
    BY <2>1, CallTyped DEF CallsFit, Refresh
<1>4. previewRequest' \in Nat /\ (forClosed' <=> object.closedAt > 0)
  <2>1. previewRequest' \in Nat /\ forClosed' = (object.closedAt > 0)
    BY DEF TypeOK, Requested
  <2>2. QED
    BY <2>1
<1>5. ASSUME NEW i \in DOMAIN calls'
      PROVE  /\ calls'[i].request <= previewRequest'
             /\ calls'[i].request = previewRequest' =>
                  /\ calls'[i].object.doc = previewUri' /\ calls'[i].data = previewData'
                  /\ forClosed' <=> calls'[i].object.closedAt > 0
  <2>1. CASE i = Len(calls')
    BY <1>2, <1>4, <2>1
  <2>2. CASE i # Len(calls')
    BY <1>1, <1>3, <1>4, <2>2
  <2>3. QED
    BY <2>1, <2>2
<1>6. ASSUME NEW i \in DOMAIN calls', NEW j \in DOMAIN calls', i < j
      PROVE  calls'[i].request < calls'[j].request
  <2>1. i # Len(calls')
    BY <1>1, <1>6
  <2>2. CASE j = Len(calls')
    BY <1>1, <1>2, <1>3, <2>1, <2>2
  <2>3. CASE j # Len(calls')
    BY <1>1, <1>6, <2>1, <2>3 DEF CallsFit
  <2>4. QED
    BY <2>2, <2>3
<1>7. QED
  BY <1>5, <1>6 DEF CallsFit

\* The end of a session takes a number that no call has.
LEMMA ClearFits ==
  ASSUME TypeOK, CallsFit, Clear, UNCHANGED calls PROVE CallsFit'
<1>1. \A i \in DOMAIN calls : calls[i].request \in Nat /\ calls[i].request < previewRequest'
  <2>1. previewRequest \in Nat /\ previewRequest' = previewRequest + 1
    BY DEF TypeOK, Clear
  <2>2. QED
    BY <2>1, CallTyped DEF CallsFit, Refresh
<1>2. previewRequest' \in Nat
  BY DEF TypeOK, Clear
<1>3. QED
  BY <1>1, <1>2 DEF CallsFit

LEMMA RespondFits ==
  ASSUME TypeOK, CallsFit, Respond PROVE CallsFit'
<1>1. /\ Len(calls) \in Nat \ {0} /\ DOMAIN calls = 1..Len(calls)
      /\ DOMAIN calls' = 1..(Len(calls) - 1)
      /\ \A i \in DOMAIN calls' : calls'[i] = calls[i + 1]
  BY DEF Respond, Remaining, TypeOK
<1>2. UNCHANGED <<previewUri, previewData, previewRequest, forClosed>>
  BY DEF Respond
<1>3. \A i \in DOMAIN calls' : i + 1 \in DOMAIN calls
  BY <1>1
<1>4. ASSUME NEW i \in DOMAIN calls', NEW j \in DOMAIN calls', i < j
      PROVE  calls'[i].request < calls'[j].request
  BY <1>1, <1>3, <1>4 DEF CallsFit
<1>5. QED
  BY <1>1, <1>2, <1>3, <1>4 DEF CallsFit

LEMMA CallsFitStep == TypeOK /\ CallsFit /\ [Next]_vars => CallsFit'
<1> SUFFICES ASSUME TypeOK, CallsFit, [Next]_vars PROVE CallsFit'
  OBVIOUS
<1> DEFINE Same == UNCHANGED <<previewUri, previewData, previewRequest, calls, forClosed>>
<1>1. CASE Same
  BY <1>1 DEF CallsFit
<1> HIDE DEF Same
<1>2. ASSUME NEW d \in Doc, Preview(d) PROVE CallsFit'
  BY <1>2, Objects, RequestingFits DEF Preview, Attach
<1>3. ASSUME NEW d \in Doc, PreviewWithData(d) PROVE Same
  BY <1>3 DEF PreviewWithData, Same
<1>4. ASSUME NEW data \in Data, Enter(data) PROVE CallsFit'
  BY <1>4, RequestingFits DEF Enter, Attach, TypeOK
<1>5. CASE Dismiss
  BY <1>1, <1>5 DEF Dismiss, Same
<1>6. ASSUME NEW d \in Doc, Edit(d) PROVE Same
  BY <1>6 DEF Edit, Same
<1>7. CASE TimerFires
  <2>1. CASE previewUri = previewRefreshTimer.doc
    BY <1>7, <2>1, RequestingFits DEF TimerFires, TypeOK
  <2>2. CASE previewUri # previewRefreshTimer.doc
    BY <1>1, <1>7, <2>2 DEF TimerFires, Same
  <2>3. QED
    BY <2>1, <2>2
<1>8. CASE DisposePanel
  BY <1>8, ClearFits DEF DisposePanel
<1>9. ASSUME NEW d \in Doc, CloseDocument(d) PROVE CallsFit'
  <2>1. CASE d = previewUri
    BY <1>9, <2>1, ClearFits DEF CloseDocument
  <2>2. CASE d # previewUri
    BY <1>1, <1>9, <2>2 DEF CloseDocument, Same
  <2>3. QED
    BY <2>1, <2>2
<1>10. ASSUME NEW d \in Doc, OpenDocument(d) PROVE Same
  BY <1>10 DEF OpenDocument, Same
<1>11. CASE LoadRemoteImages
  BY <1>1, <1>11 DEF LoadRemoteImages, Same
<1>12. CASE Respond
  BY <1>12, RespondFits
<1>13. CASE UNCHANGED vars
  BY <1>1, <1>13 DEF vars, Same
<1>14. QED
  BY <1>1, <1>2, <1>3, <1>4, <1>5, <1>6, <1>7, <1>8, <1>9, <1>10, <1>11, <1>12, <1>13, StepCases

LEMMA CallsAlwaysFit == Spec => []CallsFit
<1>1. Init => CallsFit
  BY DEF Init, CallsFit
<1>2. QED
  BY <1>1, CallsFitStep, TypeCorrect, PTL DEF Spec

\* A response that changes the panel is the latest call's, hence of the session.
THEOREM OnlyCurrentUpdates == Spec => UpdatesAreCurrent
<1>1. ASSUME TypeOK, CallsFit, [Next]_vars, Replaced, ~forClosed PROVE Current(panel')
  <2>1. CASE Respond
    <3> DEFINE call == Head(calls)
    <3>1. /\ Latest(call) /\ IsPresent(call) /\ panel' = Shown(call)
          /\ UNCHANGED <<version, previewUri, previewData>>
      <4>1. panel' # panel
        <5>1. ASSUME panel' = panel PROVE FALSE
          BY <1>1, <5>1 DEF Replaced, TypeOK
        <5>2. QED
          BY <5>1
      <4>2. QED
        BY <2>1, <4>1 DEF Respond
    <3>2. 1 \in DOMAIN calls /\ call = calls[1] /\ call \in Refresh
      <4>1. calls \in Seq(Refresh) /\ calls # <<>>
        BY <1>1, <2>1 DEF Respond, TypeOK, Refresh
      <4>2. QED
        BY <4>1
    <3>3. call.data = previewData /\ call.object.closedAt = 0 /\ call.object.doc = previewUri
      BY <1>1, <3>1, <3>2, Objects, BoundsAssumption DEF CallsFit, Latest, Refresh
    <3>4. call.version = version[previewUri]
      BY <3>1, <3>3 DEF IsPresent, VersionOf
    <3>5. QED
      BY <3>1, <3>3, <3>4 DEF Current, Shown
  <2>2. CASE ~Respond
    <3>1. panel' = None \/ panel' = panel \/ LoadRemoteImages
      BY <1>1, <2>2, StepCases DEF Preview, PreviewWithData, Enter, Attach, Dismiss, Edit, TimerFires,
         DisposePanel, CloseDocument, OpenDocument, vars
    <3>2. QED
      BY <1>1, <3>1 DEF Replaced, LoadRemoteImages, TypeOK
  <2>3. QED
    BY <2>1, <2>2
<1>2. QED
  BY <1>1, TypeCorrect, CallsAlwaysFit, PTL DEF Spec, UpdatesAreCurrent

\* Remote images are loaded for the preview they were asked for, and no other.
THEOREM ImagesAreAskedFor == Spec => ImagesPerPreview
<1>1. ASSUME TypeOK, [Next]_vars, panel' # None, panel'.images
      PROVE  panel # None /\ panel' = [panel EXCEPT !.images = TRUE]
  <2>1. ~(\E call \in Refresh : panel' = Shown(call))
    BY <1>1 DEF Shown
  <2>2. panel' = panel \/ LoadRemoteImages
    <3>1. CASE Respond
      <4>1. calls \in Seq(Refresh) /\ calls # <<>>
        BY <1>1, <3>1 DEF Respond, TypeOK, Refresh
      <4>2. Head(calls) \in Refresh
        BY <4>1
      <4>3. QED
        BY <2>1, <3>1, <4>2 DEF Respond
    <3>2. CASE ~Respond
      BY <1>1, <3>2, StepCases DEF Preview, PreviewWithData, Enter, Attach, Dismiss, Edit, TimerFires,
         DisposePanel, CloseDocument, OpenDocument, vars
    <3>3. QED
      BY <3>1, <3>2
  <2>3. QED
    BY <1>1, <2>2 DEF LoadRemoteImages, TypeOK
<1>2. QED
  BY <1>1, TypeCorrect, PTL DEF Spec, ImagesPerPreview

-----------------------------------------------------------------------------
(***************************************************************************)
(* What the panel lacks is on its way.                                     *)
(***************************************************************************)
LEMMA ObjectsFitStep == TypeOK /\ ObjectsFit /\ [Next]_vars => ObjectsFit'
<1> SUFFICES ASSUME TypeOK, ObjectsFit, [Next]_vars PROVE ObjectsFit'
  OBVIOUS
<1>1. ASSUME NEW object \in Object, NEW data \in Data \cup {None}, Attach(object, data),
             IsOpen(object), prompt' = None \/ prompt' = prompt
      PROVE  ObjectsFit'
  <2>1. object # None /\ object.doc \in Doc /\ (object.closedAt > 0 \/ object.closedAt = 0)
    BY Objects, BoundsAssumption
  <2>2. ~forClosed' => version'[previewUri'] > 0
    BY <1>1, <2>1 DEF Attach, Requested, IsOpen
  <2>3. UNCHANGED <<version, previewRefreshTimer>>
    BY <1>1 DEF Attach
  <2>4. QED
    BY <1>1, <2>2, <2>3 DEF ObjectsFit, IsOpen
<1>2. ASSUME NEW d \in Doc, Preview(d) PROVE ObjectsFit'
  <2>1. OpenObject(d) \in Object /\ IsOpen(OpenObject(d))
    BY <1>2, Objects DEF Preview, IsOpen, OpenObject
  <2>2. QED
    BY <1>1, <1>2, <2>1 DEF Preview
<1>3. ASSUME NEW d \in Doc, PreviewWithData(d) PROVE ObjectsFit'
  BY <1>3 DEF PreviewWithData, ObjectsFit, IsOpen, OpenObject
<1>4. ASSUME NEW data \in Data, Enter(data) PROVE ObjectsFit'
  BY <1>1, <1>4 DEF Enter, ObjectsFit, TypeOK
<1>5. CASE Dismiss
  BY <1>5 DEF Dismiss, ObjectsFit, IsOpen
<1>6. ASSUME NEW d \in Doc, Edit(d) PROVE ObjectsFit'
  <2>1. \A e \in Doc : version[e] > 0 => version'[e] > 0
    BY <1>6 DEF Edit, TypeOK
  <2>2. IsOpen(prompt)'
    BY <1>6, <2>1, Objects DEF Edit, ObjectsFit, IsOpen, TypeOK
  <2>3. IsOpen(previewRefreshTimer)'
    <3>1. CASE previewRefreshTimer' = OpenObject(d)
      BY <1>6, <2>1, <3>1 DEF Edit, IsOpen, OpenObject
    <3>2. CASE previewRefreshTimer' = previewRefreshTimer
      BY <2>1, <3>2, Objects DEF ObjectsFit, IsOpen, TypeOK
    <3>3. QED
      BY <1>6, <3>1, <3>2 DEF Edit, Restarted
  <2>4. (~forClosed /\ previewUri # None => version[previewUri] > 0)'
    BY <1>6, <2>1 DEF Edit, ObjectsFit, TypeOK
  <2>5. QED
    BY <2>2, <2>3, <2>4 DEF ObjectsFit
<1>7. CASE TimerFires
  <2>1. UNCHANGED <<version, prompt, previewUri>> /\ previewRefreshTimer' = None
    BY <1>7 DEF TimerFires
  <2>2. CASE previewUri = previewRefreshTimer.doc
    <3>1. previewRefreshTimer \in Object
      BY <1>7 DEF TimerFires, TypeOK
    <3>2. previewRefreshTimer.closedAt > 0 \/ previewRefreshTimer.closedAt = 0
      BY <3>1, Objects, BoundsAssumption
    <3>3. ~forClosed' => version[previewUri] > 0
      BY <1>7, <2>2, <3>2 DEF TimerFires, Requested, ObjectsFit, IsOpen
    <3>4. QED
      BY <2>1, <3>3 DEF ObjectsFit, IsOpen
  <2>3. CASE previewUri # previewRefreshTimer.doc
    BY <1>7, <2>1, <2>3 DEF TimerFires, ObjectsFit, IsOpen
  <2>4. QED
    BY <2>2, <2>3
<1>8. CASE DisposePanel
  BY <1>8 DEF DisposePanel, Clear, ObjectsFit, IsOpen
<1>9. ASSUME NEW d \in Doc, CloseDocument(d) PROVE ObjectsFit'
  <2>1. /\ version[d] > 0 /\ \A e \in Doc : e # d => version'[e] = version[e]
        /\ prompt' = AfterClosing(d, prompt)
    BY <1>9 DEF CloseDocument, TypeOK
  <2>2. ASSUME NEW object \in Object \cup {None}, IsOpen(object),
               AfterClosing(d, object) # None, AfterClosing(d, object).closedAt = 0
        PROVE  version'[AfterClosing(d, object).doc] > 0
    <3>1. AfterClosing(d, object) = object /\ object.doc # d
      BY <2>1, <2>2, Closing
    <3>2. object \in Object /\ object.doc \in Doc
      BY <2>2, <3>1, Objects
    <3>3. QED
      BY <2>1, <2>2, <3>1, <3>2 DEF IsOpen
  <2>3. IsOpen(prompt)'
    BY <2>1, <2>2 DEF ObjectsFit, IsOpen, TypeOK
  <2>4. CASE d = previewUri
    BY <1>9, <2>3, <2>4 DEF CloseDocument, Clear, ObjectsFit, IsOpen
  <2>5. CASE d # previewUri
    <3>1. /\ previewRefreshTimer' = AfterClosing(d, previewRefreshTimer)
          /\ UNCHANGED <<previewUri, forClosed>>
      BY <1>9, <2>5 DEF CloseDocument
    <3>2. IsOpen(previewRefreshTimer)'
      BY <2>2, <3>1 DEF ObjectsFit, IsOpen, TypeOK
    <3>3. (~forClosed /\ previewUri # None => version[previewUri] > 0)'
      BY <2>1, <2>5, <3>1 DEF ObjectsFit, TypeOK
    <3>4. QED
      BY <2>3, <3>2, <3>3 DEF ObjectsFit
  <2>6. QED
    BY <2>4, <2>5
<1>10. ASSUME NEW d \in Doc, OpenDocument(d) PROVE ObjectsFit'
  <2>1. \A e \in Doc : version[e] > 0 => version'[e] > 0
    BY <1>10 DEF OpenDocument, TypeOK
  <2>2. UNCHANGED <<prompt, previewRefreshTimer, previewUri, forClosed>>
    BY <1>10 DEF OpenDocument
  <2>3. IsOpen(prompt)' /\ IsOpen(previewRefreshTimer)'
    BY <2>1, <2>2, Objects DEF ObjectsFit, IsOpen, TypeOK
  <2>4. QED
    BY <2>1, <2>2, <2>3 DEF ObjectsFit, TypeOK
<1>11. CASE LoadRemoteImages
  BY <1>11 DEF LoadRemoteImages, ObjectsFit, IsOpen
<1>12. CASE Respond
  BY <1>12 DEF Respond, ObjectsFit, IsOpen
<1>13. CASE UNCHANGED vars
  BY <1>13 DEF vars, ObjectsFit, IsOpen
<1>14. QED
  BY <1>2, <1>3, <1>4, <1>5, <1>6, <1>7, <1>8, <1>9, <1>10, <1>11, <1>12, <1>13, StepCases

\* After a refresh for an open document object, what is asked for is on its way.
LEMMA RequestingBrings ==
  ASSUME TypeOK, NEW object \in Object, NEW data \in Data \cup {None},
         Requested(object, data), previewUri' = object.doc, UNCHANGED version
  PROVE  OnItsWay'
<1>1. calls' \in Seq(Refresh) /\ Len(calls') = Len(calls) + 1 /\ Len(calls) \in Nat
  BY Requesting DEF TypeOK
<1>2. calls' # <<>>
  BY <1>1
<1>3. calls'[Len(calls')] = Call(previewRequest', object, data)
  BY Requesting
<1>4. /\ calls'[Len(calls')].request = previewRequest'
      /\ calls'[Len(calls')].version = version[object.doc]
  BY <1>3 DEF Call
<1>5. QED
  BY <1>2, <1>4 DEF OnItsWay

LEMMA RespondPending ==
  ASSUME TypeOK, CallsFit, Pending, Respond PROVE Pending'
<1> DEFINE call == Head(calls)
<1>1. UNCHANGED <<version, previewUri, previewData, previewRequest, previewRefreshTimer, forClosed>>
  BY DEF Respond
<1>2. calls \in Seq(Refresh) /\ calls # <<>> /\ calls' = Tail(calls)
  BY DEF Respond, Remaining, TypeOK, Refresh
<1>3. 1 \in DOMAIN calls /\ call = calls[1] /\ call \in Refresh
  BY <1>2
<1> SUFFICES ASSUME ~forClosed, panel' # None, panel'.doc = previewUri,
                    version[previewUri] \in Compiles[previewUri]
             PROVE  Current(panel)' \/ OnItsWay'
  BY <1>1 DEF Pending
<1>4. CASE Latest(call) /\ IsPresent(call) /\ call.version \in Compiles[call.object.doc]
  <2>1. panel' = Shown(call)
    BY <1>4 DEF Respond
  <2>2. call.data = previewData /\ call.object.closedAt = 0 /\ call.object.doc = previewUri
    BY <1>3, <1>4, Objects, BoundsAssumption DEF CallsFit, Latest, Refresh
  <2>3. call.version = version[previewUri]
    BY <1>4, <2>2 DEF IsPresent, VersionOf
  <2>4. QED
    BY <1>1, <2>1, <2>2, <2>3 DEF Current, Shown
<1>5. CASE ~(Latest(call) /\ IsPresent(call) /\ call.version \in Compiles[call.object.doc])
  <2>1. panel' = panel
    BY <1>5 DEF Respond
  <2>2. Current(panel) \/ OnItsWay
    BY <2>1 DEF Pending
  <2>3. CASE Current(panel)
    BY <1>1, <2>1, <2>3 DEF Current
  <2>4. CASE previewRefreshTimer = OpenObject(previewUri)
    BY <1>1, <2>4 DEF OnItsWay
  <2>5. CASE /\ calls[Len(calls)].request = previewRequest
             /\ calls[Len(calls)].version = version[previewUri]
    <3>1. Len(calls) # 1
      <4>1. SUFFICES ASSUME Len(calls) = 1 PROVE FALSE
        OBVIOUS
      <4>2. call.request = previewRequest /\ call.version = version[previewUri]
        BY <1>3, <2>5, <4>1
      <4>3. call.object.doc = previewUri /\ call.object.closedAt = 0
        BY <1>3, <4>2, Objects, BoundsAssumption DEF CallsFit, Refresh
      <4>4. previewUri \in Doc
        BY <1>3, <4>3, Objects DEF Refresh
      <4>5. call.version > 0
        BY <4>2, <4>4, CompilesAssumption, BoundsAssumption
      <4>6. Latest(call) /\ IsPresent(call) /\ call.version \in Compiles[call.object.doc]
        BY <4>2, <4>3, <4>5 DEF Latest, IsPresent, VersionOf
      <4>7. QED
        BY <1>5, <4>6
    <3>2. Len(calls) \in Nat /\ Len(calls) > 1
      <4>1. Len(calls) \in Nat /\ 1 \in 1..Len(calls)
        BY <1>2, <1>3
      <4>2. \A n \in Nat : 1 \in 1..n /\ n # 1 => n > 1
        OBVIOUS
      <4>3. QED
        BY <3>1, <4>1, <4>2
    <3>3. calls' # <<>> /\ calls'[Len(calls')] = calls[Len(calls)]
      <4>1. calls' \in Seq(Refresh) /\ Len(calls') = Len(calls) - 1
        BY <1>2
      <4>2. \A i \in 1..(Len(calls) - 1) : calls'[i] = calls[i + 1]
        BY <1>2
      <4>3. calls'[Len(calls')] = calls[(Len(calls) - 1) + 1]
        BY <3>2, <4>1, <4>2
      <4>4. calls' # <<>>
        BY <3>2, <4>1
      <4>5. QED
        BY <3>2, <4>3, <4>4
    <3>4. QED
      BY <1>1, <2>5, <3>3 DEF OnItsWay
  <2>6. QED
    BY <2>2, <2>3, <2>4, <2>5 DEF OnItsWay
<1>6. QED
  BY <1>4, <1>5

LEMMA PendingStep ==
  TypeOK /\ CallsFit /\ ObjectsFit /\ Pending /\ [Next]_vars => Pending'
<1> SUFFICES ASSUME TypeOK, CallsFit, ObjectsFit, Pending, [Next]_vars PROVE Pending'
  OBVIOUS
<1> DEFINE Same == UNCHANGED <<version, previewUri, previewData, previewRequest,
                               previewRefreshTimer, panel, calls, forClosed>>
<1>1. CASE Same
  BY <1>1 DEF Pending, OnItsWay, Current
<1> HIDE DEF Same
<1>2. ASSUME NEW d \in Doc, Preview(d) PROVE Pending'
  BY <1>2, Objects, RequestingBrings DEF Preview, Attach, OpenObject, Pending
<1>3. ASSUME NEW d \in Doc, PreviewWithData(d) PROVE Same
  BY <1>3 DEF PreviewWithData, Same
<1>4. ASSUME NEW data \in Data, Enter(data) PROVE Pending'
  BY <1>4, RequestingBrings DEF Enter, Attach, TypeOK, Pending
<1>5. CASE Dismiss
  BY <1>1, <1>5 DEF Dismiss, Same
<1>6. ASSUME NEW d \in Doc, Edit(d) PROVE Pending'
  <2>1. UNCHANGED <<previewUri, previewData, previewRequest, panel, calls, forClosed>>
    BY <1>6 DEF Edit
  <2>2. CASE d = previewUri
    BY <1>6, <2>1, <2>2 DEF Edit, Restarted, Pending, OnItsWay
  <2>3. CASE d # previewUri
    <3>1. previewRefreshTimer' = previewRefreshTimer /\ version'[previewUri] = version[previewUri]
      BY <1>6, <2>3 DEF Edit, TypeOK
    <3>2. QED
      BY <2>1, <3>1 DEF Pending, OnItsWay, Current
  <2>4. QED
    BY <2>2, <2>3
<1>7. CASE TimerFires
  <2>1. UNCHANGED <<version, previewUri, previewData, panel>>
    BY <1>7 DEF TimerFires
  <2>2. CASE previewUri = previewRefreshTimer.doc
    BY <1>7, <2>1, <2>2, RequestingBrings DEF TimerFires, TypeOK, Pending
  <2>3. CASE previewUri # previewRefreshTimer.doc
    <3>1. UNCHANGED <<previewRequest, calls, forClosed>>
      BY <1>7, <2>3 DEF TimerFires
    <3>2. previewRefreshTimer # OpenObject(previewUri)
      BY <2>3 DEF OpenObject
    <3>3. QED
      BY <2>1, <3>1, <3>2 DEF Pending, OnItsWay, Current
  <2>4. QED
    BY <2>2, <2>3
<1>8. CASE DisposePanel
  BY <1>8 DEF DisposePanel, Pending
<1>9. ASSUME NEW d \in Doc, CloseDocument(d) PROVE Pending'
  <2>1. CASE d = previewUri
    BY <1>9, <2>1 DEF CloseDocument, Pending
  <2>2. CASE d # previewUri
    <3>1. /\ UNCHANGED <<previewUri, previewData, previewRequest, panel, calls, forClosed>>
          /\ version'[previewUri] = version[previewUri]
          /\ version[d] > 0 /\ previewRefreshTimer' = AfterClosing(d, previewRefreshTimer)
      BY <1>9, <2>2 DEF CloseDocument, TypeOK
    <3>2. previewUri \in Doc /\ previewRefreshTimer = OpenObject(previewUri)
            => previewRefreshTimer' = previewRefreshTimer
      BY <2>2, <3>1, Closing DEF TypeOK
    <3>3. panel # None => panel.doc \in Doc
      BY DEF TypeOK
    <3>4. QED
      BY <3>1, <3>2, <3>3 DEF Pending, OnItsWay, Current
  <2>3. QED
    BY <2>1, <2>2
<1>10. ASSUME NEW d \in Doc, OpenDocument(d) PROVE Pending'
  <2>1. UNCHANGED <<previewUri, previewData, previewRequest, previewRefreshTimer, panel, calls,
                    forClosed>>
    BY <1>10 DEF OpenDocument
  <2>2. d = previewUri => forClosed
    BY <1>10, NoneAssumption DEF OpenDocument, ObjectsFit
  <2>3. d # previewUri => version'[previewUri] = version[previewUri]
    BY <1>10 DEF OpenDocument, TypeOK
  <2>4. QED
    BY <2>1, <2>2, <2>3 DEF Pending, OnItsWay, Current
<1>11. CASE LoadRemoteImages
  <2>1. panel # None /\ panel'.doc = panel.doc
        /\ panel'.version = panel.version /\ panel'.data = panel.data
    BY <1>11 DEF LoadRemoteImages, TypeOK
  <2>2. QED
    BY <1>11, <2>1 DEF LoadRemoteImages, Pending, OnItsWay, Current
<1>12. CASE Respond
  BY <1>12, RespondPending
<1>13. CASE UNCHANGED vars
  BY <1>1, <1>13 DEF vars, Same
<1>14. QED
  BY <1>1, <1>2, <1>3, <1>4, <1>5, <1>6, <1>7, <1>8, <1>9, <1>10, <1>11, <1>12, <1>13, StepCases

\* When nothing is pending, the panel shows the session's document as it is.
THEOREM QuietPanelIsCurrent == Spec => []QuietMeansCurrent
<1>1. Init => ObjectsFit /\ Pending
  BY DEF Init, ObjectsFit, IsOpen, Pending
<1>2. Spec => [](ObjectsFit /\ Pending)
  BY <1>1, ObjectsFitStep, PendingStep, TypeCorrect, CallsAlwaysFit, PTL DEF Spec
<1>3. TypeOK /\ Pending => QuietMeansCurrent
  BY Objects DEF TypeOK, Pending, OnItsWay, QuietMeansCurrent
<1>4. QED
  BY <1>2, <1>3, TypeCorrect, PTL
=============================================================================
